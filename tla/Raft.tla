-------------------------------- MODULE Raft --------------------------------
(***************************************************************************)
(* A cluster of Raft nodes (raft/node.py and the pure modules it drives)   *)
(* over the simulated network, with the durable half of each node that its *)
(* write-ahead log keeps.                                                  *)
(*                                                                         *)
(* A node is one asyncio task that handles one envelope, or one expired    *)
(* deadline, to its end before it waits again: each handler is one action  *)
(* and no two handlers of a node interleave.  Deadlines are abstracted to  *)
(* "may fire now", so every order of timeouts and messages is explored.    *)
(*                                                                         *)
(* Two things happen inside a handler that an action here must still show. *)
(* Log records are flushed to the WAL as the log changes, while the term,  *)
(* the vote and the commit index are written only when the node is about   *)
(* to send (Persist); and the process can die between two of those writes  *)
(* (TornAppend).  Between handlers the WAL holds exactly the node's log,   *)
(* so only the other three are kept apart, in wal.                         *)
(***************************************************************************)
EXTENDS RaftLog, FiniteSets, Bags

CONSTANTS
    Server,      \* the members of the cluster; membership never changes
    Command,     \* what clients ask to write
    NoOp,        \* the command of the entry a new leader appends
    Nil,         \* voted_for before a vote is cast
    MaxBatch,    \* replication.MAX_BATCH
    Crashable,   \* the members whose process may die (a bound on exploration)
    MaxTerm,     \* bound: no election is started beyond this term
    MaxLog,      \* bound: no leader appends beyond this index
    MaxInFlight  \* bound: no timer or client adds to this many envelopes

ASSUME ServerAssumption == IsFiniteSet(Server) /\ Cardinality(Server) > 1
ASSUME NilAssumption == Nil \notin Server
ASSUME NoOpAssumption == NoOp \notin Command
ASSUME BatchAssumption == MaxBatch \in Nat \ {0}
ASSUME CrashableAssumption == Crashable \subseteq Server

VARIABLES
    current_term, voted_for, log, commit_index,  \* RaftState
    role, granted, next_index, match_index,      \* RaftState, VoteTally
    wal,         \* what recovery would read back, the log apart
    network,     \* the bag of envelopes sent and not yet received or lost
    elected      \* history: who won each election so far, and whose votes did it

stateVars == <<current_term, voted_for, log, commit_index>>
roleVars == <<role, granted, next_index, match_index>>
vars == <<stateVars, roleVars, wal, network, elected>>

Entry == [term : Nat \ {0}, command : Command \cup {NoOp}]

Peers(n) == Server \ {n}

\* Definitions named X_Something are X with a plausible bug, to show that the
\* properties notice; nothing uses them.
Majority_HalfIsEnough == Cardinality(Server) \div 2
Majority == Cardinality(Server) \div 2 + 1

IsMajority(S) == Cardinality(S) >= Majority

-----------------------------------------------------------------------------
(***************************************************************************)
(* Envelopes.  candidate_id and leader_id are the envelope's src; sent_at  *)
(* and its echo only matter to reads and are left out.  The simulator may  *)
(* drop, delay and reorder but never duplicates, hence a bag.              *)
(***************************************************************************)
RequestVote(n, p, term, last_index, last_term) ==
    [type |-> "request_vote", src |-> n, dst |-> p, term |-> term,
     last_log_index |-> last_index, last_log_term |-> last_term]

RequestVoteReply(n, p, term, vote_granted) ==
    [type |-> "request_vote_reply", src |-> n, dst |-> p, term |-> term,
     vote_granted |-> vote_granted]

AppendEntriesReply(n, p, term, success, index) ==
    [type |-> "append_entries_reply", src |-> n, dst |-> p, term |-> term,
     success |-> success, match_index |-> index]

\* build_append_entries: everything after next - 1, up to MaxBatch entries;
\* never from before the base, and a next beyond the log falls back to its end.
BuildAppendEntries(n, p, term, lg, next, commit) ==
    LET prev == Min({Max({next - 1, 0}), Len(lg)}) IN
    [type |-> "append_entries", src |-> n, dst |-> p, term |-> term,
     prev_log_index |-> prev, prev_log_term |-> TermAt(lg, prev),
     entries |-> Batch(lg, prev, MaxBatch), leader_commit |-> commit]

Message ==
    [type : {"request_vote"}, src : Server, dst : Server, term : Nat,
     last_log_index : Nat, last_log_term : Nat]
    \cup
    [type : {"request_vote_reply"}, src : Server, dst : Server, term : Nat,
     vote_granted : BOOLEAN]
    \cup
    [type : {"append_entries"}, src : Server, dst : Server, term : Nat,
     prev_log_index : Nat, prev_log_term : Nat, entries : Seq(Entry),
     leader_commit : Nat]
    \cup
    [type : {"append_entries_reply"}, src : Server, dst : Server, term : Nat,
     success : BOOLEAN, match_index : Nat]

InFlight == BagToSet(network)

Received(type) == {m \in InFlight : m.type = type}

Send(S) == network' = network (+) SetToBag(S)

Discard(m) == network' = network (-) SetToBag({m})

\* m leaves the network and the messages of S enter it.
Answer(m, S) == network' = (network (-) SetToBag({m})) (+) SetToBag(S)

\* Bound: timers and clients wait while this many envelopes are in flight.
\* Answers do not.
HasRoom == BagCardinality(network) < MaxInFlight

-----------------------------------------------------------------------------
(***************************************************************************)
(* Parts of handlers.                                                      *)
(***************************************************************************)
\* What _persist leaves in the WAL: the scalars as this step makes them.  It
\* runs before every send.
Persist_TermOnly(n) ==
    wal' = [wal EXCEPT ![n] = [term |-> current_term'[n],
                               voted_for |-> wal[n].voted_for,
                               commit |-> commit_index'[n]]]
Persist(n) ==
    wal' = [wal EXCEPT ![n] = [term |-> current_term'[n],
                               voted_for |-> voted_for'[n],
                               commit |-> commit_index'[n]]]

\* What a journalled entry adds by itself: recovery takes the term of an entry
\* as proof the node had reached it.
Journalled(n, lg) ==
    [wal[n] EXCEPT !.term = Max({wal[n].term, LastTerm(lg)})]

\* The volatile half of observe_term, and of a candidate hearing a leader: the
\* tally and the leader's bookkeeping are never read again.
BecomeFollower(n) ==
    /\ role' = [role EXCEPT ![n] = "follower"]
    /\ granted' = [granted EXCEPT ![n] = {}]
    /\ next_index' = [next_index EXCEPT ![n] = [p \in Server |-> 0]]
    /\ match_index' = [match_index EXCEPT ![n] = [p \in Server |-> 0]]

\* The vote after observe_term: a higher term clears it.
VoteIn(n, term) == IF term > current_term[n] THEN Nil ELSE voted_for[n]

\* handle_request_vote's decision, once observe_term has run.
GrantsVote_AnyLog(n, m) ==
    /\ m.term >= current_term[n]
    /\ VoteIn(n, m.term) \in {Nil, m.src}
GrantsVote(n, m) ==
    /\ m.term >= current_term[n]
    /\ VoteIn(n, m.term) \in {Nil, m.src}
    /\ CandidateIsUpToDate(log[n], m.last_log_term, m.last_log_index)

\* handle_append_entries: how far an accepted request moves the commit index.
CommitAfterAppend(n, m, lg) ==
    Max({commit_index[n], Min({m.leader_commit, Len(lg)})})

\* What a success reply claims: not the end of the follower's log, which may
\* hold a stale tail beyond the request's reach.
AckedIndex(m, lg) == m.prev_log_index + Len(m.entries)

\* advance_commit_index: the highest index a majority stores, if it is of the
\* leader's own term.
StoredByMajority_OffByOne(n, match, i) ==
    IsMajority({n} \cup {p \in Peers(n) : match[p] + 1 >= i})
StoredByMajority(n, match, i) ==
    IsMajority({n} \cup {p \in Peers(n) : match[p] >= i})

AdvanceCommitIndex_AnyTerm(n, match) ==
    Max({commit_index[n]} \cup
        {i \in 0..Len(log[n]) : StoredByMajority(n, match, i)})
AdvanceCommitIndex(n, match) ==
    LET candidate == Max({i \in 0..Len(log[n]) : StoredByMajority(n, match, i)})
    IN  IF /\ candidate > commit_index[n]
           /\ TermAt(log[n], candidate) = current_term[n]
        THEN candidate
        ELSE commit_index[n]

\* Entries the leader appended for a client that still waits for the answer.
\* A leadership is one term, and _pending is cleared when it ends.
Waiting(n, from, to) ==
    {i \in from + 1..to : /\ log[n][i].term = current_term[n]
                          /\ log[n][i].command # NoOp}

-----------------------------------------------------------------------------
Init ==
    /\ current_term = [n \in Server |-> 0]
    /\ voted_for = [n \in Server |-> Nil]
    /\ log = [n \in Server |-> <<>>]
    /\ commit_index = [n \in Server |-> 0]
    /\ role = [n \in Server |-> "follower"]
    /\ granted = [n \in Server |-> {}]
    /\ next_index = [n \in Server |-> [p \in Server |-> 0]]
    /\ match_index = [n \in Server |-> [p \in Server |-> 0]]
    /\ wal = [n \in Server |-> [term |-> 0, voted_for |-> Nil, commit |-> 0]]
    /\ network = EmptyBag
    /\ elected = {}

-----------------------------------------------------------------------------
(***************************************************************************)
(* Elections.                                                              *)
(***************************************************************************)
\* The election deadline passes on a node that is not leading.
StartElection(n) ==
    /\ role[n] # "leader"
    /\ current_term[n] < MaxTerm
    /\ HasRoom
    /\ current_term' = [current_term EXCEPT ![n] = @ + 1]
    /\ voted_for' = [voted_for EXCEPT ![n] = n]
    /\ role' = [role EXCEPT ![n] = "candidate"]
    /\ granted' = [granted EXCEPT ![n] = {n}]
    /\ Send({RequestVote(n, p, current_term[n] + 1,
                         Len(log[n]), LastTerm(log[n])) : p \in Peers(n)})
    /\ UNCHANGED <<log, commit_index, next_index, match_index, elected>>
    /\ Persist(n)

HandleRequestVote(m) ==
    LET n == m.dst
        grants == GrantsVote(n, m)
    IN  /\ IF m.term > current_term[n]
           THEN /\ current_term' = [current_term EXCEPT ![n] = m.term]
                /\ BecomeFollower(n)
           ELSE UNCHANGED <<current_term, roleVars>>
        /\ voted_for' = [voted_for EXCEPT
                           ![n] = IF grants THEN m.src ELSE VoteIn(n, m.term)]
        /\ Answer(m, {RequestVoteReply(n, m.src, current_term'[n], grants)})
        /\ UNCHANGED <<log, commit_index, elected>>
        /\ Persist(n)

\* Either kind of reply carries a higher term.  Nothing is sent, so nothing is
\* persisted: a crash now forgets the term.
StepDownOnReply(m) ==
    LET n == m.dst IN
    /\ m.term > current_term[n]
    /\ current_term' = [current_term EXCEPT ![n] = m.term]
    /\ voted_for' = [voted_for EXCEPT ![n] = Nil]
    /\ BecomeFollower(n)
    /\ Discard(m)
    /\ UNCHANGED <<log, commit_index, wal, elected>>

\* A vote for an election this node is no longer running.
IgnoreVote(m) ==
    LET n == m.dst IN
    /\ m.term <= current_term[n]
    /\ m.term = current_term[n] => role[n] # "candidate"
    /\ Discard(m)
    /\ UNCHANGED <<stateVars, roleVars, wal, elected>>

\* VoteTally.record: who has granted, a refusal counting for nothing.
Tally(n, m) == granted[n] \cup {p \in {m.src} : m.vote_granted}

CountVote(m) ==
    LET n == m.dst IN
    /\ m.term = current_term[n]
    /\ role[n] = "candidate"
    /\ ~ IsMajority(Tally(n, m))
    /\ granted' = [granted EXCEPT ![n] = Tally(n, m)]
    /\ Discard(m)
    /\ UNCHANGED <<stateVars, role, next_index, match_index, wal, elected>>

\* _win_election: next_index points past the log as it was, then a no-op of
\* the new term is appended, and every peer is sent it at once.
WinElection(m) ==
    LET n == m.dst
        next == Len(log[n]) + 1
        lg == Append(log[n], [term |-> current_term[n], command |-> NoOp])
    IN  /\ m.term = current_term[n]
        /\ role[n] = "candidate"
        /\ IsMajority(Tally(n, m))
        /\ Len(log[n]) < MaxLog
        /\ role' = [role EXCEPT ![n] = "leader"]
        /\ granted' = [granted EXCEPT ![n] = {}]
        /\ next_index' = [next_index EXCEPT ![n] = [p \in Server |-> next]]
        /\ match_index' = [match_index EXCEPT ![n] = [p \in Server |-> 0]]
        /\ log' = [log EXCEPT ![n] = lg]
        /\ elected' = elected \cup {[term |-> current_term[n], leader |-> n,
                                     voters |-> Tally(n, m)]}
        /\ Answer(m, {BuildAppendEntries(n, p, current_term[n], lg, next,
                                         commit_index[n]) : p \in Peers(n)})
        /\ UNCHANGED <<current_term, voted_for, commit_index>>
        /\ Persist(n)

-----------------------------------------------------------------------------
(***************************************************************************)
(* Replication, the follower's side.                                       *)
(***************************************************************************)
RejectStaleAppend(m) ==
    LET n == m.dst IN
    /\ m.term < current_term[n]
    /\ Answer(m, {AppendEntriesReply(n, m.src, current_term[n], FALSE, 0)})
    /\ UNCHANGED <<stateVars, roleVars, elected>>
    /\ Persist(n)

\* What a request of the current term, or a higher one, does to the follower
\* whether or not its log agrees.
FollowLeader(n, m) ==
    /\ current_term' = [current_term EXCEPT ![n] = m.term]
    /\ voted_for' = [voted_for EXCEPT ![n] = VoteIn(n, m.term)]
    /\ BecomeFollower(n)

RejectMismatch(m) ==
    LET n == m.dst IN
    /\ m.term >= current_term[n]
    /\ ~ HasEntry(log[n], m.prev_log_index, m.prev_log_term)
    /\ FollowLeader(n, m)
    /\ Answer(m, {AppendEntriesReply(n, m.src, m.term, FALSE, 0)})
    /\ UNCHANGED <<log, commit_index, elected>>
    /\ Persist(n)

Accepts(n, m) ==
    /\ m.term >= current_term[n]
    /\ HasEntry(log[n], m.prev_log_index, m.prev_log_term)

AcceptAppend(m) ==
    LET n == m.dst
        lg == AppendNewEntries(log[n], m.prev_log_index, m.entries)
    IN  /\ Accepts(n, m)
        /\ FollowLeader(n, m)
        /\ log' = [log EXCEPT ![n] = lg]
        /\ commit_index' = [commit_index EXCEPT
                              ![n] = CommitAfterAppend(n, m, lg)]
        /\ Answer(m, {AppendEntriesReply(n, m.src, m.term, TRUE,
                                         AckedIndex(m, lg))})
        /\ UNCHANGED elected
        /\ Persist(n)

-----------------------------------------------------------------------------
(***************************************************************************)
(* Replication, the leader's side.                                         *)
(***************************************************************************)
\* A request to p from the log and the next_index of this step.
Replicate(n, p) ==
    BuildAppendEntries(n, p, current_term[n], log'[n], next_index'[n][p],
                       commit_index[n])

\* submit(): append the command and offer it to the peers whose slot is free
\* or has timed out.  With a peer that is yet to answer, the commit index
\* cannot move here.
ClientSubmit(n, c) ==
    /\ role[n] = "leader"
    /\ Len(log[n]) < MaxLog
    /\ log' = [log EXCEPT
                 ![n] = Append(@, [term |-> current_term[n], command |-> c])]
    /\ UNCHANGED <<current_term, voted_for, commit_index, roleVars, elected>>
    /\ HasRoom
    /\ \E free \in SUBSET Peers(n) : Send({Replicate(n, p) : p \in free})
    /\ Persist(n)

\* The heartbeat deadline passes, or a read forces a round: the peers whose
\* slot is free, timed out or overridden are sent what they miss.
BroadcastHeartbeat(n) ==
    /\ role[n] = "leader"
    /\ UNCHANGED <<stateVars, roleVars, elected>>
    /\ HasRoom
    /\ \E free \in SUBSET Peers(n) \ {{}} : Send({Replicate(n, p) : p \in free})
    /\ Persist(n)

\* A node answers a client, and so persists: one that does not lead redirects
\* it, a leader returns a read it has confirmed.
AnswerClient(n) ==
    /\ UNCHANGED <<stateVars, roleVars, network, elected>>
    /\ Persist(n)

IgnoreAppendReply(m) ==
    LET n == m.dst IN
    /\ m.term <= current_term[n]
    /\ role[n] # "leader"
    /\ Discard(m)
    /\ UNCHANGED <<stateVars, roleVars, wal, elected>>

\* handle_append_reply's two outcomes.  A reply of an older term leaves the
\* bookkeeping alone, yet the driver below still acts on it.
MatchAfter_LastSent(n, m) ==
    IF m.term = current_term[n]
    THEN [match_index[n] EXCEPT ![m.src] = Max({@, Len(log[n])})]
    ELSE match_index[n]
MatchAfter(n, m) ==
    IF m.term = current_term[n]
    THEN [match_index[n] EXCEPT ![m.src] = Max({@, m.match_index})]
    ELSE match_index[n]

NextAfterSuccess(n, m) ==
    IF m.term = current_term[n]
    THEN [next_index[n] EXCEPT ![m.src] = MatchAfter(n, m)[m.src] + 1]
    ELSE next_index[n]

NextAfterFailure_NoFloor(n, m) ==
    IF m.term = current_term[n]
    THEN [next_index[n] EXCEPT ![m.src] = @ - 1]
    ELSE next_index[n]
NextAfterFailure(n, m) ==
    IF m.term = current_term[n]
    THEN [next_index[n] EXCEPT ![m.src] = Max({1, @ - 1})]
    ELSE next_index[n]

\* A peer acknowledged: send it the next batch if it is still behind, with the
\* commit index as it was, then see whether the commit index moves.  The new
\* one reaches the WAL only if a client is waiting to be told.
AppendAcknowledged(m) ==
    LET n == m.dst
        commit == AdvanceCommitIndex(n, MatchAfter(n, m))
        behind == NextAfterSuccess(n, m)[m.src] <= Len(log[n])
        waiting == Waiting(n, commit_index[n], commit) # {}
    IN  /\ m.term <= current_term[n]
        /\ role[n] = "leader"
        /\ m.success
        /\ match_index' = [match_index EXCEPT ![n] = MatchAfter(n, m)]
        /\ next_index' = [next_index EXCEPT ![n] = NextAfterSuccess(n, m)]
        /\ commit_index' = [commit_index EXCEPT ![n] = commit]
        /\ UNCHANGED <<current_term, voted_for, log, role, granted, elected>>
        /\ Answer(m, {Replicate(n, p) : p \in {q \in {m.src} : behind}})
        /\ CASE waiting -> Persist(n)
             [] ~ waiting /\ behind ->
                  wal' = [wal EXCEPT ![n] = [term |-> current_term[n],
                                             voted_for |-> voted_for[n],
                                             commit |-> commit_index[n]]]
             [] OTHER -> UNCHANGED wal

\* The logs disagree at prev_log_index: retry at once from further behind.
AppendRefused(m) ==
    LET n == m.dst IN
    /\ m.term <= current_term[n]
    /\ role[n] = "leader"
    /\ ~ m.success
    /\ next_index' = [next_index EXCEPT ![n] = NextAfterFailure(n, m)]
    /\ UNCHANGED <<stateVars, role, granted, match_index, elected>>
    /\ Answer(m, {Replicate(n, m.src)})
    /\ Persist(n)

-----------------------------------------------------------------------------
(***************************************************************************)
(* Failures.                                                               *)
(***************************************************************************)
\* What a process started on n's WAL recovers, given the log and the scalars
\* the WAL holds (_restore): the tally and the leadership are gone, and the
\* commit index is clamped to the log.
Recover_CommittedOnly(n, lg, record) ==
    /\ log' = [log EXCEPT ![n] = SubSeq(lg, 1, Min({record.commit, Len(lg)}))]
    /\ wal' = [wal EXCEPT ![n] = record]
    /\ current_term' = [current_term EXCEPT ![n] = record.term]
    /\ voted_for' = [voted_for EXCEPT ![n] = record.voted_for]
    /\ commit_index' = [commit_index EXCEPT ![n] = Min({record.commit, Len(lg)})]
    /\ BecomeFollower(n)
    /\ UNCHANGED elected
Recover(n, lg, record) ==
    /\ log' = [log EXCEPT ![n] = lg]
    /\ wal' = [wal EXCEPT ![n] = record]
    /\ current_term' = [current_term EXCEPT ![n] = record.term]
    /\ voted_for' = [voted_for EXCEPT ![n] = record.voted_for]
    /\ commit_index' = [commit_index EXCEPT ![n] = Min({record.commit, Len(lg)})]
    /\ BecomeFollower(n)
    /\ UNCHANGED elected

\* The process dies between two handlers and another starts on its WAL.  The
\* time it was down is the time before this step in which n did nothing.
Restart(n) ==
    /\ n \in Crashable
    /\ Recover(n, log[n], wal[n])
    /\ UNCHANGED network

\* The process dies while it merges a request into its log: the WAL has the
\* truncation and the first few entries of the merge, none of the scalars.
TornAppend(m) ==
    LET n == m.dst
        lg == AppendNewEntries(log[n], m.prev_log_index, m.entries)
        kept == KeptLength(log[n], m.prev_log_index, m.entries)
    IN  /\ n \in Crashable
        /\ Accepts(n, m)
        /\ \E written \in kept..Len(lg) :
              LET torn == SubSeq(lg, 1, written) IN
              Recover(n, torn, IF written > kept THEN Journalled(n, torn)
                                                 ELSE wal[n])
        /\ Discard(m)

\* Random loss, a partition, a destination that is down, an inbox that dies
\* with its process.
Lose(m) ==
    /\ Discard(m)
    /\ UNCHANGED <<stateVars, roleVars, wal, elected>>

-----------------------------------------------------------------------------
HandleVoteReply(m) ==
    StepDownOnReply(m) \/ IgnoreVote(m) \/ CountVote(m) \/ WinElection(m)

HandleAppendEntries(m) ==
    RejectStaleAppend(m) \/ RejectMismatch(m) \/ AcceptAppend(m) \/ TornAppend(m)

HandleAppendReply(m) ==
    \/ StepDownOnReply(m) \/ IgnoreAppendReply(m)
    \/ AppendAcknowledged(m) \/ AppendRefused(m)

Next ==
    \/ \E n \in Server : StartElection(n)
    \/ \E m \in Received("request_vote") : HandleRequestVote(m)
    \/ \E m \in Received("request_vote_reply") : HandleVoteReply(m)
    \/ \E m \in Received("append_entries") : HandleAppendEntries(m)
    \/ \E m \in Received("append_entries_reply") : HandleAppendReply(m)
    \/ \E n \in Server, c \in Command : ClientSubmit(n, c)
    \/ \E n \in Server : BroadcastHeartbeat(n)
    \/ \E n \in Server : AnswerClient(n)
    \/ \E n \in Server : Restart(n)
    \/ \E m \in InFlight : Lose(m)

Spec == Init /\ [][Next]_vars
=============================================================================
