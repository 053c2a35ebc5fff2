------------------------------- MODULE CatchUp --------------------------------
(***************************************************************************)
(* Replication once logs have been compacted (raft/log.py's base index,    *)
(* raft/replication.py, RaftNode._replicate_to).  Compaction is on disk;   *)
(* after a restart the entries it covered can no longer be read, neither   *)
(* to send them nor to compare with them.                                  *)
(*                                                                         *)
(* A log is kept whole here, with the base below which the node cannot     *)
(* read.  At most one request to a peer is under way, unless it timed out. *)
(* Messages of one link arrive in order, as they do when they are equally  *)
(* late.  An election is reduced to a majority that moves to a new term.   *)
(***************************************************************************)
EXTENDS Replication

CONSTANTS
    MaxBatch,     \* replication.MAX_BATCH
    MaxTerm,      \* bound on the elections
    MaxWrites,    \* bound on the writes
    MaxRestarts,  \* bound on the restarts
    MaxLost,      \* bound on the messages lost
    MaxOvertakes  \* bound on the requests that time out while they are under way

VARIABLES
    leads,                         \* of every node, with its term, its log and commit,
                                   \* which is also what it applied
    base,                          \* the last entry it cannot read
    snapshot,                      \* the last entry its snapshot on disk covers
    next, match,                   \* what a leader knows of its peers' logs
    awaiting,                      \* the peers it has a request under way to
    net,                           \* of every link, the messages on their way
    writes, restarts, lost, overtakes

logs == <<term, leads, log, commit, base, snapshot>>
leading == <<next, match, awaiting>>
bounds == <<writes, restarts, lost, overtakes>>
vars == <<logs, leading, net, bounds>>

Init ==
    /\ term = [n \in Server |-> 0] /\ leads = [n \in Server |-> FALSE]
    /\ log = [n \in Server |-> <<>>] /\ commit = [n \in Server |-> 0]
    /\ base = [n \in Server |-> 0] /\ snapshot = [n \in Server |-> 0]
    /\ next = [n \in Server |-> [p \in Server |-> 1]]
    /\ match = [n \in Server |-> [p \in Server |-> 0]]
    /\ awaiting = [n \in Server |-> {}]
    /\ net = [link \in Server \X Server |-> <<>>]
    /\ writes = 0 /\ restarts = 0 /\ lost = 0 /\ overtakes = 0

-----------------------------------------------------------------------------
(***************************************************************************)
(* Requests.                                                               *)
(***************************************************************************)
\* Never from below the base.  (Definitions named X_Something are X with a
\* plausible bug, to show that the properties notice; nothing uses them.)
Prev(n, p) ==
    LET prev == Max({next'[n][p] - 1, base[n]}) IN
    IF prev <= Len(log'[n]) THEN prev ELSE Len(log'[n])

\* build_append_entries.
Request(n, p) ==
    LET prev == Prev(n, p) IN
    [type |-> "append", src |-> n, dst |-> p, term |-> term'[n], prev |-> prev,
     prev_term |-> TermAt(log'[n], prev),
     entries |-> Batch(log'[n], prev, MaxBatch), commit |-> commit[n]]

\* The next message of the link is received, one is sent for each peer in S.
Received(link) == [net EXCEPT ![link] = Tail(@)]
Requested(links, n, S) ==
    [link \in DOMAIN links |->
        IF link[1] = n /\ link[2] \in S THEN Append(links[link], Request(n, link[2]))
        ELSE links[link]]

\* _replicate_to, for the peers in S that no request is under way to.
Replicate(n, S, busy, links) ==
    /\ net' = Requested(links, n, S \ busy)
    /\ awaiting' = [awaiting EXCEPT ![n] = busy \cup S]

UnderWay(n, p) ==
    \/ \E i \in DOMAIN net[<<n, p>>] : net[<<n, p>>][i].type = "append"
    \/ \E i \in DOMAIN net[<<p, n>>] : net[<<p, n>>][i].type = "reply"


-----------------------------------------------------------------------------
(***************************************************************************)
(* Elections, writes, the heartbeat and its timeout.                       *)
(***************************************************************************)
Preferred_Always(n, voters) == TRUE
Preferred(n, voters) ==
    \A m \in voters : CandidateIsUpToDate(log[m], LastTerm(log[n]), Len(log[n]))

Elect(n, voters) ==
    LET new == Max({term[m] : m \in voters}) + 1 IN
    /\ n \in voters /\ IsMajority(voters) /\ ~ IsMajority(voters \ {n}) /\ new <= MaxTerm
    /\ Preferred(n, voters)
    /\ term' = [m \in Server |-> IF m \in voters THEN new ELSE term[m]]
    /\ leads' = [m \in Server |-> IF m \in voters THEN m = n ELSE leads[m]]
    /\ log' = [log EXCEPT ![n] = Append(@, [term |-> new, write |-> FALSE])]
    /\ next' = [next EXCEPT ![n] = [p \in Server |-> Len(log[n]) + 1]]
    /\ match' = [match EXCEPT ![n] = [p \in Server |-> 0]]
    /\ UNCHANGED <<commit, base, snapshot, bounds>>
    /\ Replicate(n, Peers(n), {}, net)

Write(n) ==
    /\ leads[n] /\ writes < MaxWrites
    /\ log' = [log EXCEPT ![n] = Append(@, [term |-> term[n], write |-> TRUE])]
    /\ writes' = writes + 1
    /\ UNCHANGED <<term, leads, commit, base, snapshot, next, match, restarts, lost, overtakes>>
    /\ Replicate(n, Peers(n), awaiting[n], net)

\* A request that was lost, or whose reply was, has timed out by the next tick.
TimedOut_Never(n) == {}
TimedOut(n) == {p \in awaiting[n] : ~ UnderWay(n, p)}

Heartbeat(n) ==
    /\ leads[n]
    /\ UNCHANGED <<logs, next, match, bounds>>
    /\ Replicate(n, Peers(n), awaiting[n] \ TimedOut(n), net)

\* A request that is merely slow times out too, and is sent again.
Overtake(n, p) ==
    /\ leads[n] /\ p \in awaiting[n] /\ UnderWay(n, p) /\ overtakes < MaxOvertakes
    /\ overtakes' = overtakes + 1
    /\ UNCHANGED <<logs, leading, writes, restarts, lost>>
    /\ net' = Requested(net, n, {p})

Lose(link) ==
    /\ net[link] # <<>> /\ lost < MaxLost
    /\ lost' = lost + 1 /\ net' = Received(link)
    /\ UNCHANGED <<logs, leading, writes, restarts, overtakes>>

-----------------------------------------------------------------------------
(***************************************************************************)
(* Compaction and restarts.                                                *)
(***************************************************************************)
TakeSnapshot(n) ==
    /\ commit[n] > snapshot[n]
    /\ snapshot' = [snapshot EXCEPT ![n] = commit[n]]
    /\ UNCHANGED <<term, leads, log, commit, base, leading, net, bounds>>

\* What a node had last recorded of its commit index may be behind.  Of each link
\* to it the messages that came before it is back are lost, and the rest arrive.
Left(link) == {SubSeq(net[link], i, Len(net[link])) : i \in 1..(Len(net[link]) + 1)}

Restart(n) ==
    /\ restarts < MaxRestarts
    /\ restarts' = restarts + 1
    /\ leads' = [leads EXCEPT ![n] = FALSE]
    /\ base' = [base EXCEPT ![n] = snapshot[n]]
    /\ \E c \in snapshot[n]..commit[n] : commit' = [commit EXCEPT ![n] = c]
    /\ awaiting' = [awaiting EXCEPT ![n] = {}]
    /\ \E left \in [Server -> UNION {Left(<<p, n>>) : p \in Server}] :
        /\ \A p \in Server : left[p] \in Left(<<p, n>>)
        /\ net' = [link \in DOMAIN net |-> IF link[2] = n THEN left[link[1]] ELSE net[link]]
    /\ UNCHANGED <<term, log, snapshot, next, match, writes, lost, overtakes>>

-----------------------------------------------------------------------------
(***************************************************************************)
(* A follower's answer.                                                    *)
(***************************************************************************)
\* Below the base a log has no term to compare.
Holds(n, i, t) == i >= base[n] /\ HasEntry(log[n], i, t)

Reply(m, success, index) ==
    net' = [Received(<<m.src, m.dst>>) EXCEPT ![<<m.dst, m.src>>] =
               Append(@, [type |-> "reply", src |-> m.dst, dst |-> m.src, term |-> term'[m.dst],
                          success |-> success, match |-> index])]

HandleAppend(m) ==
    LET n == m.dst
        lg == AppendNewEntries(log[n], m.prev, m.entries)
    IN
    /\ m.type = "append"
    /\ \/ /\ m.term < term[n]
          /\ UNCHANGED <<term, leads, log, commit>>
          /\ Reply(m, FALSE, 0)
       \/ /\ m.term >= term[n]
          /\ term' = [term EXCEPT ![n] = m.term]
          /\ leads' = [leads EXCEPT ![n] = FALSE]
          /\ \/ /\ ~ Holds(n, m.prev, m.prev_term)
                /\ UNCHANGED <<log, commit>>
                /\ Reply(m, FALSE, 0)
             \/ /\ Holds(n, m.prev, m.prev_term)
                /\ log' = [log EXCEPT ![n] = lg]
                /\ commit' = [commit EXCEPT ![n] = Max({@, Min({m.commit, Len(lg)})})]
                /\ Reply(m, TRUE, m.prev + Len(m.entries))
    /\ UNCHANGED <<base, snapshot, leading, bounds>>

-----------------------------------------------------------------------------
(***************************************************************************)
(* What a leader makes of a reply: the slot is free, and is taken again at *)
(* once when the peer still misses something.                              *)
(***************************************************************************)
HandleSuccess(m) ==
    LET n == m.dst
        own == m.term = term[n]
        mt == IF own THEN [match[n] EXCEPT ![m.src] = Max({@, m.match})] ELSE match[n]
        nx == IF own THEN [next[n] EXCEPT ![m.src] = mt[m.src] + 1] ELSE next[n]
    IN
    /\ m.success /\ leads[n] /\ m.term <= term[n]
    /\ match' = [match EXCEPT ![n] = mt] /\ next' = [next EXCEPT ![n] = nx]
    /\ commit' = [commit EXCEPT ![n] = CommitIndex(n, mt)]
    /\ UNCHANGED <<term, leads, log, base, snapshot, bounds>>
    /\ Replicate(n, {p \in {m.src} : nx[p] <= Len(log[n])}, awaiting[n] \ {m.src}, Received(<<m.src, n>>))

HandleFailure(m) ==
    LET n == m.dst IN
    /\ ~ m.success /\ leads[n] /\ m.term <= term[n]
    /\ next' = IF m.term = term[n] THEN [next EXCEPT ![n][m.src] = Max({1, @ - 1})] ELSE next
    /\ UNCHANGED <<logs, match, bounds>>
    /\ Replicate(n, {m.src}, awaiting[n] \ {m.src}, Received(<<m.src, n>>))

\* A higher term, or an answer to a leadership that is over.
HandleLateReply(m) ==
    LET n == m.dst IN
    /\ \/ /\ m.term > term[n]
          /\ term' = [term EXCEPT ![n] = m.term] /\ leads' = [leads EXCEPT ![n] = FALSE]
          /\ awaiting' = [awaiting EXCEPT ![n] = {}]
       \/ m.term <= term[n] /\ ~ leads[n] /\ UNCHANGED <<term, leads, awaiting>>
    /\ net' = Received(<<m.src, n>>)
    /\ UNCHANGED <<log, commit, base, snapshot, next, match, bounds>>

HandleReply(m) ==
    m.type = "reply" /\ (HandleSuccess(m) \/ HandleFailure(m) \/ HandleLateReply(m))

Handle(link) == net[link] # <<>> /\ (HandleAppend(Head(net[link])) \/ HandleReply(Head(net[link])))

Next ==
    \/ \E n \in Server :
          \/ Write(n) \/ Heartbeat(n) \/ TakeSnapshot(n) \/ Restart(n)
          \/ \E voters \in SUBSET Server : Elect(n, voters)
          \/ \E p \in Server : Overtake(n, p)
    \/ \E link \in DOMAIN net : Handle(link) \/ Lose(link)

\* The clock passes every heartbeat deadline, and a message that is not lost
\* arrives.
Fairness ==
    /\ \A n \in Server : WF_vars(Heartbeat(n))
    /\ \A n, p \in Server : WF_vars(Handle(<<n, p>>))

Spec == Init /\ [][Next]_vars /\ Fairness

-----------------------------------------------------------------------------
(***************************************************************************)
(* What a cluster relies on.                                               *)
(***************************************************************************)
\* A leader that came back from a compacted log starts from an entry that every
\* follower holds: "which is all of them, since a snapshot only ever covers applied
\* entries".
BaseIsShared ==
    \A n, p \in Server : leads[n] => HasEntry(log[p], base[n], TermAt(log[n], base[n]))

\* Whoever stays the leader brings every node to the end of its log: keeping the
\* log in memory "is what keeps a leader able to repair any follower, however far
\* behind", and after a restart it "can still catch up any follower holding the
\* committed prefix".
CatchesUp ==
    \A n \in Server : \A p \in Peers(n) :
        leads[n] ~> ~ leads[n] \/ match[n][p] = Len(log[n])

\* A follower that has its log whole, and of it as much as the leader itself can
\* no longer read.
Repairable(n, p) == base[p] = 0 /\ HasEntry(log[p], base[n], TermAt(log[n], base[n]))

CaughtUp(n, p) == leads[n] /\ Repairable(n, p) => match[n][p] = Len(log[n])

\* Whoever stays the leader brings such a follower to the end of its log, however
\* far behind it is, and whatever was lost on the way.
CatchesUpWholeLogs ==
    \A n \in Server : \A p \in Peers(n) : leads[n] ~> CaughtUp(n, p)
=============================================================================
