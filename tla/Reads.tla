-------------------------------- MODULE Reads ---------------------------------
(***************************************************************************)
(* Reads without the log (raft/node.py, "linearizable reads"): a leader    *)
(* notes its commit index and the time, sends a round of AppendEntries,    *)
(* and answers from its own store once a majority acknowledged requests    *)
(* that it sent since.                                                     *)
(*                                                                         *)
(* Replication is that of Raft.tla, with the time of a request and its     *)
(* echo.  An election is reduced to what reads depend on: a majority moves *)
(* to a new term at once, and none of it has a better log.  Clients are    *)
(* reduced to the last write that any of them has been told of.         *)
(***************************************************************************)
EXTENDS Replication

CONSTANTS
    MaxBatch,    \* replication.MAX_BATCH
    MaxTerm,     \* bound on the elections
    MaxWrites,   \* bound on the writes
    MaxReads,    \* bound on the reads
    MaxBeats     \* bound on the heartbeats

VARIABLES
    leads,                     \* of every node, with its term, log and commit index
    next, match,               \* what a leader knows of its peers' logs
    acked,                     \* when it sent the latest request each peer acknowledged
    reads,                     \* the reads it holds back: when, from which index; history: what
                               \* clients were told, and the highest term, when it came
    net,                       \* requests and replies on their way
    now,                       \* the clock: it moves before a read arrives
    writes, beats,             \* submitted and sent so far
    told,                      \* history: the last write any client was told of
    answered                   \* history: the reads answered, what they saw and in which term

nodes == <<term, leads, log, commit>>
leading == <<next, match, acked>>
clients == <<writes, beats, told, answered>>
vars == <<nodes, leading, reads, net, now, clients>>

Never == 0

Init ==
    /\ term = [n \in Server |-> 0] /\ leads = [n \in Server |-> FALSE]
    /\ log = [n \in Server |-> <<>>] /\ commit = [n \in Server |-> 0]
    /\ next = [n \in Server |-> [p \in Server |-> 1]]
    /\ match = [n \in Server |-> [p \in Server |-> 0]]
    /\ acked = [n \in Server |-> [p \in Server |-> Never]]
    /\ reads = [n \in Server |-> {}]
    /\ net = {} /\ now = 1
    /\ writes = 0 /\ beats = 0 /\ told = 0 /\ answered = {}

\* build_append_entries, dated.
Request(n, p) ==
    LET prev == Min({next'[n][p] - 1, Len(log'[n])}) IN
    [type |-> "append", src |-> n, dst |-> p, term |-> term'[n], sent |-> now',
     prev |-> prev, prev_term |-> TermAt(log'[n], prev),
     entries |-> Batch(log'[n], prev, MaxBatch), commit |-> commit[n]]

\* The messages of S are sent and those of taken received.  Bound: a link holds
\* one request and one reply, and a new one finds the older lost.  A message may
\* stay there for ever.
Send(S, taken) ==
    net' = S \cup {o \in net \ taken :
                     \A m \in S : <<m.type, m.src, m.dst>> # <<o.type, o.src, o.dst>>}

-----------------------------------------------------------------------------
(***************************************************************************)
(* Elections and writes.                                                   *)
(***************************************************************************)
\* The acknowledgements of an earlier leadership are forgotten, and a no-op of
\* the new term is offered to everybody.
Elect(n, voters) ==
    LET new == Max({term[m] : m \in voters}) + 1 IN
    /\ n \in voters /\ IsMajority(voters) /\ ~ IsMajority(voters \ {n}) /\ new <= MaxTerm
    /\ \A m \in voters : CandidateIsUpToDate(log[m], LastTerm(log[n]), Len(log[n]))
    /\ term' = [m \in Server |-> IF m \in voters THEN new ELSE term[m]]
    /\ leads' = [m \in Server |-> IF m \in voters THEN m = n ELSE leads[m]]
    /\ log' = [log EXCEPT ![n] = Append(@, [term |-> new, write |-> FALSE])]
    /\ next' = [next EXCEPT ![n] = [p \in Server |-> Len(log[n]) + 1]]
    /\ match' = [match EXCEPT ![n] = [p \in Server |-> 0]]
    /\ acked' = [acked EXCEPT ![n] = [p \in Server |-> Never]]
    /\ reads' = [m \in Server |-> IF m \in voters THEN {} ELSE reads[m]]
    /\ UNCHANGED <<commit, now, clients>>
    /\ Send({Request(n, p) : p \in Peers(n)}, {})

Write(n) ==
    /\ leads[n] /\ writes < MaxWrites
    /\ log' = [log EXCEPT ![n] = Append(@, [term |-> term[n], write |-> TRUE])]
    /\ writes' = writes + 1
    /\ UNCHANGED <<term, leads, commit, leading, reads, now, beats, told, answered>>
    /\ Send({Request(n, p) : p \in Peers(n)}, {})

\* The heartbeat deadline passes.
Heartbeat(n) ==
    /\ leads[n] /\ beats < MaxBeats
    /\ beats' = beats + 1
    /\ UNCHANGED <<nodes, leading, reads, now, writes, told, answered>>
    /\ Send({Request(n, p) : p \in Peers(n)}, {})

\* _handle_read.  A read comes after what was sent before it: the clock is finer
\* than that.
Read(n) ==
    /\ leads[n] /\ now <= MaxReads
    /\ now' = now + 1
    /\ reads' = [reads EXCEPT ![n] = @ \cup {[at |-> now + 1, index |-> commit[n], floor |-> told,
                                             reign |-> Max({term[m] : m \in Server})]}]
    /\ UNCHANGED <<nodes, leading, clients>>
    /\ Send({Request(n, p) : p \in Peers(n)}, {})

-----------------------------------------------------------------------------
(***************************************************************************)
(* A follower's answer.                                                    *)
(***************************************************************************)
Reply(m, success, index) ==
    Send({[type |-> "reply", src |-> m.dst, dst |-> m.src, term |-> term'[m.dst],
           success |-> success, match |-> index, sent |-> m.sent]}, {m})

Follow(n, t) ==
    /\ term' = [term EXCEPT ![n] = t]
    /\ leads' = [leads EXCEPT ![n] = FALSE]
    /\ reads' = [reads EXCEPT ![n] = {}]

HandleAppend(m) ==
    LET n == m.dst
        lg == AppendNewEntries(log[n], m.prev, m.entries)
    IN
    /\ m.type = "append"
    /\ \/ /\ m.term < term[n]
          /\ UNCHANGED <<nodes, reads>>
          /\ Reply(m, FALSE, 0)
       \/ /\ m.term >= term[n]
          /\ Follow(n, m.term)
          /\ \/ /\ ~ HasEntry(log[n], m.prev, m.prev_term)
                /\ UNCHANGED <<log, commit>>
                /\ Reply(m, FALSE, 0)
             \/ /\ HasEntry(log[n], m.prev, m.prev_term)
                /\ log' = [log EXCEPT ![n] = lg]
                /\ commit' = [commit EXCEPT ![n] = Max({@, Min({m.commit, Len(lg)})})]
                /\ Reply(m, TRUE, m.prev + Len(m.entries))
    /\ UNCHANGED <<leading, now, clients>>

-----------------------------------------------------------------------------
(***************************************************************************)
(* What a leader makes of a reply.                                         *)
(***************************************************************************)
\* The acknowledgement is dated by the request it answers.  (Definitions named
\* X_Something are X with a plausible bug, to show that the properties notice;
\* nothing uses them.)
AckedAt_OnArrival(n, m) == [acked[n] EXCEPT ![m.src] = now]
AckedAt(n, m) == [acked[n] EXCEPT ![m.src] = Max({@, m.sent})]

Confirmed(n, acks, instant) == IsMajority({n} \cup {p \in Peers(n) : acks[p] >= instant})

\* What the store holds once the log is applied up to i: its last write.
LastWrite(lg, i) == Max({0} \cup {j \in 1..i : lg[j].write})

\* _apply_committed and _try_serve_reads, which every handler ends with.
ApplyAndServe(n, index, acks) ==
    LET ready == {r \in reads[n] : Confirmed(n, acks, r.at) /\ index >= r.index}
        written == {i \in commit[n] + 1..index : log[n][i].write /\ log[n][i].term = term[n]}
        seen == LastWrite(log[n], index)
    IN
    /\ commit' = [commit EXCEPT ![n] = index]
    /\ reads' = [reads EXCEPT ![n] = @ \ ready]
    /\ answered' = answered \cup 
                     {[floor |-> r.floor, seen |-> seen, reign |-> r.reign, of |-> term[n]]
                         : r \in ready}
    /\ told' = Max({told} \cup {i \in 1..seen : written # {} \/ ready # {}})

HandleSuccess(m) ==
    LET n == m.dst
        own == m.term = term[n]
        mt == IF own THEN [match[n] EXCEPT ![m.src] = Max({@, m.match})] ELSE match[n]
        nx == IF own THEN [next[n] EXCEPT ![m.src] = mt[m.src] + 1] ELSE next[n]
    IN
    /\ m.success /\ leads[n] /\ m.term <= term[n]
    /\ match' = [match EXCEPT ![n] = mt] /\ next' = [next EXCEPT ![n] = nx]
    /\ acked' = [acked EXCEPT ![n] = AckedAt(n, m)]
    /\ ApplyAndServe(n, CommitIndex(n, mt), AckedAt(n, m))
    /\ UNCHANGED <<term, leads, log, now, writes, beats>>
    /\ Send({Request(n, p) : p \in {q \in {m.src} : nx[q] <= Len(log[n])}}, {m})

HandleFailure(m) ==
    LET n == m.dst IN
    /\ ~ m.success /\ leads[n] /\ m.term <= term[n]
    /\ next' = IF m.term = term[n] THEN [next EXCEPT ![n][m.src] = Max({1, @ - 1})] ELSE next
    /\ UNCHANGED <<nodes, match, acked, reads, now, clients>>
    /\ Send({Request(n, m.src)}, {m})

\* A higher term, or an answer to a leadership that is over.
HandleLateReply(m) ==
    LET n == m.dst IN
    /\ \/ m.term > term[n] /\ Follow(n, m.term)
       \/ m.term <= term[n] /\ ~ leads[n] /\ UNCHANGED <<term, leads, reads>>
    /\ Send({}, {m})
    /\ UNCHANGED <<log, commit, leading, now, clients>>

HandleReply(m) ==
    m.type = "reply" /\ (HandleSuccess(m) \/ HandleFailure(m) \/ HandleLateReply(m))

Next ==
    \/ \E n \in Server : \/ Write(n) \/ Heartbeat(n) \/ Read(n)
                         \/ \E voters \in SUBSET Server : Elect(n, voters)
    \/ \E m \in net : HandleAppend(m) \/ HandleReply(m)

Spec == Init /\ [][Next]_vars

-----------------------------------------------------------------------------
(***************************************************************************)
(* What a reader relies on.                                                *)
(***************************************************************************)
\* A read sees every write that any client was told of, and whatever any client
\* has read, before the read was asked for.  (_win_election's no-op "is what lets
\* commit_index (and so read_index) catch up to the true committed state after a
\* failover".)
ReadsAreFresh == \A a \in answered : a.seen >= a.floor

\* "A majority of those means no challenger can already have been elected": when
\* the read arrived, nobody had been elected after the leader that answers it.
NoChallenger == \A a \in answered : a.of >= a.reign

\* A leader that answers was still the leader when it was asked, and has applied
\* what had been promised by then.
ReadIndexHolds == ReadsAreFresh /\ NoChallenger
=============================================================================
