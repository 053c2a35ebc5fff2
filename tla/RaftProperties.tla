--------------------------- MODULE RaftProperties ---------------------------
(***************************************************************************)
(* What the consensus core must guarantee.                                 *)
(***************************************************************************)
EXTENDS Raft

WalRecord == [term : Nat, voted_for : Server \cup {Nil}, commit : Nat]

\* Refusals may arrive late and more than once, yet a leader never walks back
\* below the first entry.
NextIndexPositive ==
    \A n, p \in Server : role[n] = "leader" => next_index[n][p] > 0

\* The type of every variable: Figure 2's fields, the tally, the leader's
\* bookkeeping, the WAL's scalars and the envelopes in flight.
TypeOK ==
    /\ current_term \in [Server -> Nat]
    /\ voted_for \in [Server -> Server \cup {Nil}]
    /\ log \in [Server -> Seq(Entry)]
    /\ commit_index \in [Server -> Nat]
    /\ role \in [Server -> {"follower", "candidate", "leader"}]
    /\ granted \in [Server -> SUBSET Server]
    /\ next_index \in [Server -> [Server -> Nat]] /\ NextIndexPositive
    /\ match_index \in [Server -> [Server -> Nat]]
    /\ wal \in [Server -> WalRecord]
    /\ IsABag(network) /\ InFlight \subseteq Message
    /\ elected \subseteq [term : Nat, leader : Server, voters : SUBSET Server]

-----------------------------------------------------------------------------
\* Every vote somebody has been told of: granted in a reply that is still in
\* flight, counted by a candidate, or one that made a leader.
Promise(v, term, c) == [voter |-> v, term |-> term, candidate |-> c]

Told ==
    {Promise(m.src, m.term, m.dst) :
        m \in {r \in Received("request_vote_reply") : r.vote_granted}}
Counted ==
    UNION {{Promise(v, current_term[c], c) : v \in granted[c]} : c \in Server}
Decisive ==
    UNION {{Promise(v, e.term, e.leader) : v \in e.voters} : e \in elected}

Promises == Told \cup Counted \cup Decisive

\* Its voter's WAL still binds it: a later term, or that very vote.
OnDisk(p) ==
    \/ wal[p.voter].term > p.term
    \/ wal[p.voter].term = p.term /\ wal[p.voter].voted_for = p.candidate

\* Durability before disclosure: a vote anybody has been told of is in its
\* voter's WAL, so a crash cannot make it forgotten (node.py _send persists
\* before it sends).
VotesDurable == \A p \in Promises : OnDisk(p)

\* A server votes once per term, whatever it forgot in a crash in between.
OneVotePerTerm ==
    \A p, q \in Promises :
        p.voter = q.voter /\ p.term = q.term => p.candidate = q.candidate

\* At most one server ever wins an election of a given term: a node that
\* campaigned or voted in a term comes back from its WAL still bound by it
\* (node.py _restore, obligation 1).
ElectionSafety ==
    \A e, f \in elected : e.term = f.term => e.leader = f.leader

\* Two logs that hold an entry of the same term at the same index are the same
\* up to it: what the consistency check of handle_append_entries is for, with
\* the merge of append_new_entries and the torn writes of a crash under it.
LogMatching ==
    \A n, p \in Server :
        \A i \in 1..Min({Len(log[n]), Len(log[p])}) :
            log[n][i].term = log[p][i].term =>
                SubSeq(log[n], 1, i) = SubSeq(log[p], 1, i)

\* A leader holds everything any node of its term or an older one has
\* committed: what the up-to-date check of handle_request_vote and the
\* current-term rule of advance_commit_index are for.
LeaderCompleteness ==
    \A l, n \in Server :
        role[l] = "leader" /\ current_term[n] <= current_term[l] =>
            /\ commit_index[n] <= Len(log[l])
            /\ SubSeq(log[n], 1, commit_index[n]) = SubSeq(log[l], 1, commit_index[n])

\* No two nodes apply different commands at one index (the store is fed every
\* entry up to commit_index at the end of each handler).
StateMachineSafety ==
    \A n, p \in Server :
        LET both == Min({commit_index[n], commit_index[p]}) IN
        SubSeq(log[n], 1, both) = SubSeq(log[p], 1, both)

\* match_index is what the peer has stored, not what was sent to it: as long as
\* the peer has not moved on to a later term, its log agrees with the leader's
\* that far.  With five servers a crash can break it: truncate_from is journalled
\* before the term of the leader that asked for it (log.py:165), so that the peer
\* may come back in the older term without what it acknowledged there.
MatchIndexIsStored ==
    \A l, p \in Server :
        role[l] = "leader" /\ current_term[p] <= current_term[l] =>
            /\ match_index[l][p] <= Len(log[p])
            /\ SubSeq(log[p], 1, match_index[l][p])
                 = SubSeq(log[l], 1, match_index[l][p])

\* No step takes back a committed entry, not a merge, not a crash in the middle
\* of one: RaftLog.truncate_from itself would let it.
KeepsCommitted ==
    \A n \in Server :
        /\ commit_index[n] <= Len(log'[n])
        /\ SubSeq(log'[n], 1, commit_index[n]) = SubSeq(log[n], 1, commit_index[n])
CommittedNeverTruncated == [][KeepsCommitted]_vars

\* The servers that would vote for p, by what the logs hold.
Persuadable(p) ==
    {v \in Server : CandidateIsUpToDate(log[v], LastTerm(log[p]), Len(log[p]))}

\* What a leader commits by counting replies is out of danger at that very
\* step: every server that a majority could still elect holds it.  An entry of
\* an older term may sit on a majority and not be (advance_commit_index).
CountedIsDecided ==
    [][\A n, p \in Server :
          /\ role[n] = "leader" /\ role'[n] = "leader"
          /\ commit_index'[n] > commit_index[n]
          /\ IsMajority(Persuadable(p))
          => /\ commit_index'[n] <= Len(log[p])
             /\ SubSeq(log[p], 1, commit_index'[n])
                  = SubSeq(log[n], 1, commit_index'[n])]_vars

\* The WAL can always be read back: the term and the commit index never go
\* backward between records and no commit index passes the end of the log, so
\* recovery neither refuses the file nor clamps what it recovers
\* (persistence.py _fold, node.py _restore).
WalReadable ==
    \A n \in Server :
        /\ wal'[n].term >= wal[n].term
        /\ wal'[n].commit >= wal[n].commit
        /\ wal'[n].commit <= Len(log'[n])
=============================================================================
