----------------------------- MODULE RaftProofs -----------------------------
(***************************************************************************)
(* The types, one leader per term, and logs that match, in every cluster,  *)
(* whatever its size, its batches, the crashes and the bounds.             *)
(***************************************************************************)
EXTENDS RaftProperties, RaftLogProofs

-----------------------------------------------------------------------------
(***************************************************************************)
(* The network only ever gains what a handler sends.                       *)
(***************************************************************************)
LEMMA SendEffect ==
  ASSUME NEW S, IsABag(network), Send(S)
  PROVE  IsABag(network') /\ InFlight' = InFlight \cup S
BY DEF IsABag, Send, InFlight, BagToSet, SetToBag, (+)

\* A received or lost envelope leaves; nothing enters.
LEMMA DiscardEffect ==
  ASSUME NEW m, IsABag(network), Discard(m)
  PROVE  IsABag(network') /\ InFlight' \subseteq InFlight
BY DEF IsABag, Discard, InFlight, BagToSet, SetToBag, (-)

\* A handler consumes one envelope and sends others.
LEMMA AnswerEffect ==
  ASSUME NEW m, NEW S, IsABag(network), Answer(m, S)
  PROVE  IsABag(network') /\ InFlight' \subseteq InFlight \cup S
<1> DEFINE rest == network (-) SetToBag({m})
<1>1. IsABag(rest) /\ BagToSet(rest) \subseteq InFlight
  BY DEF IsABag, InFlight, BagToSet, SetToBag, (-)
<1>2. network' = rest (+) SetToBag(S)
  BY DEF Answer
<1> HIDE DEF rest
<1>3. IsABag(network') /\ BagToSet(network') = BagToSet(rest) \cup S
  BY <1>1, <1>2 DEF IsABag, BagToSet, SetToBag, (+)
<1> QED BY <1>1, <1>3 DEF InFlight

-----------------------------------------------------------------------------
(***************************************************************************)
(* Types of the pieces.                                                    *)
(***************************************************************************)
Log == Seq(Entry)

\* The sentinel's term is 0 and an entry has its own.
LEMMA TermAtType ==
  ASSUME NEW lg \in Log, NEW i \in 0..Len(lg)
  PROVE  TermAt(lg, i) \in Nat
<1>1. CASE i = 0
  BY <1>1 DEF TermAt
<1>2. CASE i # 0
  <2>1. lg[i] \in Entry
    BY <1>2 DEF Log
  <2> QED BY <1>2, <2>1 DEF TermAt, Entry
<1> QED BY <1>1, <1>2

\* The same of the last entry.
LEMMA LastTermType ==
  ASSUME NEW lg \in Log
  PROVE  LastTerm(lg) \in Nat
BY TermAtType, LenProperties DEF LastTerm, Log

\* A request built from a positive next_index is well formed: it starts inside
\* the log.
LEMMA BuildAppendEntriesType ==
  ASSUME NEW n \in Server, NEW p \in Server, NEW term \in Nat, NEW lg \in Log,
         NEW next \in Nat \ {0}, NEW commit \in Nat
  PROVE  BuildAppendEntries(n, p, term, lg, next, commit) \in Message
<1> DEFINE start == Max({next - 1, 0})
           prev == Min({start, Len(lg)})
<1>1. Len(lg) \in Nat
  BY LenProperties DEF Log
<1>2. prev \in 0..Len(lg)
  <2>1. start \in Nat
    BY MaxOfTwo, next - 1 \in Nat
  <2> HIDE DEF start
  <2> QED BY <1>1, <2>1, MinOfTwo
<1>3. TermAt(lg, prev) \in Nat /\ Batch(lg, prev, MaxBatch) \in Seq(Entry)
  BY <1>2, TermAtType, BatchType, BatchAssumption DEF Log
<1> HIDE DEF prev
<1> QED BY <1>1, <1>2, <1>3 DEF BuildAppendEntries, Message, prev

-----------------------------------------------------------------------------
(***************************************************************************)
(* Type correctness.  The term a leader appends in must be above zero, or  *)
(* its entries would pass for the sentinel.                                *)
(***************************************************************************)
TermPositive ==
    \A n \in Server : role[n] # "follower" => current_term[n] > 0

\* The invariant.
TypeInv == TypeOK /\ TermPositive

\* What the types say of the part of the state the handlers assign through
\* BecomeFollower.
RoleTypeOK ==
    /\ role \in [Server -> {"follower", "candidate", "leader"}]
    /\ granted \in [Server -> SUBSET Server]
    /\ next_index \in [Server -> [Server -> Nat]]
    /\ match_index \in [Server -> [Server -> Nat]]
    /\ NextIndexPositive

\* Stepping down keeps the types of role, tally and bookkeeping.
LEMMA BecomeFollowerType ==
  ASSUME RoleTypeOK, NEW n \in Server, BecomeFollower(n)
  PROVE  RoleTypeOK'
BY DEF RoleTypeOK, BecomeFollower, NextIndexPositive

\* _persist writes what the node knows.
LEMMA PersistType ==
  ASSUME wal \in [Server -> WalRecord], NEW n \in Server, Persist(n),
         current_term'[n] \in Nat, voted_for'[n] \in Server \cup {Nil},
         commit_index'[n] \in Nat
  PROVE  wal' \in [Server -> WalRecord]
BY DEF Persist, WalRecord

\* A cluster that starts empty is well typed.
LEMMA InitType == Init => TypeInv
BY DEF Init, TypeInv, TypeOK, NextIndexPositive, TermPositive, WalRecord, EmptyBag, SetToBag,
       IsABag, InFlight, BagToSet

\* StartElection keeps the types.
LEMMA StartElectionType ==
  ASSUME TypeInv, NEW n \in Server, StartElection(n)
  PROVE  TypeInv'
<1> DEFINE S == {RequestVote(n, p, current_term[n] + 1,
                             Len(log[n]), LastTerm(log[n])) : p \in Peers(n)}
<1> USE DEF TypeInv, TypeOK
<1>1. Len(log[n]) \in Nat /\ LastTerm(log[n]) \in Nat
  BY LastTermType, LenProperties DEF Log
<1>2. S \subseteq Message
  BY SMTT(30), <1>1 DEF RequestVote, Message, Peers
<1>3. IsABag(network') /\ InFlight' \subseteq Message
  BY <1>2, SendEffect DEF StartElection
<1>4. /\ current_term' \in [Server -> Nat]
      /\ voted_for' \in [Server -> Server \cup {Nil}]
      /\ commit_index' \in [Server -> Nat] /\ log' \in [Server -> Seq(Entry)]
  BY DEF StartElection
<1>5. wal' \in [Server -> WalRecord]
  BY <1>4, PersistType DEF StartElection
<1>6. /\ role' \in [Server -> {"follower", "candidate", "leader"}]
      /\ granted' \in [Server -> SUBSET Server]
      /\ UNCHANGED <<next_index, match_index, elected>>
  BY DEF StartElection
<1>7. NextIndexPositive' /\ TermPositive'
  BY <1>6 DEF StartElection, NextIndexPositive, TermPositive
<1> QED BY <1>3, <1>4, <1>5, <1>6, <1>7

\* The fields a handler reads off the envelope it is given.
LEMMA ReceivedFields ==
  ASSUME InFlight \subseteq Message
  PROVE  /\ \A m \in InFlight : m.src \in Server /\ m.dst \in Server /\ m.term \in Nat
         /\ \A m \in Received("request_vote_reply") : m.vote_granted \in BOOLEAN
         /\ \A m \in Received("append_entries") :
               /\ m.prev_log_index \in Nat
               /\ m.entries \in Seq(Entry)
               /\ m.leader_commit \in Nat
         /\ \A m \in Received("append_entries_reply") :
               m.success \in BOOLEAN /\ m.match_index \in Nat
BY DEF Received, Message

\* HandleRequestVote keeps the types.
LEMMA HandleRequestVoteType ==
  ASSUME TypeInv, NEW m \in Received("request_vote"), HandleRequestVote(m)
  PROVE  TypeInv'
<1> DEFINE n == m.dst
           S == {RequestVoteReply(n, m.src, current_term'[n], GrantsVote(n, m))}
<1> USE DEF TypeInv, TypeOK
<1>1. n \in Server /\ m.src \in Server /\ m.term \in Nat
  BY ReceivedFields DEF Received
<1>2. /\ current_term' \in [Server -> Nat]
      /\ UNCHANGED <<log, commit_index, elected>>
  BY <1>1 DEF HandleRequestVote, roleVars
<1>3. voted_for' \in [Server -> Server \cup {Nil}]
  BY <1>1 DEF HandleRequestVote, VoteIn
<1>4. RoleTypeOK' /\ TermPositive'
  <2>1. RoleTypeOK
    BY DEF RoleTypeOK
  <2>2. CASE m.term > current_term[n]
    <3>1. BecomeFollower(n) /\ current_term' = [current_term EXCEPT ![n] = m.term]
      BY <2>2 DEF HandleRequestVote
    <3>2. RoleTypeOK'
      BY <1>1, <2>1, <3>1, BecomeFollowerType
    <3>3. TermPositive'
      BY <1>1, <3>1 DEF BecomeFollower, TermPositive
    <3> QED BY <3>2, <3>3
  <2>3. CASE ~ (m.term > current_term[n])
    BY <2>1, <2>3
    DEF HandleRequestVote, roleVars, RoleTypeOK, NextIndexPositive, TermPositive
  <2> QED BY <2>2, <2>3
<1>5. S \subseteq Message
  BY <1>1, <1>2 DEF RequestVoteReply, Message, GrantsVote
<1>6. IsABag(network') /\ InFlight' \subseteq Message
  BY <1>5, AnswerEffect DEF HandleRequestVote
<1>7. wal' \in [Server -> WalRecord]
  BY <1>1, <1>2, <1>3, PersistType DEF HandleRequestVote
<1> QED BY <1>2, <1>3, <1>4, <1>6, <1>7 DEF RoleTypeOK

\* StepDownOnReply keeps the types.
LEMMA StepDownOnReplyType ==
  ASSUME TypeInv, NEW m \in InFlight, StepDownOnReply(m)
  PROVE  TypeInv'
<1> USE DEF TypeInv, TypeOK
<1>1. m.dst \in Server /\ m.term \in Nat
  BY ReceivedFields
<1>2. RoleTypeOK'
  BY <1>1, BecomeFollowerType DEF StepDownOnReply, RoleTypeOK
<1>3. IsABag(network') /\ InFlight' \subseteq Message
  BY DiscardEffect DEF StepDownOnReply
<1>4. TermPositive'
  BY <1>1 DEF StepDownOnReply, BecomeFollower, TermPositive
<1> QED BY <1>1, <1>2, <1>3, <1>4 DEF StepDownOnReply, RoleTypeOK

\* A handler that only consumes its envelope, and a loss.
LEMMA DiscardOnlyType ==
  ASSUME TypeInv, NEW m, Discard(m), UNCHANGED <<stateVars, roleVars, wal, elected>>
  PROVE  TypeInv'
<1> USE DEF TypeInv, TypeOK
<1>1. IsABag(network') /\ InFlight' \subseteq Message
  BY DiscardEffect
<1> QED BY <1>1 DEF stateVars, roleVars, NextIndexPositive, TermPositive

\* CountVote keeps the types.
LEMMA CountVoteType ==
  ASSUME TypeInv, NEW m \in Received("request_vote_reply"), CountVote(m)
  PROVE  TypeInv'
<1> USE DEF TypeInv, TypeOK
<1>1. m.dst \in Server /\ m.src \in Server
  BY ReceivedFields DEF Received
<1>2. Tally(m.dst, m) \in SUBSET Server
  BY <1>1 DEF Tally
<1>3. IsABag(network') /\ InFlight' \subseteq Message
  BY DiscardEffect DEF CountVote
<1> QED BY <1>1, <1>2, <1>3 DEF CountVote, stateVars, NextIndexPositive, TermPositive

\* WinElection keeps the types.
LEMMA WinElectionType ==
  ASSUME TypeInv, NEW m \in Received("request_vote_reply"), WinElection(m)
  PROVE  TypeInv'
<1> DEFINE n == m.dst
           next == Len(log[n]) + 1
           lg == Append(log[n], [term |-> current_term[n], command |-> NoOp])
           S == {BuildAppendEntries(n, p, current_term[n], lg, next,
                                    commit_index[n]) : p \in Peers(n)}
<1> USE DEF TypeInv, TypeOK
<1>1. n \in Server /\ m.src \in Server
  BY ReceivedFields DEF Received
<1>2. next \in Nat \ {0}
  BY <1>1, LenProperties
<1>3. [term |-> current_term[n], command |-> NoOp] \in Entry
  <2>1. role[n] = "candidate"
    BY DEF WinElection
  <2>2. current_term[n] > 0
    BY <1>1, <2>1 DEF TermPositive
  <2> QED BY <1>1, <2>2 DEF Entry
<1>4. lg \in Log
  BY <1>1, <1>3 DEF Log
<1>5. S \subseteq Message
  <2> SUFFICES ASSUME NEW p \in Peers(n)
               PROVE  BuildAppendEntries(n, p, current_term[n], lg, next,
                                         commit_index[n]) \in Message
    OBVIOUS
  <2> HIDE DEF lg, next
  <2> QED BY <1>1, <1>2, <1>4, BuildAppendEntriesType DEF Peers
<1>6. IsABag(network') /\ InFlight' \subseteq Message
  BY <1>5, AnswerEffect DEF WinElection
<1>7. /\ UNCHANGED <<current_term, voted_for, commit_index>>
      /\ log' \in [Server -> Seq(Entry)]
  BY <1>4 DEF WinElection, Log
<1>8. wal' \in [Server -> WalRecord]
  BY <1>1, <1>7, PersistType DEF WinElection
<1>9. /\ role' \in [Server -> {"follower", "candidate", "leader"}]
      /\ granted' \in [Server -> SUBSET Server]
      /\ next_index' \in [Server -> [Server -> Nat]]
      /\ match_index' \in [Server -> [Server -> Nat]]
      /\ NextIndexPositive' /\ TermPositive'
  <2>1. /\ role[n] = "candidate"
        /\ role' = [role EXCEPT ![n] = "leader"]
        /\ granted' = [granted EXCEPT ![n] = {}]
        /\ next_index' = [next_index EXCEPT ![n] = [p \in Server |-> next]]
        /\ match_index' = [match_index EXCEPT ![n] = [p \in Server |-> 0]]
    BY DEF WinElection
  <2> HIDE DEF next
  <2>2. /\ role' \in [Server -> {"follower", "candidate", "leader"}]
        /\ granted' \in [Server -> SUBSET Server]
        /\ match_index' \in [Server -> [Server -> Nat]]
    BY <1>1, <2>1
  <2>3. next_index' \in [Server -> [Server -> Nat]]
    BY <1>1, <1>2, <2>1
  <2>4. NextIndexPositive'
    BY <1>1, <1>2, <2>1 DEF NextIndexPositive
  <2>5. TermPositive'
    BY <1>1, <1>7, <2>1 DEF TermPositive
  <2> QED BY <2>2, <2>3, <2>4, <2>5
<1>10. elected' \subseteq [term : Nat, leader : Server, voters : SUBSET Server]
  BY SMTT(30), <1>1 DEF WinElection, Tally
<1> QED BY <1>6, <1>7, <1>8, <1>9, <1>10

-----------------------------------------------------------------------------

\* The follower's half of an append: the term, the vote and the role.
LEMMA FollowLeaderType ==
  ASSUME TypeInv, NEW n \in Server, NEW m, m.term \in Nat, FollowLeader(n, m)
  PROVE  /\ current_term' \in [Server -> Nat]
         /\ voted_for' \in [Server -> Server \cup {Nil}]
         /\ RoleTypeOK' /\ TermPositive'
<1> USE DEF TypeInv, TypeOK
<1>1. /\ current_term' = [current_term EXCEPT ![n] = m.term]
      /\ voted_for' = [voted_for EXCEPT ![n] = VoteIn(n, m.term)]
      /\ BecomeFollower(n)
  BY DEF FollowLeader
<1>2. RoleTypeOK'
  BY <1>1, BecomeFollowerType DEF RoleTypeOK
<1>3. VoteIn(n, m.term) \in Server \cup {Nil}
  BY DEF VoteIn
<1>4. TermPositive'
  BY <1>1 DEF BecomeFollower, TermPositive
<1> QED BY <1>1, <1>2, <1>3, <1>4

\* RejectStaleAppend keeps the types.
LEMMA RejectStaleAppendType ==
  ASSUME TypeInv, NEW m \in Received("append_entries"), RejectStaleAppend(m)
  PROVE  TypeInv'
<1> DEFINE S == {AppendEntriesReply(m.dst, m.src, current_term[m.dst], FALSE, 0)}
<1> USE DEF TypeInv, TypeOK
<1>1. m.dst \in Server /\ m.src \in Server
  BY ReceivedFields DEF Received
<1>2. S \subseteq Message
  BY <1>1 DEF AppendEntriesReply, Message
<1>3. IsABag(network') /\ InFlight' \subseteq Message
  <2>1. Answer(m, S)
    BY DEF RejectStaleAppend
  <2> HIDE DEF S
  <2> QED BY <1>2, <2>1, AnswerEffect
<1>4. UNCHANGED <<stateVars, roleVars, elected>>
  BY DEF RejectStaleAppend
<1>5. wal' \in [Server -> WalRecord]
  BY <1>1, <1>4, PersistType DEF RejectStaleAppend, stateVars
<1> QED BY <1>3, <1>4, <1>5 DEF stateVars, roleVars, NextIndexPositive, TermPositive

\* RejectMismatch keeps the types.
LEMMA RejectMismatchType ==
  ASSUME TypeInv, NEW m \in Received("append_entries"), RejectMismatch(m)
  PROVE  TypeInv'
<1> DEFINE S == {AppendEntriesReply(m.dst, m.src, m.term, FALSE, 0)}
<1> USE DEF TypeInv, TypeOK
<1>1. m.dst \in Server /\ m.src \in Server /\ m.term \in Nat
  BY ReceivedFields DEF Received
<1>2. S \subseteq Message
  BY <1>1 DEF AppendEntriesReply, Message
<1>3. IsABag(network') /\ InFlight' \subseteq Message
  <2>1. Answer(m, S)
    BY DEF RejectMismatch
  <2> HIDE DEF S
  <2> QED BY <1>2, <2>1, AnswerEffect
<1>4. /\ current_term' \in [Server -> Nat]
      /\ voted_for' \in [Server -> Server \cup {Nil}]
      /\ RoleTypeOK' /\ TermPositive'
  BY <1>1, FollowLeaderType DEF RejectMismatch
<1>5. UNCHANGED <<log, commit_index, elected>>
  BY DEF RejectMismatch
<1>6. wal' \in [Server -> WalRecord]
  BY <1>1, <1>4, <1>5, PersistType DEF RejectMismatch
<1> QED BY <1>3, <1>4, <1>5, <1>6 DEF RoleTypeOK

\* A request that passes the consistency check starts inside the log, so the
\* merge is a log and keeps part of the old one.
LEMMA AcceptedMerge ==
  ASSUME TypeInv, NEW m \in Received("append_entries"), Accepts(m.dst, m)
  PROVE  LET lg == AppendNewEntries(log[m.dst], m.prev_log_index, m.entries)
             kept == KeptLength(log[m.dst], m.prev_log_index, m.entries)
         IN  lg \in Log /\ kept \in Nat /\ kept <= Len(lg)
<1> USE DEF TypeInv, TypeOK
<1>1. m.dst \in Server /\ m.entries \in Seq(Entry)
  BY ReceivedFields DEF Received
<1>2. m.prev_log_index \in 0..Len(log[m.dst])
  BY DEF Accepts, HasEntry
<1>3. log[m.dst] \in Seq(Entry)
  BY <1>1
<1>4. /\ AppendNewEntries(log[m.dst], m.prev_log_index, m.entries) \in Seq(Entry)
      /\ KeptLength(log[m.dst], m.prev_log_index, m.entries)
           <= Len(AppendNewEntries(log[m.dst], m.prev_log_index, m.entries))
  BY <1>1, <1>2, <1>3, MergeProperties, Zenon
<1>5. KeptLength(log[m.dst], m.prev_log_index, m.entries)
        \in m.prev_log_index..Len(log[m.dst])
  BY <1>1, <1>2, <1>3, KeptLengthBounds, Zenon
<1>6. KeptLength(log[m.dst], m.prev_log_index, m.entries) \in Nat
  BY <1>2, <1>5
<1> QED BY <1>4, <1>6, Zenon DEF Log

\* AcceptAppend keeps the types.
LEMMA AcceptAppendType ==
  ASSUME TypeInv, NEW m \in Received("append_entries"), AcceptAppend(m)
  PROVE  TypeInv'
<1> DEFINE n == m.dst
           lg == AppendNewEntries(log[n], m.prev_log_index, m.entries)
           S == {AppendEntriesReply(n, m.src, m.term, TRUE, AckedIndex(m, lg))}
<1> USE DEF TypeInv, TypeOK
<1>1. /\ n \in Server /\ m.src \in Server /\ m.term \in Nat
      /\ m.prev_log_index \in Nat /\ m.entries \in Seq(Entry)
      /\ m.leader_commit \in Nat
  BY ReceivedFields DEF Received
<1>2. lg \in Log
  BY AcceptedMerge DEF AcceptAppend
<1>3. Len(lg) \in Nat
  BY <1>2, LenProperties DEF Log
<1> HIDE DEF lg, S
<1>4. AckedIndex(m, lg) \in Nat
  <2>1. Len(m.entries) \in Nat
    BY <1>1, LenProperties
  <2>2. m.prev_log_index \in Nat
    BY <1>1
  <2>3. m.prev_log_index + Len(m.entries) \in Nat
    BY <2>1, <2>2
  <2> QED BY <2>3 DEF AckedIndex
<1>5. CommitAfterAppend(n, m, lg) \in Nat
  <2> DEFINE reach == Min({m.leader_commit, Len(lg)})
  <2>1. reach \in Nat
    BY <1>1, <1>3, MinOfTwo
  <2>2. commit_index[n] \in Nat
    BY <1>1
  <2> HIDE DEF reach
  <2>3. Max({commit_index[n], reach}) \in Nat
    BY <2>1, <2>2, MaxOfTwo
  <2> QED BY <2>3 DEF CommitAfterAppend, reach
<1>6. S \subseteq Message
  BY <1>1, <1>4 DEF AppendEntriesReply, Message, S
<1>7. IsABag(network') /\ InFlight' \subseteq Message
  <2>1. Answer(m, S)
    BY DEF AcceptAppend, lg, S
  <2> QED BY <1>6, <2>1, AnswerEffect
<1>8. /\ current_term' \in [Server -> Nat]
      /\ voted_for' \in [Server -> Server \cup {Nil}]
      /\ RoleTypeOK' /\ TermPositive'
  BY <1>1, FollowLeaderType DEF AcceptAppend
<1>9. /\ log' = [log EXCEPT ![n] = lg]
      /\ commit_index' = [commit_index EXCEPT ![n] = CommitAfterAppend(n, m, lg)]
      /\ UNCHANGED elected
  BY DEF AcceptAppend, lg
<1>10. log' \in [Server -> Seq(Entry)] /\ commit_index' \in [Server -> Nat]
  BY <1>1, <1>2, <1>5, <1>9 DEF Log
<1>11. wal' \in [Server -> WalRecord]
  BY <1>1, <1>8, <1>10, PersistType DEF AcceptAppend
<1> QED BY <1>7, <1>8, <1>9, <1>10, <1>11 DEF RoleTypeOK

-----------------------------------------------------------------------------

\* What a leader sends has the type of a request, given where it starts.
LEMMA ReplicateType ==
  ASSUME TypeInv, NEW n \in Server, NEW p \in Server,
         log'[n] \in Log, next_index'[n][p] \in Nat \ {0}
  PROVE  Replicate(n, p) \in Message
<1>1. current_term[n] \in Nat /\ commit_index[n] \in Nat
  BY DEF TypeInv, TypeOK
<1> QED BY <1>1, BuildAppendEntriesType DEF Replicate

\* ClientSubmit keeps the types.
LEMMA ClientSubmitType ==
  ASSUME TypeInv, NEW n \in Server, NEW c \in Command, ClientSubmit(n, c)
  PROVE  TypeInv'
<1> USE DEF TypeInv, TypeOK
<1>1. /\ role[n] = "leader"
      /\ UNCHANGED <<current_term, voted_for, commit_index, roleVars, elected>>
  BY DEF ClientSubmit
<1>2. [term |-> current_term[n], command |-> c] \in Entry
  <2>1. current_term[n] > 0
    BY <1>1 DEF TermPositive
  <2> QED BY <2>1 DEF Entry
<1>3. log' \in [Server -> Seq(Entry)]
  BY <1>2 DEF ClientSubmit
<1>4. \A p \in Server : Replicate(n, p) \in Message
  <2> TAKE p \in Server
  <2>1. next_index'[n][p] \in Nat \ {0}
    BY <1>1 DEF NextIndexPositive, roleVars
  <2> QED BY <1>3, <2>1, ReplicateType DEF Log
<1>5. IsABag(network') /\ InFlight' \subseteq Message
  <2>1. PICK free \in SUBSET Peers(n) : Send({Replicate(n, p) : p \in free})
    BY DEF ClientSubmit
  <2> DEFINE S == {Replicate(n, p) : p \in free}
  <2>2. S \subseteq Message
    BY <1>4 DEF Peers
  <2> HIDE DEF S
  <2> QED BY <2>1, <2>2, SendEffect DEF S
<1>6. wal' \in [Server -> WalRecord]
  BY <1>1, PersistType DEF ClientSubmit
<1> QED BY <1>1, <1>3, <1>5, <1>6 DEF roleVars, NextIndexPositive, TermPositive

\* BroadcastHeartbeat keeps the types.
LEMMA BroadcastHeartbeatType ==
  ASSUME TypeInv, NEW n \in Server, BroadcastHeartbeat(n)
  PROVE  TypeInv'
<1> USE DEF TypeInv, TypeOK
<1>1. role[n] = "leader" /\ UNCHANGED <<stateVars, roleVars, elected>>
  BY DEF BroadcastHeartbeat
<1>2. \A p \in Server : Replicate(n, p) \in Message
  <2> TAKE p \in Server
  <2>1. next_index'[n][p] \in Nat \ {0}
    BY <1>1 DEF NextIndexPositive, roleVars
  <2>2. log'[n] \in Log
    BY <1>1 DEF stateVars, Log
  <2> QED BY <2>1, <2>2, ReplicateType
<1>3. IsABag(network') /\ InFlight' \subseteq Message
  <2>1. PICK free \in SUBSET Peers(n) : Send({Replicate(n, p) : p \in free})
    BY DEF BroadcastHeartbeat
  <2> DEFINE S == {Replicate(n, p) : p \in free}
  <2>2. S \subseteq Message
    BY <1>2 DEF Peers
  <2> HIDE DEF S
  <2> QED BY <2>1, <2>2, SendEffect DEF S
<1>4. wal' \in [Server -> WalRecord]
  BY <1>1, PersistType DEF BroadcastHeartbeat, stateVars
<1> QED BY <1>1, <1>3, <1>4 DEF stateVars, roleVars, NextIndexPositive, TermPositive

\* AnswerClient keeps the types.
LEMMA AnswerClientType ==
  ASSUME TypeInv, NEW n \in Server, AnswerClient(n)
  PROVE  TypeInv'
<1>1. UNCHANGED <<stateVars, roleVars, network, elected>> /\ Persist(n)
  BY DEF AnswerClient
<1>2. wal' \in [Server -> WalRecord]
  BY <1>1, PersistType DEF TypeInv, TypeOK, stateVars
<1> QED BY <1>1, <1>2
  DEF TypeInv, TypeOK, stateVars, roleVars, NextIndexPositive, TermPositive, InFlight

-----------------------------------------------------------------------------

\* advance_commit_index returns an index of the log or leaves the old one: some
\* index, 0 at least, is always stored by a majority.
LEMMA AdvanceCommitIndexType ==
  ASSUME TypeInv, NEW n \in Server, NEW match \in [Server -> Nat]
  PROVE  AdvanceCommitIndex(n, match) \in Nat
<1> DEFINE stored == {i \in 0..Len(log[n]) : StoredByMajority(n, match, i)}
<1> USE DEF TypeInv, TypeOK
<1>1. Len(log[n]) \in Nat /\ commit_index[n] \in Nat
  BY LenProperties
<1>2. 0 \in stored
  <2>1. {n} \cup {p \in Peers(n) : match[p] >= 0} = Server
    BY DEF Peers
  <2>2. Cardinality(Server) \in Nat /\ Cardinality(Server) > 1
    BY ServerAssumption, FS_CardinalityType
  <2>3. IsMajority(Server)
    BY <2>2 DEF IsMajority, Majority
  <2>4. StoredByMajority(n, match, 0)
    BY <2>1, <2>3, Zenon DEF StoredByMajority
  <2> QED BY <1>1, <2>4
<1>3. stored \in SUBSET Nat /\ \A x \in stored : x <= Len(log[n])
  BY <1>1
<1> HIDE DEF stored
<1>4. Max(stored) \in Nat
  BY <1>1, <1>2, <1>3, MaxIsGreatest
<1> DEFINE candidate == Max(stored)
<1>5. AdvanceCommitIndex(n, match)
        = IF candidate > commit_index[n]
              /\ TermAt(log[n], candidate) = current_term[n]
          THEN candidate ELSE commit_index[n]
  BY Zenon DEF AdvanceCommitIndex, stored
<1> HIDE DEF candidate
<1> QED BY <1>1, <1>4, <1>5 DEF candidate

\* handle_append_reply keeps the bookkeeping in range whatever a reply claims.
LEMMA BookkeepingType ==
  ASSUME TypeInv, NEW m \in Received("append_entries_reply"),
         role[m.dst] = "leader"
  PROVE  /\ MatchAfter(m.dst, m) \in [Server -> Nat]
         /\ NextAfterSuccess(m.dst, m) \in [Server -> Nat \ {0}]
         /\ NextAfterFailure(m.dst, m) \in [Server -> Nat \ {0}]
<1> DEFINE n == m.dst
<1> USE DEF TypeInv, TypeOK
<1>1. n \in Server /\ m.src \in Server /\ m.match_index \in Nat
  BY ReceivedFields DEF Received
<1>2. /\ match_index[n] \in [Server -> Nat]
      /\ next_index[n] \in [Server -> Nat \ {0}]
  BY SMTT(30), <1>1 DEF NextIndexPositive
<1>3. Max({match_index[n][m.src], m.match_index}) \in Nat
  <2> DEFINE old == match_index[n][m.src]
  <2>1. old \in Nat
    BY <1>1, <1>2
  <2> HIDE DEF old
  <2>2. Max({old, m.match_index}) \in Nat
    BY <1>1, <2>1, MaxOfTwo
  <2> QED BY <2>2 DEF old
<1>4. Max({1, next_index[n][m.src] - 1}) \in Nat \ {0}
  <2> DEFINE next == next_index[n][m.src]
             lower == next - 1
  <2>1. next \in Nat \ {0}
    BY <1>1, <1>2
  <2> HIDE DEF next
  <2>2. lower \in Nat
    BY <2>1
  <2> HIDE DEF lower
  <2>3. Max({1, lower}) = IF 1 >= lower THEN 1 ELSE lower
    BY <2>2, MaxOfTwo, Zenon, 1 \in Nat
  <2>4. Max({1, lower}) \in Nat \ {0}
    BY <2>2, <2>3
  <2> QED BY <2>4 DEF lower, next
<1>5. MatchAfter(n, m) \in [Server -> Nat]
  BY <1>1, <1>2, <1>3 DEF MatchAfter
<1>6. NextAfterSuccess(n, m) \in [Server -> Nat \ {0}]
  <2> DEFINE acked == MatchAfter(n, m)[m.src]
  <2>1. acked \in Nat
    BY <1>1, <1>5
  <2> HIDE DEF acked
  <2>2. acked + 1 \in Nat \ {0}
    BY <2>1
  <2> QED BY <1>1, <1>2, <2>2 DEF NextAfterSuccess, acked
<1>7. NextAfterFailure(n, m) \in [Server -> Nat \ {0}]
  BY <1>1, <1>2, <1>4 DEF NextAfterFailure
<1> QED BY <1>5, <1>6, <1>7

\* AppendAcknowledged keeps the types.
LEMMA AppendAcknowledgedType ==
  ASSUME TypeInv, NEW m \in Received("append_entries_reply"), AppendAcknowledged(m)
  PROVE  TypeInv'
<1> DEFINE n == m.dst
           match == MatchAfter(n, m)
           next == NextAfterSuccess(n, m)
           commit == AdvanceCommitIndex(n, match)
           behind == next[m.src] <= Len(log[n])
           waiting == Waiting(n, commit_index[n], commit) # {}
           S == {Replicate(n, p) : p \in {q \in {m.src} : behind}}
<1> USE DEF TypeInv, TypeOK
<1>1. n \in Server /\ m.src \in Server
  BY ReceivedFields DEF Received
<1>2. /\ role[n] = "leader"
      /\ match_index' = [match_index EXCEPT ![n] = match]
      /\ next_index' = [next_index EXCEPT ![n] = next]
      /\ commit_index' = [commit_index EXCEPT ![n] = commit]
      /\ UNCHANGED <<current_term, voted_for, log, role, granted, elected>>
      /\ Answer(m, S)
      /\ CASE waiting -> Persist(n)
           [] ~ waiting /\ behind ->
                wal' = [wal EXCEPT ![n] = [term |-> current_term[n],
                                           voted_for |-> voted_for[n],
                                           commit |-> commit_index[n]]]
           [] OTHER -> UNCHANGED wal
  BY DEF AppendAcknowledged
<1>3. match \in [Server -> Nat] /\ next \in [Server -> Nat \ {0}]
  BY <1>2, BookkeepingType
<1>4. commit \in Nat
  BY <1>1, <1>3, AdvanceCommitIndexType
<1> HIDE DEF match, next, commit, behind, waiting
<1>5. /\ match_index' \in [Server -> [Server -> Nat]]
      /\ next_index' \in [Server -> [Server -> Nat]]
      /\ commit_index' \in [Server -> Nat]
  BY <1>1, <1>2, <1>3, <1>4
<1>6. NextIndexPositive'
  <2> SUFFICES ASSUME NEW k \in Server, NEW p \in Server, role'[k] = "leader"
               PROVE  next_index'[k][p] > 0
    BY DEF NextIndexPositive
  <2>1. CASE k = n
    <3>1. next_index'[k] = next
      BY <1>1, <1>2, <2>1
    <3> QED BY <1>3, <3>1
  <2>2. CASE k # n
    BY <1>2, <2>2 DEF NextIndexPositive
  <2> QED BY <2>1, <2>2
<1>7. S \subseteq Message
  <2>1. next_index'[n][m.src] \in Nat \ {0} /\ log'[n] \in Log
    BY <1>1, <1>2, <1>3 DEF Log
  <2>2. Replicate(n, m.src) \in Message
    BY <1>1, <2>1, ReplicateType
  <2> QED BY <2>2
<1> HIDE DEF S
<1>8. IsABag(network') /\ InFlight' \subseteq Message
  BY <1>2, <1>7, AnswerEffect
<1>9. wal' \in [Server -> WalRecord]
  <2>1. CASE waiting
    BY <1>1, <1>2, <1>5, <2>1, PersistType
  <2>2. CASE ~ waiting /\ behind
    <3> DEFINE record == [term |-> current_term[n], voted_for |-> voted_for[n],
                          commit |-> commit_index[n]]
    <3>1. record \in WalRecord
      BY <1>1 DEF WalRecord
    <3>2. wal' = [wal EXCEPT ![n] = record]
      BY <1>2, <2>2
    <3> HIDE DEF record
    <3> QED BY <3>1, <3>2
  <2>3. CASE ~ waiting /\ ~ behind
    BY <1>2, <2>3
  <2> QED BY <2>1, <2>2, <2>3
<1> QED BY <1>2, <1>5, <1>6, <1>8, <1>9 DEF TermPositive

\* AppendRefused keeps the types.
LEMMA AppendRefusedType ==
  ASSUME TypeInv, NEW m \in Received("append_entries_reply"), AppendRefused(m)
  PROVE  TypeInv'
<1> DEFINE n == m.dst
           next == NextAfterFailure(n, m)
           S == {Replicate(n, m.src)}
<1> USE DEF TypeInv, TypeOK
<1>1. n \in Server /\ m.src \in Server
  BY ReceivedFields DEF Received
<1>2. /\ role[n] = "leader"
      /\ next_index' = [next_index EXCEPT ![n] = next]
      /\ UNCHANGED <<stateVars, role, granted, match_index, elected>>
      /\ Answer(m, S)
      /\ Persist(n)
  BY DEF AppendRefused
<1>3. next \in [Server -> Nat \ {0}]
  BY <1>2, BookkeepingType
<1> HIDE DEF next
<1>4. next_index' \in [Server -> [Server -> Nat]]
  BY <1>1, <1>2, <1>3
<1>5. NextIndexPositive'
  <2> SUFFICES ASSUME NEW k \in Server, NEW p \in Server, role'[k] = "leader"
               PROVE  next_index'[k][p] > 0
    BY DEF NextIndexPositive
  <2>1. CASE k = n
    <3>1. next_index'[k] = next
      BY <1>1, <1>2, <2>1
    <3> QED BY <1>3, <3>1
  <2>2. CASE k # n
    BY <1>2, <2>2 DEF NextIndexPositive, stateVars
  <2> QED BY <2>1, <2>2
<1>6. S \subseteq Message
  <2>1. next_index'[n][m.src] \in Nat \ {0} /\ log'[n] \in Log
    BY <1>1, <1>2, <1>3 DEF Log, stateVars
  <2>2. Replicate(n, m.src) \in Message
    BY <1>1, <2>1, ReplicateType
  <2> QED BY <2>2
<1> HIDE DEF S
<1>7. IsABag(network') /\ InFlight' \subseteq Message
  BY <1>2, <1>6, AnswerEffect
<1>8. wal' \in [Server -> WalRecord]
  BY <1>1, <1>2, PersistType DEF stateVars
<1> QED BY <1>2, <1>4, <1>5, <1>7, <1>8 DEF TermPositive, stateVars

-----------------------------------------------------------------------------

\* Recovery from any log and any readable record.
LEMMA RecoverType ==
  ASSUME TypeInv, NEW n \in Server, NEW lg \in Log, NEW record \in WalRecord,
         Recover(n, lg, record), IsABag(network'), InFlight' \subseteq Message
  PROVE  TypeInv'
<1> USE DEF TypeInv, TypeOK
<1>1. /\ log' = [log EXCEPT ![n] = lg]
      /\ wal' = [wal EXCEPT ![n] = record]
      /\ current_term' = [current_term EXCEPT ![n] = record.term]
      /\ voted_for' = [voted_for EXCEPT ![n] = record.voted_for]
      /\ commit_index' = [commit_index EXCEPT ![n] = Min({record.commit, Len(lg)})]
      /\ BecomeFollower(n)
      /\ UNCHANGED elected
  BY DEF Recover
<1>2. /\ record.term \in Nat /\ record.voted_for \in Server \cup {Nil}
      /\ record.commit \in Nat
  BY DEF WalRecord
<1>3. Min({record.commit, Len(lg)}) \in Nat
  <2>1. Len(lg) \in Nat
    BY LenProperties DEF Log
  <2> QED BY <1>2, <2>1, MinOfTwo
<1>4. RoleTypeOK'
  BY <1>1, BecomeFollowerType DEF RoleTypeOK
<1>5. TermPositive'
  BY <1>1 DEF BecomeFollower, TermPositive
<1>6. current_term' \in [Server -> Nat] /\ voted_for' \in [Server -> Server \cup {Nil}]
  BY <1>1, <1>2
<1>7. /\ log' \in [Server -> Seq(Entry)] /\ wal' \in [Server -> WalRecord]
      /\ commit_index' \in [Server -> Nat]
  BY <1>1, <1>3 DEF Log
<1> QED BY <1>1, <1>4, <1>5, <1>6, <1>7 DEF RoleTypeOK

\* Restart keeps the types.
LEMMA RestartType ==
  ASSUME TypeInv, NEW n \in Server, Restart(n)
  PROVE  TypeInv'
<1>1. Recover(n, log[n], wal[n]) /\ UNCHANGED network
  BY DEF Restart
<1>2. log[n] \in Log /\ wal[n] \in WalRecord
  BY DEF TypeInv, TypeOK, Log
<1>3. IsABag(network') /\ InFlight' \subseteq Message
  BY <1>1 DEF TypeInv, TypeOK, InFlight
<1> QED BY <1>1, <1>2, <1>3, RecoverType

\* A prefix of a log is a log.
LEMMA PrefixType ==
  ASSUME NEW lg \in Log, NEW k \in Nat, k <= Len(lg)
  PROVE  SubSeq(lg, 1, k) \in Log /\ Len(SubSeq(lg, 1, k)) = k
<1>1. lg \in Seq(Entry) /\ Len(lg) \in Nat
  BY LenProperties DEF Log
<1>2. \A i \in 1..k : lg[i] \in Entry
  BY <1>1
<1> QED BY <1>1, <1>2, SubSeqProperties DEF Log

\* A journalled entry can raise the term recovery reads, never its vote.
LEMMA JournalledType ==
  ASSUME TypeInv, NEW n \in Server, NEW lg \in Log
  PROVE  /\ Journalled(n, lg) \in WalRecord
         /\ Journalled(n, lg).term >= wal[n].term
         /\ Journalled(n, lg).term >= LastTerm(lg)
         /\ Journalled(n, lg).voted_for = wal[n].voted_for
<1>1. wal[n] \in WalRecord /\ wal[n].term \in Nat
  BY DEF TypeInv, TypeOK, WalRecord
<1>2. LastTerm(lg) \in Nat
  BY LastTermType
<1> DEFINE term == Max({wal[n].term, LastTerm(lg)})
<1>3. term = IF wal[n].term >= LastTerm(lg) THEN wal[n].term ELSE LastTerm(lg)
  BY <1>1, <1>2, MaxOfTwo, Zenon
<1>4. Journalled(n, lg) = [wal[n] EXCEPT !.term = term]
  BY DEF Journalled
<1> HIDE DEF term
<1> QED BY <1>1, <1>2, <1>3, <1>4 DEF WalRecord

\* TornAppend keeps the types.
LEMMA TornAppendType ==
  ASSUME TypeInv, NEW m \in Received("append_entries"), TornAppend(m)
  PROVE  TypeInv'
<1> DEFINE n == m.dst
           lg == AppendNewEntries(log[n], m.prev_log_index, m.entries)
           kept == KeptLength(log[n], m.prev_log_index, m.entries)
<1>1. n \in Server
  BY ReceivedFields DEF Received, TypeInv, TypeOK
<1>2. lg \in Log /\ kept \in Nat /\ kept <= Len(lg)
  BY AcceptedMerge, Zenon DEF TornAppend
<1>3. Len(lg) \in Nat
  BY <1>2, LenProperties DEF Log
<1>4. PICK written \in kept..Len(lg) :
         LET torn == SubSeq(lg, 1, written)
         IN  Recover(n, torn, IF written > kept THEN Journalled(n, torn) ELSE wal[n])
  BY DEF TornAppend
<1> HIDE DEF lg, kept
<1> DEFINE torn == SubSeq(lg, 1, written)
           record == IF written > kept THEN Journalled(n, torn) ELSE wal[n]
<1>5. torn \in Log
  BY <1>2, <1>3, PrefixType
<1>6. record \in WalRecord
  <2> HIDE DEF torn
  <2> QED BY <1>1, <1>5, JournalledType DEF TypeInv, TypeOK
<1>7. IsABag(network') /\ InFlight' \subseteq Message
  BY DiscardEffect DEF TornAppend, TypeInv, TypeOK
<1> QED BY <1>1, <1>4, <1>5, <1>6, <1>7, RecoverType

-----------------------------------------------------------------------------

\* Every step of every node, and the network's, keeps the types.
LEMMA NextType == TypeInv /\ [Next]_vars => TypeInv'
<1> SUFFICES ASSUME TypeInv, [Next]_vars PROVE TypeInv'
  OBVIOUS
<1>1. CASE \E n \in Server : StartElection(n)
  BY <1>1, StartElectionType
<1>2. CASE \E m \in Received("request_vote") : HandleRequestVote(m)
  BY <1>2, HandleRequestVoteType
<1>3. CASE \E m \in Received("request_vote_reply") : HandleVoteReply(m)
  <2>1. PICK m \in Received("request_vote_reply") : HandleVoteReply(m)
    BY <1>3
  <2>2. CASE StepDownOnReply(m)
    BY <2>2, StepDownOnReplyType DEF Received
  <2>3. CASE IgnoreVote(m)
    BY <2>3, DiscardOnlyType DEF IgnoreVote
  <2>4. CASE CountVote(m)
    BY <2>4, CountVoteType
  <2>5. CASE WinElection(m)
    BY <2>5, WinElectionType
  <2> QED BY <2>1, <2>2, <2>3, <2>4, <2>5 DEF HandleVoteReply
<1>4. CASE \E m \in Received("append_entries") : HandleAppendEntries(m)
  BY <1>4, RejectStaleAppendType, RejectMismatchType, AcceptAppendType, TornAppendType
  DEF HandleAppendEntries
<1>5. CASE \E m \in Received("append_entries_reply") : HandleAppendReply(m)
  <2>1. PICK m \in Received("append_entries_reply") : HandleAppendReply(m)
    BY <1>5
  <2>2. CASE StepDownOnReply(m)
    BY <2>2, StepDownOnReplyType DEF Received
  <2>3. CASE IgnoreAppendReply(m)
    BY <2>3, DiscardOnlyType DEF IgnoreAppendReply
  <2>4. CASE AppendAcknowledged(m)
    BY <2>4, AppendAcknowledgedType
  <2>5. CASE AppendRefused(m)
    BY <2>5, AppendRefusedType
  <2> QED BY <2>1, <2>2, <2>3, <2>4, <2>5 DEF HandleAppendReply
<1>6. CASE \E n \in Server, c \in Command : ClientSubmit(n, c)
  BY <1>6, ClientSubmitType
<1>7. CASE \E n \in Server : BroadcastHeartbeat(n)
  BY <1>7, BroadcastHeartbeatType
<1>8. CASE \E n \in Server : AnswerClient(n)
  BY <1>8, AnswerClientType
<1>9. CASE \E n \in Server : Restart(n)
  BY <1>9, RestartType
<1>10. CASE \E m \in InFlight : Lose(m)
  BY <1>10, DiscardOnlyType DEF Lose
<1>11. CASE UNCHANGED vars
  BY <1>11
  DEF vars, stateVars, roleVars, TypeInv, TypeOK, NextIndexPositive, TermPositive, InFlight
<1> QED BY <1>1, <1>2, <1>3, <1>4, <1>5, <1>6, <1>7, <1>8, <1>9, <1>10, <1>11
  DEF Next

\* Every variable keeps its type, a leader's next_index stays above zero and a
\* node that campaigns or leads does so in a term above zero.
THEOREM TypeInvariant == Spec => []TypeInv
BY InitType, NextType, PTL DEF Spec

\* Nothing a handler computes from an envelope leaves its range: no message
\* carries a negative index, no log an entry without a term.
THEOREM TypeCorrect == Spec => []TypeOK
BY TypeInvariant, PTL DEF TypeInv

-----------------------------------------------------------------------------
(***************************************************************************)
(* One leader per term, for a cluster of any size and through any number   *)
(* of crashes.                                                             *)
(*                                                                         *)
(* The votes anybody has been told of are each in the WAL of their voter   *)
(* (VotesDurable), the WAL is never ahead of the node (WalBehind) and only *)
(* moves forward (WalForward); so a voter is bound by its vote for as long *)
(* as it could cast another in that term, and two majorities share one.    *)
(***************************************************************************)
\* v is known by somebody to have voted for c in term t.
Promised(v, t, c) ==
    \/ \E m \in Received("request_vote_reply") :
          m.vote_granted /\ m.src = v /\ m.term = t /\ m.dst = c
    \/ v \in granted[c] /\ t = current_term[c]
    \/ \E e \in elected : e.term = t /\ e.leader = c /\ v \in e.voters

Bound(v, t, c) ==
    \/ wal[v].term > t
    \/ wal[v].term = t /\ wal[v].voted_for = c

\* The WAL is what the node knows or something older, and never an older vote
\* of the same term.
WalBehind ==
    \A n \in Server :
        /\ wal[n].term <= current_term[n]
        /\ wal[n].term = current_term[n] => wal[n].voted_for = voted_for[n]

VotersAreMajority == \A e \in elected : IsMajority(e.voters)

ElectionInv ==
    /\ TypeInv
    /\ VotersAreMajority
    /\ WalBehind
    /\ VotesDurable
    /\ OneVotePerTerm

\* No record a step adds to a WAL takes back what the last one bound.
WalForward ==
    \A n \in Server :
        \/ wal'[n].term > wal[n].term
        \/ /\ wal'[n].term = wal[n].term
           /\ wal[n].voted_for # Nil => wal'[n].voted_for = wal[n].voted_for

NoNewPromise ==
    \A v, c \in Server, t \in Nat : Promised(v, t, c)' => Promised(v, t, c)

-----------------------------------------------------------------------------
\* Every promise, seen as a voter, a term and a candidate.
LEMMA PromiseIsPromised ==
  ASSUME TypeOK, NEW p \in Promises
  PROVE  \E v, c \in Server, t \in Nat : p = Promise(v, t, c) /\ Promised(v, t, c)
<1>1. p \in Told \/ p \in Counted \/ p \in Decisive
  BY DEF Promises
<1>2. CASE p \in Told
  <2>1. PICK m \in Received("request_vote_reply") :
                m.vote_granted /\ p = Promise(m.src, m.term, m.dst)
    BY <1>2 DEF Told
  <2>2. m.src \in Server /\ m.term \in Nat /\ m.dst \in Server
    BY ReceivedFields DEF Received, TypeOK
  <2>3. Promised(m.src, m.term, m.dst)
    BY <2>1 DEF Promised
  <2> QED BY <2>1, <2>2, <2>3
<1>3. CASE p \in Counted
  <2>1. PICK c \in Server : p \in {Promise(v, current_term[c], c) : v \in granted[c]}
    BY <1>3 DEF Counted
  <2>2. PICK v \in granted[c] : p = Promise(v, current_term[c], c)
    BY <2>1
  <2>3. v \in Server /\ current_term[c] \in Nat
    BY <2>2 DEF TypeOK
  <2>4. Promised(v, current_term[c], c)
    BY <2>2 DEF Promised
  <2> QED BY <2>2, <2>3, <2>4
<1>4. CASE p \in Decisive
  <2>1. PICK e \in elected : p \in {Promise(v, e.term, e.leader) : v \in e.voters}
    BY <1>4 DEF Decisive
  <2>2. PICK v \in e.voters : p = Promise(v, e.term, e.leader)
    BY <2>1
  <2>3. v \in Server /\ e.term \in Nat /\ e.leader \in Server
    BY <2>2 DEF TypeOK
  <2>4. Promised(v, e.term, e.leader)
    BY <2>2 DEF Promised
  <2> QED BY <2>2, <2>3, <2>4
<1> QED BY <1>1, <1>2, <1>3, <1>4

\* The other way: who is known to have voted has a promise.
LEMMA PromisedIsPromise ==
  ASSUME NEW v, NEW t, NEW c \in Server, Promised(v, t, c)
  PROVE  Promise(v, t, c) \in Promises
<1>1. CASE \E m \in Received("request_vote_reply") :
              m.vote_granted /\ m.src = v /\ m.term = t /\ m.dst = c
  BY <1>1 DEF Told, Promises
<1>2. CASE v \in granted[c] /\ t = current_term[c]
  <2>1. Promise(v, t, c) \in {Promise(u, current_term[c], c) : u \in granted[c]}
    BY <1>2
  <2>2. Promise(v, t, c) \in Counted
    BY <2>1 DEF Counted
  <2> QED BY <2>2 DEF Promises
<1>3. CASE \E e \in elected : e.term = t /\ e.leader = c /\ v \in e.voters
  <2>1. PICK e \in elected : e.term = t /\ e.leader = c /\ v \in e.voters
    BY <1>3
  <2>2. Promise(v, t, c) \in {Promise(u, e.term, e.leader) : u \in e.voters}
    BY <2>1
  <2>3. Promise(v, t, c) \in Decisive
    BY <2>1, <2>2 DEF Decisive
  <2> QED BY <2>3 DEF Promises
<1> QED BY <1>1, <1>2, <1>3 DEF Promised

\* VotesDurable and OneVotePerTerm, one promise at a time.
DurableOneByOne ==
    \A v, c \in Server, t \in Nat : Promised(v, t, c) => Bound(v, t, c)

OneVoteOneByOne ==
    \A v, c, d \in Server, t \in Nat :
        Promised(v, t, c) /\ Promised(v, t, d) => c = d

\* VotesDurable, promise by promise.
LEMMA DurableMeans ==
  ASSUME TypeOK
  PROVE  VotesDurable <=> DurableOneByOne
<1>1. \A v, t, c : OnDisk(Promise(v, t, c)) <=> Bound(v, t, c)
  BY DEF OnDisk, Bound, Promise
<1>2. ASSUME VotesDurable PROVE DurableOneByOne
  BY <1>1, <1>2, PromisedIsPromise DEF VotesDurable, DurableOneByOne
<1>3. ASSUME DurableOneByOne, NEW p \in Promises PROVE OnDisk(p)
  <2>1. PICK v \in Server, c \in Server, t \in Nat :
                p = Promise(v, t, c) /\ Promised(v, t, c)
    BY PromiseIsPromised
  <2> QED BY <1>1, <1>3, <2>1 DEF DurableOneByOne
<1> QED BY <1>2, <1>3 DEF VotesDurable

\* OneVotePerTerm, promise by promise.
LEMMA OneVoteMeans ==
  ASSUME TypeOK
  PROVE  OneVotePerTerm <=> OneVoteOneByOne
<1>1. ASSUME OneVotePerTerm, NEW v \in Server, NEW c \in Server, NEW d \in Server,
             NEW t \in Nat, Promised(v, t, c), Promised(v, t, d)
      PROVE  c = d
  <2>1. Promise(v, t, c) \in Promises /\ Promise(v, t, d) \in Promises
    BY <1>1, PromisedIsPromise
  <2> QED BY <1>1, <2>1 DEF OneVotePerTerm, Promise
<1>2. ASSUME OneVoteOneByOne, NEW p \in Promises, NEW q \in Promises,
             p.voter = q.voter, p.term = q.term
      PROVE  p.candidate = q.candidate
  <2>1. PICK v \in Server, c \in Server, t \in Nat :
                p = Promise(v, t, c) /\ Promised(v, t, c)
    BY PromiseIsPromised
  <2>2. PICK u \in Server, d \in Server, s \in Nat :
                q = Promise(u, s, d) /\ Promised(u, s, d)
    BY PromiseIsPromised
  <2> QED BY <1>2, <2>1, <2>2 DEF OneVoteOneByOne, Promise
<1> QED BY <1>1, <1>2 DEF OneVotePerTerm, OneVoteOneByOne

-----------------------------------------------------------------------------
(***************************************************************************)
(* What a step does to the invariant depends only on what it does to the   *)
(* WAL and to the promises.                                                *)
(***************************************************************************)
\* A promise that was on disk stays on disk.
LEMMA BoundKept ==
  ASSUME TypeOK, TypeOK', WalForward, NEW v \in Server, NEW c \in Server,
         NEW t \in Nat, Bound(v, t, c)
  PROVE  Bound(v, t, c)'
<1>1. wal[v].term \in Nat /\ wal'[v].term \in Nat
  BY DEF TypeOK, WalRecord
<1>2. c # Nil
  BY NilAssumption
<1> QED BY <1>1, <1>2 DEF WalForward, Bound

\* Nothing new was promised and the WALs only moved forward.
LEMMA NoNewPromiseStep ==
  ASSUME TypeOK, TypeOK', VotesDurable, OneVotePerTerm, WalForward, NoNewPromise
  PROVE  VotesDurable' /\ OneVotePerTerm'
<1>1. DurableOneByOne /\ OneVoteOneByOne
  BY DurableMeans, OneVoteMeans
<1>2. DurableOneByOne'
  BY <1>1, BoundKept DEF DurableOneByOne, NoNewPromise
<1>3. OneVoteOneByOne'
  BY <1>1 DEF OneVoteOneByOne, NoNewPromise
<1>4. TypeOK' => (VotesDurable <=> DurableOneByOne)'
  BY DurableMeans, PTL
<1>5. TypeOK' => (OneVotePerTerm <=> OneVoteOneByOne)'
  BY OneVoteMeans, PTL
<1> QED BY <1>2, <1>3, <1>4, <1>5

\* A node with no vote in its term, as far as it knows, or with that very vote,
\* may promise it: nothing it promised before can be in the way, because it
\* would be on disk and what is on disk is not ahead of what the node knows.
LEMMA NewPromiseStep ==
  ASSUME TypeOK, TypeOK', VotesDurable, OneVotePerTerm, WalForward, WalBehind,
         NEW n \in Server, NEW s \in Nat, NEW d \in Server,
         \/ s > current_term[n]
         \/ s = current_term[n] /\ voted_for[n] \in {Nil, d},
         wal'[n].term = s, wal'[n].voted_for = d,
         \A v, c \in Server, t \in Nat :
            Promised(v, t, c)' => \/ Promised(v, t, c)
                                  \/ v = n /\ t = s /\ c = d
  PROVE  VotesDurable' /\ OneVotePerTerm'
<1>1. DurableOneByOne /\ OneVoteOneByOne
  BY DurableMeans, OneVoteMeans
<1>2. \A c \in Server : Promised(n, s, c) => c = d
  <2> SUFFICES ASSUME NEW c \in Server, Promised(n, s, c) PROVE c = d
    OBVIOUS
  <2>1. Bound(n, s, c)
    BY <1>1 DEF DurableOneByOne
  <2>2. wal[n].term \in Nat /\ current_term[n] \in Nat /\ wal[n].term <= current_term[n]
    BY DEF TypeOK, WalRecord, WalBehind
  <2>3. wal[n].term = s /\ wal[n].voted_for = c /\ s = current_term[n]
    BY <2>1, <2>2 DEF Bound
  <2>4. voted_for[n] = c
    BY <2>3 DEF WalBehind
  <2> QED BY <2>2, <2>3, <2>4, NilAssumption
<1>3. DurableOneByOne'
  <2> SUFFICES ASSUME NEW v \in Server, NEW c \in Server, NEW t \in Nat,
                      Promised(v, t, c)'
               PROVE  Bound(v, t, c)'
    BY DEF DurableOneByOne
  <2>1. CASE Promised(v, t, c)
    BY <1>1, <2>1, BoundKept DEF DurableOneByOne
  <2>2. CASE v = n /\ t = s /\ c = d
    BY <2>2 DEF Bound
  <2> QED BY <2>1, <2>2
<1>4. OneVoteOneByOne'
  BY <1>1, <1>2 DEF OneVoteOneByOne
<1>5. TypeOK' => (VotesDurable <=> DurableOneByOne)'
  BY DurableMeans, PTL
<1>6. TypeOK' => (OneVotePerTerm <=> OneVoteOneByOne)'
  BY OneVoteMeans, PTL
<1> QED BY <1>3, <1>4, <1>5, <1>6

\* A step that leaves n's WAL with exactly the term and the vote n now has,
\* the term not lower and a vote of the same term not another.
LEMMA ExposedWal ==
  ASSUME TypeOK, TypeOK', WalBehind, NEW n \in Server,
         \A k \in Server \ {n} : /\ wal'[k] = wal[k]
                                 /\ current_term'[k] = current_term[k]
                                 /\ voted_for'[k] = voted_for[k],
         wal'[n].term = current_term'[n], wal'[n].voted_for = voted_for'[n],
         \/ current_term'[n] > current_term[n]
         \/ /\ current_term'[n] = current_term[n]
            /\ voted_for[n] # Nil => voted_for'[n] = voted_for[n]
  PROVE  WalBehind' /\ WalForward
<1>1. /\ wal[n].term \in Nat /\ current_term[n] \in Nat
      /\ wal'[n].term \in Nat /\ current_term'[n] \in Nat
  BY DEF TypeOK, WalRecord
<1>2. /\ wal[n].term <= current_term[n]
      /\ wal[n].term = current_term[n] => wal[n].voted_for = voted_for[n]
  BY DEF WalBehind
<1>3. \A k \in Server \ {n} :
         /\ wal'[k].term <= current_term'[k]
         /\ wal'[k].term = current_term'[k] => wal'[k].voted_for = voted_for'[k]
  BY DEF WalBehind
<1>4. WalBehind'
  BY <1>1, <1>3 DEF WalBehind
<1>5. \/ wal'[n].term > wal[n].term
      \/ /\ wal'[n].term = wal[n].term
         /\ wal[n].voted_for # Nil => wal'[n].voted_for = wal[n].voted_for
  BY <1>1, <1>2
<1> QED BY <1>4, <1>5 DEF WalForward

-----------------------------------------------------------------------------
(***************************************************************************)
(* Steps that disclose no vote.                                            *)
(***************************************************************************)
Quiet ==
    /\ \A m \in InFlight' \ InFlight : m.type # "request_vote_reply"
    /\ \A c \in Server : \/ granted'[c] = {}
                         \/ /\ granted'[c] = granted[c]
                            /\ current_term'[c] = current_term[c]
    /\ elected' = elected

\* Without a new promise the WALs are all that matters.
LEMMA QuietStep ==
  ASSUME ElectionInv, TypeInv', Quiet, WalBehind', WalForward
  PROVE  ElectionInv'
<1>1. NoNewPromise
  BY DEF Quiet, NoNewPromise, Promised, Received
<1>2. VotesDurable' /\ OneVotePerTerm'
  BY <1>1, NoNewPromiseStep DEF ElectionInv, TypeInv
<1>3. VotersAreMajority'
  BY DEF ElectionInv, VotersAreMajority, Quiet, IsMajority
<1> QED BY <1>2, <1>3 DEF ElectionInv

\* _persist has run, for a node whose term did not go down and whose vote in
\* that term is the one it had.
LEMMA QuietPersistStep ==
  ASSUME ElectionInv, TypeInv', Quiet, NEW n \in Server, Persist(n),
         \A k \in Server \ {n} : /\ current_term'[k] = current_term[k]
                                 /\ voted_for'[k] = voted_for[k],
         \/ current_term'[n] > current_term[n]
         \/ /\ current_term'[n] = current_term[n]
            /\ voted_for'[n] = voted_for[n]
  PROVE  ElectionInv'
<1>1. /\ \A k \in Server \ {n} : wal'[k] = wal[k]
      /\ wal'[n].term = current_term'[n]
      /\ wal'[n].voted_for = voted_for'[n]
  BY DEF Persist, ElectionInv, TypeInv, TypeOK
<1>2. WalBehind' /\ WalForward
  BY <1>1, ExposedWal DEF ElectionInv, TypeInv
<1> QED BY <1>2, QuietStep

\* The node knows more than before and its WAL does not.
LEMMA QuietUnpersistedStep ==
  ASSUME ElectionInv, TypeInv', Quiet, UNCHANGED wal,
         \A k \in Server : \/ current_term'[k] > current_term[k]
                           \/ UNCHANGED <<current_term[k], voted_for[k]>>
  PROVE  ElectionInv'
<1>1. WalForward
  BY DEF WalForward
<1>2. \A k \in Server : wal[k].term \in Nat /\ current_term[k] \in Nat
                        /\ current_term'[k] \in Nat
  BY DEF ElectionInv, TypeInv, TypeOK, WalRecord
<1>3. WalBehind'
  BY <1>2 DEF WalBehind, ElectionInv
<1> QED BY <1>1, <1>3, QuietStep

\* StepDownOnReply keeps the votes durable and one per term.
LEMMA StepDownOnReplyElection ==
  ASSUME ElectionInv, TypeInv', NEW m \in InFlight, StepDownOnReply(m)
  PROVE  ElectionInv'
<1> USE DEF ElectionInv, TypeInv, TypeOK
<1>1. m.dst \in Server
  BY ReceivedFields
<1>2. InFlight' \subseteq InFlight
  BY DiscardEffect DEF StepDownOnReply
<1>3. Quiet
  BY <1>1, <1>2 DEF StepDownOnReply, BecomeFollower, Quiet
<1>4. \A k \in Server : \/ current_term'[k] > current_term[k]
                        \/ UNCHANGED <<current_term[k], voted_for[k]>>
  BY <1>1 DEF StepDownOnReply
<1> QED BY <1>3, <1>4, QuietUnpersistedStep DEF StepDownOnReply

\* A handler that only consumes its envelope, and a loss.
LEMMA DiscardOnlyElection ==
  ASSUME ElectionInv, TypeInv', NEW m, Discard(m),
         UNCHANGED <<stateVars, roleVars, wal, elected>>
  PROVE  ElectionInv'
<1>1. InFlight' \subseteq InFlight
  BY DiscardEffect DEF ElectionInv, TypeInv, TypeOK
<1>2. Quiet
  BY <1>1 DEF Quiet, stateVars, roleVars
<1> QED BY <1>2, QuietUnpersistedStep DEF stateVars

\* RejectStaleAppend keeps the votes durable and one per term.
LEMMA RejectStaleAppendElection ==
  ASSUME ElectionInv, TypeInv', NEW m \in Received("append_entries"),
         RejectStaleAppend(m)
  PROVE  ElectionInv'
<1> DEFINE S == {AppendEntriesReply(m.dst, m.src, current_term[m.dst], FALSE, 0)}
<1>1. m.dst \in Server
  BY ReceivedFields DEF Received, ElectionInv, TypeInv, TypeOK
<1>2. \A x \in S : x.type # "request_vote_reply"
  BY DEF AppendEntriesReply
<1>3. Answer(m, S) /\ UNCHANGED <<stateVars, roleVars, elected>> /\ Persist(m.dst)
  BY DEF RejectStaleAppend
<1> HIDE DEF S
<1>4. InFlight' \subseteq InFlight \cup S
  BY <1>3, AnswerEffect DEF ElectionInv, TypeInv, TypeOK
<1>5. Quiet
  BY <1>2, <1>3, <1>4 DEF Quiet, stateVars, roleVars
<1> QED BY <1>1, <1>3, <1>5, QuietPersistStep DEF stateVars

\* What FollowLeader does to the terms, the votes and the tallies.
LEMMA FollowLeaderEffect ==
  ASSUME TypeOK, NEW m, NEW n \in Server, m.term \in Nat,
         m.term >= current_term[n], FollowLeader(n, m)
  PROVE  /\ \A k \in Server \ {n} : /\ current_term'[k] = current_term[k]
                                    /\ voted_for'[k] = voted_for[k]
                                    /\ granted'[k] = granted[k]
         /\ granted'[n] = {}
         /\ \/ current_term'[n] > current_term[n]
            \/ /\ current_term'[n] = current_term[n]
               /\ voted_for'[n] = voted_for[n]
BY DEF TypeOK, FollowLeader, BecomeFollower, VoteIn

\* A follower answers its leader: the promises it made stand.
LEMMA FollowerAnswersElection ==
  ASSUME ElectionInv, TypeInv', NEW m \in Received("append_entries"), NEW S,
         \A x \in S : x.type # "request_vote_reply",
         Answer(m, S), m.term >= current_term[m.dst], FollowLeader(m.dst, m),
         UNCHANGED elected, Persist(m.dst)
  PROVE  ElectionInv'
<1>1. m.dst \in Server /\ m.term \in Nat
  BY ReceivedFields DEF Received, ElectionInv, TypeInv, TypeOK
<1>2. InFlight' \subseteq InFlight \cup S
  BY AnswerEffect DEF ElectionInv, TypeInv, TypeOK
<1>3. /\ \A k \in Server \ {m.dst} : /\ current_term'[k] = current_term[k]
                                     /\ voted_for'[k] = voted_for[k]
                                     /\ granted'[k] = granted[k]
      /\ granted'[m.dst] = {}
      /\ \/ current_term'[m.dst] > current_term[m.dst]
         \/ /\ current_term'[m.dst] = current_term[m.dst]
            /\ voted_for'[m.dst] = voted_for[m.dst]
  BY <1>1, FollowLeaderEffect DEF ElectionInv, TypeInv
<1>4. Quiet
  BY <1>2, <1>3 DEF Quiet
<1> QED BY <1>1, <1>3, <1>4, QuietPersistStep

\* RejectMismatch keeps the votes durable and one per term.
LEMMA RejectMismatchElection ==
  ASSUME ElectionInv, TypeInv', NEW m \in Received("append_entries"),
         RejectMismatch(m)
  PROVE  ElectionInv'
<1> DEFINE S == {AppendEntriesReply(m.dst, m.src, m.term, FALSE, 0)}
<1>1. \A x \in S : x.type # "request_vote_reply"
  BY DEF AppendEntriesReply
<1>2. /\ Answer(m, S) /\ FollowLeader(m.dst, m) /\ m.term >= current_term[m.dst]
      /\ UNCHANGED elected /\ Persist(m.dst)
  BY DEF RejectMismatch
<1> HIDE DEF S
<1> QED BY <1>1, <1>2, FollowerAnswersElection

\* AcceptAppend keeps the votes durable and one per term.
LEMMA AcceptAppendElection ==
  ASSUME ElectionInv, TypeInv', NEW m \in Received("append_entries"),
         AcceptAppend(m)
  PROVE  ElectionInv'
<1> DEFINE lg == AppendNewEntries(log[m.dst], m.prev_log_index, m.entries)
           S == {AppendEntriesReply(m.dst, m.src, m.term, TRUE, AckedIndex(m, lg))}
<1>1. \A x \in S : x.type # "request_vote_reply"
  BY DEF AppendEntriesReply
<1>2. /\ Answer(m, S) /\ FollowLeader(m.dst, m) /\ m.term >= current_term[m.dst]
      /\ UNCHANGED elected /\ Persist(m.dst)
  BY DEF AcceptAppend, Accepts
<1> HIDE DEF S
<1> QED BY <1>1, <1>2, FollowerAnswersElection

-----------------------------------------------------------------------------
\* A leader sends requests and no votes.
LEMMA ReplicateIsNoVote ==
  ASSUME NEW n, NEW p
  PROVE  Replicate(n, p).type # "request_vote_reply"
BY DEF Replicate, BuildAppendEntries

\* ClientSubmit keeps the votes durable and one per term.
LEMMA ClientSubmitElection ==
  ASSUME ElectionInv, TypeInv', NEW n \in Server, NEW c \in Command,
         ClientSubmit(n, c)
  PROVE  ElectionInv'
<1>1. PICK free \in SUBSET Peers(n) : Send({Replicate(n, p) : p \in free})
  BY DEF ClientSubmit
<1>2. InFlight' \subseteq InFlight \cup {Replicate(n, p) : p \in free}
  BY <1>1, SendEffect, Zenon DEF ElectionInv, TypeInv, TypeOK
<1>3. UNCHANGED <<current_term, voted_for, roleVars, elected>> /\ Persist(n)
  BY DEF ClientSubmit
<1>4. Quiet
  BY <1>2, <1>3, ReplicateIsNoVote DEF Quiet, roleVars
<1> QED BY <1>3, <1>4, QuietPersistStep

\* BroadcastHeartbeat keeps the votes durable and one per term.
LEMMA BroadcastHeartbeatElection ==
  ASSUME ElectionInv, TypeInv', NEW n \in Server, BroadcastHeartbeat(n)
  PROVE  ElectionInv'
<1>1. PICK free \in SUBSET Peers(n) : Send({Replicate(n, p) : p \in free})
  BY DEF BroadcastHeartbeat
<1>2. InFlight' \subseteq InFlight \cup {Replicate(n, p) : p \in free}
  BY <1>1, SendEffect, Zenon DEF ElectionInv, TypeInv, TypeOK
<1>3. UNCHANGED <<current_term, voted_for, roleVars, elected>> /\ Persist(n)
  BY DEF BroadcastHeartbeat, stateVars
<1>4. Quiet
  BY <1>2, <1>3, ReplicateIsNoVote DEF Quiet, roleVars
<1> QED BY <1>3, <1>4, QuietPersistStep

\* AnswerClient keeps the votes durable and one per term.
LEMMA AnswerClientElection ==
  ASSUME ElectionInv, TypeInv', NEW n \in Server, AnswerClient(n)
  PROVE  ElectionInv'
<1>1. UNCHANGED <<current_term, voted_for, granted, network, elected>> /\ Persist(n)
  BY DEF AnswerClient, stateVars, roleVars
<1>2. Quiet
  BY <1>1 DEF Quiet, InFlight
<1> QED BY <1>1, <1>2, QuietPersistStep

\* AppendRefused keeps the votes durable and one per term.
LEMMA AppendRefusedElection ==
  ASSUME ElectionInv, TypeInv', NEW m \in Received("append_entries_reply"),
         AppendRefused(m)
  PROVE  ElectionInv'
<1>1. m.dst \in Server
  BY ReceivedFields DEF Received, ElectionInv, TypeInv, TypeOK
<1>2. /\ Answer(m, {Replicate(m.dst, m.src)})
      /\ UNCHANGED <<current_term, voted_for, granted, elected>> /\ Persist(m.dst)
  BY DEF AppendRefused, stateVars
<1>3. InFlight' \subseteq InFlight \cup {Replicate(m.dst, m.src)}
  BY <1>2, AnswerEffect, Zenon DEF ElectionInv, TypeInv, TypeOK
<1>4. Quiet
  BY <1>2, <1>3, ReplicateIsNoVote DEF Quiet
<1> QED BY <1>1, <1>2, <1>4, QuietPersistStep

\* A leader that sends the next batch before it advances the commit index
\* writes the old one, and the term and the vote it has.
LEMMA AppendAcknowledgedElection ==
  ASSUME ElectionInv, TypeInv', NEW m \in Received("append_entries_reply"),
         AppendAcknowledged(m)
  PROVE  ElectionInv'
<1> DEFINE n == m.dst
           behind == NextAfterSuccess(n, m)[m.src] <= Len(log[n])
           waiting == Waiting(n, commit_index[n],
                              AdvanceCommitIndex(n, MatchAfter(n, m))) # {}
           S == {Replicate(n, p) : p \in {q \in {m.src} : behind}}
<1>1. n \in Server
  BY ReceivedFields DEF Received, ElectionInv, TypeInv, TypeOK
<1>2. /\ Answer(m, S)
      /\ UNCHANGED <<current_term, voted_for, granted, elected>>
      /\ CASE waiting -> Persist(n)
           [] ~ waiting /\ behind ->
                wal' = [wal EXCEPT ![n] = [term |-> current_term[n],
                                           voted_for |-> voted_for[n],
                                           commit |-> commit_index[n]]]
           [] OTHER -> UNCHANGED wal
  BY DEF AppendAcknowledged
<1>3. \A x \in S : x.type # "request_vote_reply"
  BY ReplicateIsNoVote
<1> HIDE DEF S, behind, waiting
<1>4. InFlight' \subseteq InFlight \cup S
  BY <1>2, AnswerEffect DEF ElectionInv, TypeInv, TypeOK
<1>5. Quiet
  BY <1>2, <1>3, <1>4 DEF Quiet
<1>6. CASE waiting
  BY <1>1, <1>2, <1>5, <1>6, QuietPersistStep
<1>7. CASE ~ waiting /\ behind
  <2>1. wal' = [wal EXCEPT ![n] = [term |-> current_term[n],
                                   voted_for |-> voted_for[n],
                                   commit |-> commit_index[n]]]
    BY <1>2, <1>7
  <2>2. /\ \A k \in Server \ {n} : wal'[k] = wal[k]
        /\ wal'[n].term = current_term'[n]
        /\ wal'[n].voted_for = voted_for'[n]
    BY <1>1, <1>2, <2>1 DEF ElectionInv, TypeInv, TypeOK
  <2>3. WalBehind' /\ WalForward
    BY <1>1, <1>2, <2>2, ExposedWal DEF ElectionInv, TypeInv
  <2> QED BY <1>5, <2>3, QuietStep
<1>8. CASE ~ waiting /\ ~ behind
  BY <1>2, <1>5, <1>8, QuietUnpersistedStep
<1> QED BY <1>6, <1>7, <1>8

-----------------------------------------------------------------------------
\* Recovery makes the node what its WAL says, and no record it leaves there
\* takes back a vote.
LEMMA RecoverElection ==
  ASSUME ElectionInv, TypeInv', NEW n \in Server, NEW lg, NEW record \in WalRecord,
         Recover(n, lg, record), InFlight' \subseteq InFlight,
         record.term >= wal[n].term, record.voted_for = wal[n].voted_for
  PROVE  ElectionInv'
<1> USE DEF ElectionInv, TypeInv, TypeOK
<1>1. /\ wal' = [wal EXCEPT ![n] = record]
      /\ current_term' = [current_term EXCEPT ![n] = record.term]
      /\ voted_for' = [voted_for EXCEPT ![n] = record.voted_for]
      /\ BecomeFollower(n) /\ UNCHANGED elected
  BY DEF Recover
<1>2. Quiet
  BY <1>1 DEF BecomeFollower, Quiet
<1>3. wal[n].term \in Nat /\ record.term \in Nat
  BY DEF WalRecord
<1>4. WalForward
  <2> SUFFICES ASSUME NEW k \in Server
               PROVE  \/ wal'[k].term > wal[k].term
                      \/ /\ wal'[k].term = wal[k].term
                         /\ wal[k].voted_for # Nil => wal'[k].voted_for = wal[k].voted_for
    BY DEF WalForward
  <2>1. CASE k = n
    BY <1>1, <1>3, <2>1
  <2>2. CASE k # n
    BY <1>1, <2>2
  <2> QED BY <2>1, <2>2
<1>5. WalBehind'
  <2> SUFFICES ASSUME NEW k \in Server
               PROVE  /\ wal'[k].term <= current_term'[k]
                      /\ wal'[k].term = current_term'[k] =>
                           wal'[k].voted_for = voted_for'[k]
    BY DEF WalBehind
  <2>1. CASE k = n
    BY <1>1, <1>3, <2>1
  <2>2. CASE k # n
    BY <1>1, <2>2 DEF WalBehind
  <2> QED BY <2>1, <2>2
<1> QED BY <1>2, <1>4, <1>5, QuietStep

\* Restart keeps the votes durable and one per term.
LEMMA RestartElection ==
  ASSUME ElectionInv, TypeInv', NEW n \in Server, Restart(n)
  PROVE  ElectionInv'
<1>1. Recover(n, log[n], wal[n]) /\ InFlight' \subseteq InFlight
  BY DEF Restart, InFlight
<1>2. wal[n] \in WalRecord /\ wal[n].term \in Nat
  BY DEF ElectionInv, TypeInv, TypeOK, WalRecord
<1> QED BY <1>1, <1>2, RecoverElection

\* TornAppend keeps the votes durable and one per term.
LEMMA TornAppendElection ==
  ASSUME ElectionInv, TypeInv', NEW m \in Received("append_entries"), TornAppend(m)
  PROVE  ElectionInv'
<1> DEFINE n == m.dst
           lg == AppendNewEntries(log[n], m.prev_log_index, m.entries)
           kept == KeptLength(log[n], m.prev_log_index, m.entries)
<1>1. TypeInv
  BY DEF ElectionInv
<1>2. n \in Server
  BY <1>1, ReceivedFields DEF Received, TypeInv, TypeOK
<1>3. lg \in Log /\ kept \in Nat /\ kept <= Len(lg)
  BY <1>1, AcceptedMerge, Zenon DEF TornAppend
<1>4. Len(lg) \in Nat
  BY <1>3, LenProperties DEF Log
<1>5. PICK written \in kept..Len(lg) :
         LET torn == SubSeq(lg, 1, written)
         IN  Recover(n, torn, IF written > kept THEN Journalled(n, torn) ELSE wal[n])
  BY DEF TornAppend
<1> HIDE DEF lg, kept
<1> DEFINE torn == SubSeq(lg, 1, written)
           record == IF written > kept THEN Journalled(n, torn) ELSE wal[n]
<1>6. torn \in Log
  BY <1>3, <1>4, PrefixType
<1>7. /\ record \in WalRecord
      /\ record.term >= wal[n].term
      /\ record.voted_for = wal[n].voted_for
  <2> HIDE DEF torn
  <2>1. wal[n] \in WalRecord /\ wal[n].term \in Nat
    BY <1>1, <1>2 DEF TypeInv, TypeOK, WalRecord
  <2> QED BY <1>1, <1>2, <1>6, <2>1, JournalledType
<1>8. Recover(n, torn, record)
  BY <1>5
<1>9. InFlight' \subseteq InFlight
  BY <1>1, DiscardEffect DEF TornAppend, TypeInv, TypeOK
<1> HIDE DEF record, torn
<1> QED BY <1>2, <1>7, <1>8, <1>9, RecoverElection

-----------------------------------------------------------------------------
(***************************************************************************)
(* Steps that count votes and steps that cast one.                         *)
(***************************************************************************)
\* A counted vote was in the envelope.
LEMMA TallyIsPromised ==
  ASSUME TypeOK, NEW m \in Received("request_vote_reply"),
         m.term = current_term[m.dst], NEW v \in Tally(m.dst, m)
  PROVE  Promised(v, current_term[m.dst], m.dst)
BY DEF Tally, Promised

\* CountVote keeps the votes durable and one per term.
LEMMA CountVoteElection ==
  ASSUME ElectionInv, TypeInv', NEW m \in Received("request_vote_reply"), CountVote(m)
  PROVE  ElectionInv'
<1> DEFINE n == m.dst
<1> USE DEF ElectionInv, TypeInv
<1>1. n \in Server
  BY ReceivedFields DEF Received, TypeOK
<1>2. /\ m.term = current_term[n]
      /\ granted' = [granted EXCEPT ![n] = Tally(n, m)]
      /\ UNCHANGED <<current_term, voted_for, wal, elected>>
  BY DEF CountVote, stateVars
<1>3. InFlight' \subseteq InFlight
  BY DiscardEffect DEF CountVote, TypeOK
<1>4. NoNewPromise
  <2> SUFFICES ASSUME NEW v \in Server, NEW c \in Server, NEW t \in Nat,
                      Promised(v, t, c)'
               PROVE  Promised(v, t, c)
    BY DEF NoNewPromise
  <2>1. CASE v \in granted'[c] /\ t = current_term'[c]
    <3>1. CASE c = n
      <4>1. v \in Tally(n, m) /\ t = current_term[n]
        BY <1>1, <1>2, <2>1, <3>1 DEF TypeOK
      <4> QED BY <1>2, <3>1, <4>1, TallyIsPromised
    <3>2. CASE c # n
      BY <1>2, <2>1, <3>2 DEF Promised, TypeOK
    <3> QED BY <3>1, <3>2
  <2>2. CASE ~ (v \in granted'[c] /\ t = current_term'[c])
    BY <1>2, <1>3, <2>2 DEF Promised, Received
  <2> QED BY <2>1, <2>2
<1>5. WalForward /\ WalBehind'
  BY <1>2 DEF WalForward, WalBehind
<1>6. VotesDurable' /\ OneVotePerTerm'
  BY <1>4, <1>5, NoNewPromiseStep
<1>7. VotersAreMajority'
  BY <1>2 DEF VotersAreMajority, IsMajority
<1> QED BY <1>5, <1>6, <1>7

\* WinElection keeps the votes durable and one per term.
LEMMA WinElectionElection ==
  ASSUME ElectionInv, TypeInv', NEW m \in Received("request_vote_reply"), WinElection(m)
  PROVE  ElectionInv'
<1> DEFINE n == m.dst
           lg == Append(log[n], [term |-> current_term[n], command |-> NoOp])
           S == {BuildAppendEntries(n, p, current_term[n], lg, Len(log[n]) + 1,
                                    commit_index[n]) : p \in Peers(n)}
           win == [term |-> current_term[n], leader |-> n, voters |-> Tally(n, m)]
<1> USE DEF ElectionInv, TypeInv
<1>1. n \in Server
  BY ReceivedFields DEF Received, TypeOK
<1>2. /\ m.term = current_term[n]
      /\ IsMajority(Tally(n, m))
      /\ granted' = [granted EXCEPT ![n] = {}]
      /\ elected' = elected \cup {win}
      /\ Answer(m, S)
      /\ UNCHANGED <<current_term, voted_for>>
      /\ Persist(n)
  BY DEF WinElection
<1>3. \A x \in S : x.type # "request_vote_reply"
  BY DEF BuildAppendEntries
<1> HIDE DEF S
<1>4. InFlight' \subseteq InFlight \cup S
  BY <1>2, AnswerEffect DEF TypeOK
<1>5. NoNewPromise
  <2> SUFFICES ASSUME NEW v \in Server, NEW c \in Server, NEW t \in Nat,
                      Promised(v, t, c)'
               PROVE  Promised(v, t, c)
    BY DEF NoNewPromise
  <2>1. CASE \E x \in Received("request_vote_reply")' :
                x.vote_granted /\ x.src = v /\ x.term = t /\ x.dst = c
    BY <1>3, <1>4, <2>1 DEF Promised, Received
  <2>2. CASE v \in granted'[c] /\ t = current_term'[c]
    BY <1>1, <1>2, <2>2 DEF Promised, TypeOK
  <2>3. CASE \E e \in elected' : e.term = t /\ e.leader = c /\ v \in e.voters
    <3>1. PICK e \in elected' : e.term = t /\ e.leader = c /\ v \in e.voters
      BY <2>3
    <3>2. CASE e \in elected
      BY <3>1, <3>2 DEF Promised
    <3>3. CASE e = win
      <4>1. t = current_term[n] /\ c = n /\ v \in Tally(n, m)
        BY <3>1, <3>3
      <4> QED BY <1>2, <4>1, TallyIsPromised
    <3> QED BY <1>2, <3>1, <3>2, <3>3
  <2> QED BY <2>1, <2>2, <2>3 DEF Promised
<1>6. WalBehind' /\ WalForward
  <2>1. /\ \A k \in Server \ {n} : wal'[k] = wal[k]
        /\ wal'[n].term = current_term'[n]
        /\ wal'[n].voted_for = voted_for'[n]
    BY <1>1, <1>2 DEF Persist, TypeOK
  <2> QED BY <1>1, <1>2, <2>1, ExposedWal
<1>7. VotesDurable' /\ OneVotePerTerm'
  BY <1>5, <1>6, NoNewPromiseStep
<1>8. VotersAreMajority'
  <2> SUFFICES ASSUME NEW e \in elected' PROVE IsMajority(e.voters)'
    BY DEF VotersAreMajority
  <2>1. IsMajority(e.voters)
    BY <1>2 DEF VotersAreMajority
  <2> QED BY <2>1 DEF IsMajority
<1> QED BY <1>6, <1>7, <1>8

\* StartElection keeps the votes durable and one per term.
LEMMA StartElectionElection ==
  ASSUME ElectionInv, TypeInv', NEW n \in Server, StartElection(n)
  PROVE  ElectionInv'
<1> DEFINE S == {RequestVote(n, p, current_term[n] + 1,
                             Len(log[n]), LastTerm(log[n])) : p \in Peers(n)}
<1> USE DEF ElectionInv, TypeInv
<1>1. /\ current_term' = [current_term EXCEPT ![n] = @ + 1]
      /\ voted_for' = [voted_for EXCEPT ![n] = n]
      /\ granted' = [granted EXCEPT ![n] = {n}]
      /\ Send(S) /\ UNCHANGED elected /\ Persist(n)
  BY DEF StartElection
<1>2. \A x \in S : x.type # "request_vote_reply"
  BY DEF RequestVote
<1> HIDE DEF S
<1>3. InFlight' \subseteq InFlight \cup S
  BY <1>1, SendEffect DEF TypeOK
<1>4. current_term[n] \in Nat /\ current_term'[n] = current_term[n] + 1
  BY <1>1 DEF TypeOK
<1>5. /\ \A k \in Server \ {n} : /\ wal'[k] = wal[k]
                                 /\ current_term'[k] = current_term[k]
                                 /\ voted_for'[k] = voted_for[k]
      /\ wal'[n].term = current_term'[n]
      /\ wal'[n].voted_for = voted_for'[n]
      /\ voted_for'[n] = n
  BY <1>1 DEF Persist, TypeOK
<1>6. WalBehind' /\ WalForward
  BY <1>4, <1>5, ExposedWal
<1>7. \A v, c \in Server, t \in Nat :
         Promised(v, t, c)' => \/ Promised(v, t, c)
                               \/ v = n /\ t = current_term[n] + 1 /\ c = n
  <2> SUFFICES ASSUME NEW v \in Server, NEW c \in Server, NEW t \in Nat,
                      Promised(v, t, c)'
               PROVE  \/ Promised(v, t, c)
                      \/ v = n /\ t = current_term[n] + 1 /\ c = n
    OBVIOUS
  <2>1. CASE v \in granted'[c] /\ t = current_term'[c]
    <3>1. CASE c = n
      <4>1. granted'[n] = {n}
        BY <1>1 DEF TypeOK
      <4> QED BY <1>4, <2>1, <3>1, <4>1
    <3>2. CASE c # n
      <4>1. granted'[c] = granted[c] /\ current_term'[c] = current_term[c]
        BY <1>1, <3>2 DEF TypeOK
      <4> QED BY <2>1, <4>1 DEF Promised
    <3> QED BY <3>1, <3>2
  <2>2. CASE ~ (v \in granted'[c] /\ t = current_term'[c])
    BY <1>1, <1>2, <1>3, <2>2 DEF Promised, Received
  <2> QED BY <2>1, <2>2
<1>8. VotesDurable' /\ OneVotePerTerm'
  BY <1>4, <1>5, <1>6, <1>7, NewPromiseStep
<1>9. VotersAreMajority'
  BY <1>1 DEF VotersAreMajority, IsMajority
<1> QED BY <1>6, <1>8, <1>9

\* HandleRequestVote keeps the votes durable and one per term.
LEMMA HandleRequestVoteElection ==
  ASSUME ElectionInv, TypeInv', NEW m \in Received("request_vote"),
         HandleRequestVote(m)
  PROVE  ElectionInv'
<1> DEFINE n == m.dst
           grants == GrantsVote(n, m)
           reply == RequestVoteReply(n, m.src, current_term'[n], grants)
<1> USE DEF ElectionInv, TypeInv
<1>1. n \in Server /\ m.src \in Server /\ m.term \in Nat /\ current_term[n] \in Nat
  BY ReceivedFields DEF Received, TypeOK
<1>2. /\ voted_for' = [voted_for EXCEPT
                         ![n] = IF grants THEN m.src ELSE VoteIn(n, m.term)]
      /\ Answer(m, {reply}) /\ UNCHANGED elected /\ Persist(n)
  BY DEF HandleRequestVote
<1>3. /\ \A k \in Server \ {n} : /\ current_term'[k] = current_term[k]
                                 /\ granted'[k] = granted[k]
      /\ \/ /\ m.term > current_term[n]
            /\ current_term'[n] = m.term /\ granted'[n] = {}
         \/ /\ m.term <= current_term[n]
            /\ current_term'[n] = current_term[n] /\ granted'[n] = granted[n]
  <2>1. CASE m.term > current_term[n]
    <3>1. BecomeFollower(n) /\ current_term' = [current_term EXCEPT ![n] = m.term]
      BY <2>1 DEF HandleRequestVote
    <3>2. granted' = [granted EXCEPT ![n] = {}]
      BY <3>1 DEF BecomeFollower
    <3> QED BY <1>1, <2>1, <3>1, <3>2 DEF TypeOK
  <2>2. CASE ~ (m.term > current_term[n])
    <3>1. UNCHANGED <<current_term, granted>>
      BY <2>2 DEF HandleRequestVote, roleVars
    <3> QED BY <1>1, <2>2, <3>1
  <2> QED BY <2>1, <2>2
<1>4. /\ reply.type = "request_vote_reply" /\ reply.src = n /\ reply.dst = m.src
      /\ reply.term = current_term'[n] /\ reply.vote_granted = grants
  BY DEF RequestVoteReply
<1>5. grants => /\ m.term >= current_term[n]
                /\ VoteIn(n, m.term) \in {Nil, m.src}
  BY DEF GrantsVote
<1> HIDE DEF reply, grants
<1>6. InFlight' \subseteq InFlight \cup {reply}
  BY <1>2, AnswerEffect DEF TypeOK
<1>7. /\ \A k \in Server \ {n} : wal'[k] = wal[k] /\ voted_for'[k] = voted_for[k]
      /\ wal'[n].term = current_term'[n]
      /\ wal'[n].voted_for = voted_for'[n]
      /\ voted_for'[n] = IF grants THEN m.src ELSE VoteIn(n, m.term)
  BY <1>1, <1>2 DEF Persist, TypeOK
<1>8. \/ current_term'[n] > current_term[n]
      \/ /\ current_term'[n] = current_term[n]
         /\ voted_for[n] # Nil => voted_for'[n] = voted_for[n]
  BY <1>1, <1>3, <1>5, <1>7 DEF VoteIn
<1>9. WalBehind' /\ WalForward
  BY <1>1, <1>3, <1>7, <1>8, ExposedWal
<1>10. \A v, c \in Server, t \in Nat :
          Promised(v, t, c)' =>
             \/ Promised(v, t, c)
             \/ grants /\ v = n /\ t = current_term'[n] /\ c = m.src
  BY <1>1, <1>2, <1>3, <1>4, <1>6 DEF Promised, Received
<1>11. VotesDurable' /\ OneVotePerTerm'
  <2>1. CASE grants
    <3>1. /\ current_term'[n] \in Nat /\ voted_for'[n] = m.src
          /\ \/ current_term'[n] > current_term[n]
             \/ /\ current_term'[n] = current_term[n]
                /\ voted_for[n] \in {Nil, m.src}
      BY <1>1, <1>3, <1>5, <1>7, <2>1 DEF VoteIn
    <3> DEFINE term == current_term'[n]
    <3>2. \A v, c \in Server, t \in Nat :
             Promised(v, t, c)' => \/ Promised(v, t, c)
                                   \/ v = n /\ t = term /\ c = m.src
      BY <1>10
    <3>3. term \in Nat /\ wal'[n].term = term /\ wal'[n].voted_for = m.src
      BY <1>7, <3>1
    <3>4. \/ term > current_term[n]
          \/ term = current_term[n] /\ voted_for[n] \in {Nil, m.src}
      BY <3>1
    <3> HIDE DEF term
    <3> QED BY <1>1, <1>9, <3>2, <3>3, <3>4, NewPromiseStep
  <2>2. CASE ~ grants
    <3>1. NoNewPromise
      BY <1>10, <2>2 DEF NoNewPromise
    <3> QED BY <1>9, <3>1, NoNewPromiseStep
  <2> QED BY <2>1, <2>2
<1>12. VotersAreMajority'
  BY <1>2 DEF VotersAreMajority, IsMajority
<1> QED BY <1>9, <1>11, <1>12

-----------------------------------------------------------------------------
\* Nobody has promised anything when the cluster starts.
LEMMA InitElection == Init => ElectionInv
<1> SUFFICES ASSUME Init PROVE ElectionInv
  OBVIOUS
<1>1. TypeInv
  BY InitType
<1>2. InFlight = {} /\ elected = {} /\ \A c \in Server : granted[c] = {}
  BY DEF Init, InFlight, EmptyBag, SetToBag, BagToSet
<1>3. Promises = {}
  BY <1>2 DEF Promises, Told, Counted, Decisive, Received
<1>4. WalBehind
  BY DEF Init, WalBehind
<1>5. VotersAreMajority
  BY <1>2 DEF VotersAreMajority
<1> QED BY <1>1, <1>3, <1>4, <1>5 DEF ElectionInv, VotesDurable, OneVotePerTerm

\* Every step of every node, a crash in the middle of a merge included, keeps
\* the votes durable and one per term.
LEMMA NextElection == ElectionInv /\ [Next]_vars => ElectionInv'
<1> SUFFICES ASSUME ElectionInv, [Next]_vars PROVE ElectionInv'
  OBVIOUS
<1>0. TypeInv'
  BY NextType DEF ElectionInv
<1>1. CASE \E n \in Server : StartElection(n)
  BY <1>0, <1>1, StartElectionElection
<1>2. CASE \E m \in Received("request_vote") : HandleRequestVote(m)
  BY <1>0, <1>2, HandleRequestVoteElection
<1>3. CASE \E m \in Received("request_vote_reply") : HandleVoteReply(m)
  <2>1. PICK m \in Received("request_vote_reply") : HandleVoteReply(m)
    BY <1>3
  <2>2. CASE StepDownOnReply(m)
    BY <1>0, <2>2, StepDownOnReplyElection DEF Received
  <2>3. CASE IgnoreVote(m)
    BY <1>0, <2>3, DiscardOnlyElection DEF IgnoreVote
  <2>4. CASE CountVote(m)
    BY <1>0, <2>4, CountVoteElection
  <2>5. CASE WinElection(m)
    BY <1>0, <2>5, WinElectionElection
  <2> QED BY <2>1, <2>2, <2>3, <2>4, <2>5 DEF HandleVoteReply
<1>4. CASE \E m \in Received("append_entries") : HandleAppendEntries(m)
  <2>1. PICK m \in Received("append_entries") : HandleAppendEntries(m)
    BY <1>4
  <2>2. CASE RejectStaleAppend(m)
    BY <1>0, <2>2, RejectStaleAppendElection
  <2>3. CASE RejectMismatch(m)
    BY <1>0, <2>3, RejectMismatchElection
  <2>4. CASE AcceptAppend(m)
    BY <1>0, <2>4, AcceptAppendElection
  <2>5. CASE TornAppend(m)
    BY <1>0, <2>5, TornAppendElection
  <2> QED BY <2>1, <2>2, <2>3, <2>4, <2>5 DEF HandleAppendEntries
<1>5. CASE \E m \in Received("append_entries_reply") : HandleAppendReply(m)
  <2>1. PICK m \in Received("append_entries_reply") : HandleAppendReply(m)
    BY <1>5
  <2>2. CASE StepDownOnReply(m)
    BY <1>0, <2>2, StepDownOnReplyElection DEF Received
  <2>3. CASE IgnoreAppendReply(m)
    BY <1>0, <2>3, DiscardOnlyElection DEF IgnoreAppendReply
  <2>4. CASE AppendAcknowledged(m)
    BY <1>0, <2>4, AppendAcknowledgedElection
  <2>5. CASE AppendRefused(m)
    BY <1>0, <2>5, AppendRefusedElection
  <2> QED BY <2>1, <2>2, <2>3, <2>4, <2>5 DEF HandleAppendReply
<1>6. CASE \E n \in Server, c \in Command : ClientSubmit(n, c)
  BY <1>0, <1>6, ClientSubmitElection
<1>7. CASE \E n \in Server : BroadcastHeartbeat(n)
  BY <1>0, <1>7, BroadcastHeartbeatElection
<1>8. CASE \E n \in Server : AnswerClient(n)
  BY <1>0, <1>8, AnswerClientElection
<1>9. CASE \E n \in Server : Restart(n)
  BY <1>0, <1>9, RestartElection
<1>10. CASE \E m \in InFlight : Lose(m)
  BY <1>0, <1>10, DiscardOnlyElection DEF Lose
<1>11. CASE UNCHANGED vars
  <2>1. Quiet /\ UNCHANGED <<wal, current_term, voted_for>>
    BY <1>11 DEF Quiet, InFlight, vars, stateVars, roleVars
  <2> QED BY <1>0, <2>1, QuietUnpersistedStep
<1> QED BY <1>1, <1>2, <1>3, <1>4, <1>5, <1>6, <1>7, <1>8, <1>9, <1>10, <1>11
  DEF Next

\* The inductive invariant holds of every reachable state.
LEMMA ElectionInvariant == Spec => []ElectionInv
BY InitElection, NextElection, PTL DEF Spec

\* A vote anybody has been told of, or has counted, is in the WAL of its voter
\* from that moment on, whenever the voter dies.
THEOREM VotesAreDurable == Spec => []VotesDurable
BY ElectionInvariant, PTL DEF ElectionInv

\* No server votes for two candidates in a term, restarts included.
THEOREM ServersVoteOncePerTerm == Spec => []OneVotePerTerm
BY ElectionInvariant, PTL DEF ElectionInv

\* Two majorities of the same cluster share a server.
LEMMA MajoritiesIntersect ==
  ASSUME NEW S \in SUBSET Server, NEW T \in SUBSET Server,
         IsMajority(S), IsMajority(T)
  PROVE  \E v \in Server : v \in S /\ v \in T
<1>1. /\ Cardinality(Server) \in Nat
      /\ Cardinality(S) \in Nat /\ Cardinality(T) \in Nat
  BY ServerAssumption, FS_CardinalityType, FS_Subset
<1>2. /\ Cardinality(S) >= Cardinality(Server) \div 2 + 1
      /\ Cardinality(T) >= Cardinality(Server) \div 2 + 1
  BY DEF IsMajority, Majority
<1>3. Cardinality(S) + Cardinality(T) > Cardinality(Server)
  BY <1>1, <1>2
<1>4. S \cap T # {}
  BY <1>3, ServerAssumption, FS_MajoritiesIntersect
<1> QED BY <1>4

\* At most one server wins the election of a term: the two majorities share a
\* voter, whose promise is one.
LEMMA OneVoteMeansOneLeader == ElectionInv => ElectionSafety
<1> SUFFICES ASSUME ElectionInv, NEW e \in elected, NEW f \in elected, e.term = f.term
             PROVE  e.leader = f.leader
  BY DEF ElectionSafety
<1>1. /\ e.voters \in SUBSET Server /\ f.voters \in SUBSET Server
      /\ e.term \in Nat /\ e.leader \in Server /\ f.leader \in Server
  BY DEF ElectionInv, TypeInv, TypeOK
<1>2. PICK v \in Server : v \in e.voters /\ v \in f.voters
  BY <1>1, MajoritiesIntersect DEF ElectionInv, VotersAreMajority
<1>3. Promised(v, e.term, e.leader) /\ Promised(v, e.term, f.leader)
  BY <1>2 DEF Promised
<1>4. OneVoteOneByOne
  BY OneVoteMeans DEF ElectionInv, TypeInv
<1> QED BY <1>1, <1>3, <1>4 DEF OneVoteOneByOne

\* At most one server wins the election of a term, for any cluster, any number
\* of crashes and any loss or reordering of messages (node.py _restore,
\* obligation 1).
THEOREM OneLeaderPerTerm == Spec => []ElectionSafety
BY ElectionInvariant, OneVoteMeansOneLeader, PTL

-----------------------------------------------------------------------------
(***************************************************************************)
(* Logs that hold an entry of one term at one index agree up to it.        *)
(*                                                                         *)
(* Every log, and every batch in flight, is a piece of the log some leader *)
(* had at some time.  A set H of such histories stands for those logs:     *)
(* whichever two of them share an entry agree up to it.  Only a leader     *)
(* that appends adds to H; what a follower merges, or finds again after a  *)
(* crash in the middle of a merge, is a prefix of a history that was there.*)
(***************************************************************************)
\* lg is how L begins.
PrefixOf(lg, L) ==
    Len(lg) <= Len(L) /\ \A i \in 1..Len(lg) : lg[i] = L[i]

\* The request holds what L holds at its place, and the entry before.
SliceOf(m, L) ==
    /\ m.prev_log_index + Len(m.entries) <= Len(L)
    /\ TermAt(L, m.prev_log_index) = m.prev_log_term
    /\ \A k \in 1..Len(m.entries) : m.entries[k] = L[m.prev_log_index + k]

\* An entry of one term at one index comes with all those before it.
Agree(K, L) ==
    \A i \in 1..Len(K) :
        i <= Len(L) /\ K[i].term = L[i].term => \A j \in 1..i : K[j] = L[j]

\* Logs that explain every log and every request there is.
Histories(H) ==
    /\ H \subseteq Log
    /\ \A K, L \in H : Agree(K, L)
    /\ \A n \in Server : \E L \in H : PrefixOf(log[n], L)
    /\ \A m \in Received("append_entries") : \E L \in H : SliceOf(m, L)
    /\ \A L \in H : \A i \in 1..Len(L) : \E e \in elected : e.term = L[i].term
    /\ \A L \in H : \A i \in 1..Len(L) : \A l \in Server :
          role[l] = "leader" /\ L[i].term = current_term[l] => i <= Len(log[l])

\* A leader is the winner of its term, a candidate has not won its own yet, and
\* whoever won voted for itself.
RolesAreEarned ==
    \A n \in Server :
        /\ role[n] = "leader" => \E e \in elected : e.leader = n /\ e.term = current_term[n]
        /\ role[n] = "candidate" =>
              /\ n \in granted[n]
              /\ \A e \in elected : e.leader = n => e.term # current_term[n]
        /\ \A e \in elected : e.leader = n => n \in e.voters

\* Some set of logs does.
HistoriesExist == \E H \in SUBSET Log : Histories(H)

\* The invariant.
LogInv == ElectionInv /\ RolesAreEarned /\ HistoriesExist

\* Steps after which the leaders are leaders of before, in the term they had and
\* with all they had in their log.
NobodyWins ==
    /\ elected' = elected
    /\ \A k \in Server : role'[k] = "leader" =>
          /\ role[k] = "leader" /\ current_term'[k] = current_term[k]
          /\ Len(log[k]) <= Len(log'[k])

\* The same of the candidates and the votes they count.
NobodyRuns ==
    \A k \in Server : role'[k] = "candidate" =>
        /\ role[k] = "candidate" /\ current_term'[k] = current_term[k]
        /\ granted[k] \subseteq granted'[k]

\* What is in flight beside what was is cut from a log of a leader.
RequestsAreSlices ==
    \A m \in Received("append_entries")' :
        \/ m \in Received("append_entries")
        \/ \E k \in Server : SliceOf(m, log'[k])

-----------------------------------------------------------------------------
(***************************************************************************)
(* Prefixes, slices and merges.                                            *)
(***************************************************************************)
\* The prefix of a prefix is one.
LEMMA PrefixTransitive ==
  ASSUME NEW K \in Log, NEW L \in Log, NEW M \in Log, PrefixOf(K, L), PrefixOf(L, M)
  PROVE  PrefixOf(K, M)
<1>1. Len(K) \in Nat /\ Len(L) \in Nat /\ Len(M) \in Nat
  BY LenProperties DEF Log
<1> QED BY <1>1 DEF PrefixOf

\* A log begins with itself.
LEMMA PrefixReflexive ==
  ASSUME NEW L \in Log
  PROVE  PrefixOf(L, L)
<1>1. Len(L) \in Nat
  BY LenProperties DEF Log
<1> QED BY <1>1 DEF PrefixOf

\* The first entries of a log.
LEMMA PrefixCut ==
  ASSUME NEW L \in Log, NEW len \in 0..Len(L)
  PROVE  SubSeq(L, 1, len) \in Log /\ PrefixOf(SubSeq(L, 1, len), L)
<1>1. Len(L) \in Nat /\ \A i \in 1..len : L[i] \in Entry
  BY LenProperties, ElementOfSeq DEF Log
<1>2. /\ SubSeq(L, 1, len) \in Seq(Entry)
      /\ Len(SubSeq(L, 1, len)) = len
      /\ \A i \in 1..len : SubSeq(L, 1, len)[i] = L[i]
  BY <1>1, SubSeqProperties
<1> QED BY <1>1, <1>2 DEF PrefixOf, Log

\* Prefixes of histories that agree, agree.
LEMMA PrefixesAgree ==
  ASSUME NEW k \in Log, NEW l \in Log, NEW K \in Log, NEW L \in Log,
         PrefixOf(k, K), PrefixOf(l, L), Agree(K, L)
  PROVE  Agree(k, l)
<1>1. Len(k) \in Nat /\ Len(l) \in Nat /\ Len(K) \in Nat /\ Len(L) \in Nat
  BY LenProperties DEF Log
<1> SUFFICES ASSUME NEW i \in 1..Len(k), i <= Len(l), k[i].term = l[i].term,
                    NEW j \in 1..i
             PROVE  k[j] = l[j]
  BY DEF Agree
<1>2. k[i] = K[i] /\ l[i] = L[i] /\ k[j] = K[j] /\ l[j] = L[j]
  BY <1>1 DEF PrefixOf
<1>3. i \in 1..Len(K) /\ i <= Len(L)
  BY <1>1 DEF PrefixOf
<1> QED BY <1>2, <1>3 DEF Agree

\* A slice of the beginning of a log is a slice of the log.
LEMMA SliceOfPrefix ==
  ASSUME NEW m, m.prev_log_index \in Nat, m.entries \in Seq(Entry),
         NEW K \in Log, NEW L \in Log, SliceOf(m, K), PrefixOf(K, L)
  PROVE  SliceOf(m, L)
<1>1. Len(K) \in Nat /\ Len(L) \in Nat /\ Len(m.entries) \in Nat
  BY LenProperties DEF Log
<1>2. TermAt(L, m.prev_log_index) = TermAt(K, m.prev_log_index)
  BY <1>1 DEF TermAt, PrefixOf, SliceOf
<1>3. ASSUME NEW k \in 1..Len(m.entries)
      PROVE  m.entries[k] = L[m.prev_log_index + k]
  <2>1. m.prev_log_index + k \in 1..Len(K)
    BY <1>1 DEF SliceOf
  <2>2. K[m.prev_log_index + k] = L[m.prev_log_index + k]
    BY <2>1 DEF PrefixOf
  <2> QED BY <2>2 DEF SliceOf
<1>4. m.prev_log_index + Len(m.entries) <= Len(L)
  BY <1>1 DEF PrefixOf, SliceOf
<1>5. TermAt(L, m.prev_log_index) = m.prev_log_term
  BY <1>2 DEF SliceOf
<1> QED BY <1>3, <1>4, <1>5 DEF SliceOf

\* What build_append_entries takes from a log.
LEMMA BuiltFromLog ==
  ASSUME NEW n, NEW p, NEW term, NEW lg \in Log, NEW next \in Nat \ {0}, NEW commit
  PROVE  LET m == BuildAppendEntries(n, p, term, lg, next, commit)
         IN  m.prev_log_index \in Nat /\ m.entries \in Seq(Entry) /\ SliceOf(m, lg)
<1> DEFINE start == Max({next - 1, 0})
           prev == Min({start, Len(lg)})
           last == Min({Len(lg), prev + MaxBatch})
           m == BuildAppendEntries(n, p, term, lg, next, commit)
<1>1. Len(lg) \in Nat
  BY LenProperties DEF Log
<1>2. prev \in 0..Len(lg)
  <2>1. start \in Nat
    BY MaxOfTwo, next - 1 \in Nat
  <2> HIDE DEF start
  <2> QED BY <1>1, <2>1, MinOfTwo
<1>3. /\ m.prev_log_index = prev /\ m.prev_log_term = TermAt(lg, prev)
      /\ m.entries = SubSeq(lg, prev + 1, last)
  BY DEF BuildAppendEntries, Batch
<1> HIDE DEF m, prev
<1>4. last \in prev..Len(lg)
  BY <1>1, <1>2, MinOfTwo, BatchAssumption
<1> HIDE DEF last
<1>5. \A i \in prev + 1..last : lg[i] \in Entry
  BY <1>1, <1>2, <1>4, ElementOfSeq DEF Log
<1>6. /\ SubSeq(lg, prev + 1, last) \in Seq(Entry)
      /\ Len(SubSeq(lg, prev + 1, last)) = last - prev
      /\ \A k \in 1..last - prev : SubSeq(lg, prev + 1, last)[k] = lg[prev + k]
  <2> DEFINE first == prev + 1
  <2>1. first \in Int /\ last \in Int /\ \A i \in first..last : lg[i] \in Entry
    BY <1>2, <1>4, <1>5
  <2> HIDE DEF first
  <2>2. /\ SubSeq(lg, first, last) \in Seq(Entry)
        /\ Len(SubSeq(lg, first, last)) = IF first <= last THEN last - first + 1 ELSE 0
        /\ \A i \in 1..last - first + 1 : SubSeq(lg, first, last)[i] = lg[first + i - 1]
    BY <2>1, SubSeqProperties
  <2>3. first = prev + 1
    BY DEF first
  <2> QED BY <1>2, <1>4, <2>2, <2>3
<1>7. SliceOf(m, lg)
  BY <1>1, <1>2, <1>3, <1>4, <1>6 DEF SliceOf
<1> QED BY <1>2, <1>3, <1>6, <1>7 DEF m

\* What append_new_entries makes of a log and a request: the log as it was, that
\* has all the request holds, or the request and all that precedes it.
LEMMA MergeEither ==
  ASSUME NEW m, NEW lg \in Log, NEW K \in Log, NEW L \in Log,
         m.prev_log_index \in Nat, m.entries \in Seq(Entry),
         PrefixOf(lg, K), SliceOf(m, L), Agree(K, L),
         HasEntry(lg, m.prev_log_index, m.prev_log_term)
  PROVE  LET merged == AppendNewEntries(lg, m.prev_log_index, m.entries)
         IN  \/ /\ merged = lg
                /\ Disagreements(lg, m.prev_log_index, m.entries) = {}
             \/ /\ PrefixOf(merged, L)
                /\ Len(merged) = m.prev_log_index + Len(m.entries)
<1> DEFINE prev == m.prev_log_index
           batch == m.entries
           D == Disagreements(lg, prev, batch)
           kept == KeptLength(lg, prev, batch)
           merged == AppendNewEntries(lg, prev, batch)
<1>1. /\ Len(lg) \in Nat /\ Len(K) \in Nat /\ Len(L) \in Nat /\ Len(batch) \in Nat
      /\ lg \in Seq(Entry) /\ batch \in Seq(Entry)
  BY LenProperties DEF Log
<1>2. /\ prev \in 0..Len(lg)
      /\ TermAt(lg, prev) = TermAt(L, prev)
      /\ prev + Len(batch) <= Len(L)
      /\ \A k \in 1..Len(batch) : batch[k] = L[prev + k]
      /\ Len(lg) <= Len(K)
      /\ \A i \in 1..Len(lg) : lg[i] = K[i]
  BY DEF HasEntry, SliceOf, PrefixOf
<1>3. CASE D = {}
  BY <1>3 DEF AppendNewEntries
<1>4. CASE D # {}
  <2>1. /\ kept = prev + Min(D) - 1
        /\ Min(D) \in 1..Len(batch) /\ \A j \in D : Min(D) <= j
    BY <1>1, <1>4, MinIsLeast, D \in SUBSET Nat DEF KeptLength, Disagreements
  <2>2. kept \in prev..Len(lg) /\ kept - prev < Len(batch)
    BY <1>1, <1>2, <1>4, KeptLengthBounds
  <2>3. kept # 0 => lg[kept].term = L[kept].term
    <3>1. CASE Min(D) = 1
      <4>1. kept = prev
        BY <1>2, <2>1, <3>1
      <4> HIDE DEF kept, prev
      <4> QED BY <1>2, <4>1 DEF TermAt
    <3>2. CASE Min(D) # 1
      <4> DEFINE j == Min(D) - 1
      <4>1. j \in 1..Len(batch) /\ j \notin D /\ kept = prev + j
        BY <1>1, <1>2, <2>1, <3>2
      <4> HIDE DEF j
      <4>2. HasEntry(lg, prev + j, batch[j].term)
        BY <4>1 DEF Disagreements
      <4>3. prev + j # 0 /\ batch[j] = L[prev + j]
        BY <1>2, <4>1
      <4> QED BY <4>1, <4>2, <4>3 DEF HasEntry, TermAt
    <3> QED BY <3>1, <3>2
  <2>4. \A i \in 1..kept : lg[i] = L[i]
    <3> HIDE DEF kept, prev, batch
    <3>1. CASE kept = 0
      BY <3>1
    <3>2. CASE kept # 0
      <4>1. kept \in 1..Len(K) /\ kept <= Len(L) /\ kept \in 1..Len(lg)
        BY <1>1, <1>2, <2>2, <3>2
      <4>2. K[kept].term = L[kept].term
        BY <1>2, <2>3, <3>2, <4>1
      <4>3. \A i \in 1..kept : K[i] = L[i]
        BY <4>1, <4>2 DEF Agree
      <4> QED BY <1>1, <1>2, <4>1, <4>3
    <3> QED BY <3>1, <3>2
  <2> DEFINE head == SubSeq(lg, 1, kept)
             first == kept - prev + 1
             tail == SubSeq(batch, first, Len(batch))
  <2>5. head \in Seq(Entry) /\ Len(head) = kept /\ \A i \in 1..kept : head[i] = lg[i]
    BY <1>1, <1>2, <2>2, SubSeqProperties
  <2>6. first \in 1..Len(batch) /\ first = kept - prev + 1
    BY <1>1, <1>2, <2>2
  <2>7. merged = head \o tail
    BY <1>4 DEF AppendNewEntries
  <2> HIDE DEF first, kept, prev, batch, head, merged
  <2>8. /\ tail \in Seq(Entry) /\ Len(tail) = Len(batch) - first + 1
        /\ \A k \in 1..Len(tail) : tail[k] = batch[first + k - 1]
    BY <1>1, <2>6, SubSeqProperties
  <2> HIDE DEF tail
  <2>9. /\ Len(head \o tail) = Len(head) + Len(tail)
        /\ \A i \in 1..Len(head) + Len(tail) :
              (head \o tail)[i] = IF i <= Len(head) THEN head[i]
                                                     ELSE tail[i - Len(head)]
    BY <2>5, <2>8, ConcatProperties, Zenon
  <2>10. Len(merged) = prev + Len(batch)
    BY <1>1, <1>2, <2>2, <2>5, <2>6, <2>7, <2>8, <2>9
  <2>11. ASSUME NEW i \in 1..Len(merged) PROVE merged[i] = L[i]
    <3>1. i \in Nat /\ i \in 1..Len(head) + Len(tail)
      BY <1>1, <2>7, <2>9, <2>10
    <3>2. CASE i <= kept
      BY <2>4, <2>5, <2>7, <2>9, <3>1, <3>2
    <3>3. CASE i > kept
      <4> DEFINE k == i - kept
      <4>1. k \in 1..Len(tail) /\ merged[i] = tail[k]
        BY <2>5, <2>7, <2>9, <3>1, <3>3, <2>2, <1>2, <1>1
      <4> DEFINE len == Len(batch)
      <4>2. /\ i \in Nat /\ kept \in Nat /\ prev \in Nat /\ len \in Nat
            /\ i > kept /\ kept >= prev /\ i <= prev + len
        BY <1>1, <1>2, <2>2, <2>10, <3>1, <3>3
      <4>3. first = kept - prev + 1
        BY <2>6
      <4> HIDE DEF len
      <4>4. first + k - 1 = i - prev /\ i - prev \in 1..len /\ prev + (i - prev) = i
        BY <4>2, <4>3
      <4>5. first + k - 1 = i - prev /\ i - prev \in 1..Len(batch) /\ prev + (i - prev) = i
        BY <4>4 DEF len
      <4>6. batch[i - prev] = L[prev + (i - prev)]
        BY <1>2, <4>5
      <4> QED BY <2>8, <4>1, <4>5, <4>6
    <3> QED BY <3>1, <3>2, <3>3, <2>2, <1>2, <1>1
  <2>12. PrefixOf(merged, L)
    BY <1>1, <1>2, <2>10, <2>11 DEF PrefixOf
  <2> QED BY <2>10, <2>12 DEF merged, prev, batch
<1> QED BY <1>3, <1>4

\* Either way it begins one of the histories they come from.
LEMMA MergeIsPrefix ==
  ASSUME NEW m, NEW lg \in Log, NEW K \in Log, NEW L \in Log,
         m.prev_log_index \in Nat, m.entries \in Seq(Entry),
         PrefixOf(lg, K), SliceOf(m, L), Agree(K, L),
         HasEntry(lg, m.prev_log_index, m.prev_log_term)
  PROVE  LET merged == AppendNewEntries(lg, m.prev_log_index, m.entries)
         IN  PrefixOf(merged, K) \/ PrefixOf(merged, L)
BY MergeEither

-----------------------------------------------------------------------------
(***************************************************************************)
(* What a step does to the invariant depends only on who leads, what the   *)
(* logs are and what is sent.                                              *)
(***************************************************************************)
\* Roles stay earned while nobody runs or wins.
LEMMA EarnedStep ==
  ASSUME RolesAreEarned, NobodyWins, NobodyRuns
  PROVE  RolesAreEarned'
BY DEF RolesAreEarned, NobodyWins, NobodyRuns

\* Every request is a slice of a history, if every log begins one.
LEMMA RequestsCovered ==
  ASSUME TypeOK', NEW H \in SUBSET Log, NEW G \in SUBSET Log, H \subseteq G,
         Histories(H), RequestsAreSlices,
         \A k \in Server : \E L \in G : PrefixOf(log'[k], L),
         NEW m \in Received("append_entries")'
  PROVE  \E L \in G : SliceOf(m, L)
<1>1. CASE m \in Received("append_entries")
  BY <1>1 DEF Histories
<1>2. CASE \E k \in Server : SliceOf(m, log'[k])
  <2>1. PICK k \in Server : SliceOf(m, log'[k])
    BY <1>2
  <2>2. PICK L \in G : PrefixOf(log'[k], L)
    OBVIOUS
  <2>3. m.prev_log_index \in Nat /\ m.entries \in Seq(Entry)
    BY DEF Received, TypeOK, Message
  <2>4. log'[k] \in Log /\ L \in Log
    BY DEF TypeOK, Log
  <2>5. SliceOf(m, L)
    BY <2>1, <2>2, <2>3, <2>4, SliceOfPrefix
  <2> QED BY <2>5
<1> QED BY <1>1, <1>2 DEF RequestsAreSlices

\* The histories of before do, if every log is still a beginning of one.
LEMMA HistoriesStep ==
  ASSUME TypeOK, TypeOK', NEW H \in SUBSET Log, Histories(H),
         NobodyWins, RequestsAreSlices,
         \A k \in Server : \E L \in H : PrefixOf(log'[k], L)
  PROVE  Histories(H)'
<1>1. \A m \in Received("append_entries")' : \E L \in H : SliceOf(m, L)
  BY RequestsCovered
<1>2. \A L \in H : \A i \in 1..Len(L) : \E e \in elected' : e.term = L[i].term
  BY DEF Histories, NobodyWins
<1>3. ASSUME NEW L \in H, NEW i \in 1..Len(L), NEW l \in Server,
             role'[l] = "leader", L[i].term = current_term'[l]
      PROVE  i <= Len(log'[l])
  <2>1. i <= Len(log[l]) /\ Len(log[l]) <= Len(log'[l])
    BY <1>3 DEF Histories, NobodyWins
  <2>2. Len(log[l]) \in Nat /\ Len(log'[l]) \in Nat /\ i \in Nat
    BY LenProperties DEF TypeOK
  <2> QED BY <2>1, <2>2
<1>4. H \subseteq Log /\ \A K, L \in H : Agree(K, L)
  BY DEF Histories
<1> QED BY <1>1, <1>2, <1>3, <1>4 DEF Histories

\* Nobody runs or wins, and no log changes.
LEMMA QuietLogStep ==
  ASSUME LogInv, TypeInv', NobodyWins, NobodyRuns, RequestsAreSlices, log' = log
  PROVE  RolesAreEarned' /\ HistoriesExist'
<1> USE DEF LogInv, ElectionInv, TypeInv
<1>1. RolesAreEarned'
  BY EarnedStep
<1>2. PICK H \in SUBSET Log : Histories(H)
  BY DEF HistoriesExist
<1>3. \A k \in Server : \E L \in H : PrefixOf(log'[k], L)
  BY <1>2 DEF Histories
<1>4. Histories(H)'
  BY <1>2, <1>3, HistoriesStep
<1> QED BY <1>1, <1>4 DEF HistoriesExist

\* A node that becomes a follower neither runs nor wins.
LEMMA FollowerStep ==
  ASSUME TypeOK, NEW n \in Server, BecomeFollower(n), UNCHANGED elected,
         \A k \in Server \ {n} :
            current_term'[k] = current_term[k] /\ log'[k] = log[k]
  PROVE  NobodyWins /\ NobodyRuns
<1>1. /\ role' = [role EXCEPT ![n] = "follower"]
      /\ granted' = [granted EXCEPT ![n] = {}]
  BY DEF BecomeFollower
<1>2. \A k \in Server : Len(log[k]) \in Nat
  BY LenProperties DEF TypeOK
<1> QED BY SMTT(30), <1>1, <1>2 DEF TypeOK, NobodyWins, NobodyRuns

\* Nothing that is sent is a request.
LEMMA NoRequests ==
  ASSUME NEW S, InFlight' \subseteq InFlight \cup S,
         \A x \in S : x.type # "append_entries"
  PROVE  RequestsAreSlices
BY DEF RequestsAreSlices, Received

\* What Replicate sends.
LEMMA ReplicateIsSlice ==
  ASSUME TypeOK', NEW n \in Server, NEW p \in Server,
         next_index'[n][p] \in Nat \ {0}
  PROVE  SliceOf(Replicate(n, p), log'[n])
<1>1. log'[n] \in Log
  BY DEF TypeOK, Log
<1> QED BY <1>1, BuiltFromLog DEF Replicate

\* A leader's requests are slices of its log.
LEMMA LeaderRequests ==
  ASSUME TypeOK', NEW n \in Server, role'[n] = "leader", NEW Q \in SUBSET Server,
         InFlight' \subseteq InFlight \cup {Replicate(n, p) : p \in Q}
  PROVE  RequestsAreSlices
<1>1. \A p \in Q : next_index'[n][p] \in Nat \ {0}
  BY DEF TypeOK, NextIndexPositive
<1>2. \A p \in Q : SliceOf(Replicate(n, p), log'[n])
  BY <1>1, ReplicateIsSlice
<1> QED BY <1>2 DEF RequestsAreSlices, Received

-----------------------------------------------------------------------------
(***************************************************************************)
(* The steps that leave the logs alone.                                    *)
(***************************************************************************)
\* Nothing but the bookkeeping of a leader or the WAL changes.
LEMMA SameLogsStep ==
  ASSUME LogInv, TypeInv', UNCHANGED <<log, role, current_term, granted, elected>>,
         RequestsAreSlices
  PROVE  RolesAreEarned' /\ HistoriesExist'
<1>1. \A k \in Server : Len(log[k]) \in Nat
  BY LenProperties DEF LogInv, ElectionInv, TypeInv, TypeOK
<1>2. NobodyWins /\ NobodyRuns
  BY <1>1 DEF NobodyWins, NobodyRuns
<1> QED BY <1>2, QuietLogStep

\* HandleRequestVote keeps the logs in agreement.
LEMMA HandleRequestVoteLogs ==
  ASSUME LogInv, TypeInv', NEW m \in Received("request_vote"), HandleRequestVote(m)
  PROVE  RolesAreEarned' /\ HistoriesExist'
<1> DEFINE n == m.dst
           S == {RequestVoteReply(n, m.src, current_term'[n], GrantsVote(n, m))}
<1> USE DEF LogInv, ElectionInv, TypeInv
<1>1. n \in Server
  BY ReceivedFields DEF Received, TypeOK
<1>2. Answer(m, S) /\ UNCHANGED <<log, elected>>
  BY DEF HandleRequestVote
<1>3. \A x \in S : x.type # "append_entries"
  BY DEF RequestVoteReply
<1> HIDE DEF S
<1>4. InFlight' \subseteq InFlight \cup S
  BY <1>2, AnswerEffect DEF TypeOK
<1>5. RequestsAreSlices
  BY <1>3, <1>4, NoRequests
<1>6. CASE m.term > current_term[n]
  <2>1. /\ BecomeFollower(n)
        /\ current_term' = [current_term EXCEPT ![n] = m.term]
    BY <1>6 DEF HandleRequestVote
  <2>2. NobodyWins /\ NobodyRuns
    BY <1>1, <1>2, <2>1, FollowerStep DEF TypeOK
  <2> QED BY <1>2, <1>5, <2>2, QuietLogStep
<1>7. CASE ~ (m.term > current_term[n])
  <2>1. UNCHANGED <<log, role, current_term, granted, elected>>
    BY <1>2, <1>7 DEF HandleRequestVote, roleVars
  <2> QED BY <1>5, <2>1, SameLogsStep
<1> QED BY <1>6, <1>7

\* StepDownOnReply keeps the logs in agreement.
LEMMA StepDownOnReplyLogs ==
  ASSUME LogInv, TypeInv', NEW m \in InFlight, StepDownOnReply(m)
  PROVE  RolesAreEarned' /\ HistoriesExist'
<1> USE DEF LogInv, ElectionInv, TypeInv
<1>1. m.dst \in Server
  BY ReceivedFields DEF TypeOK
<1>2. /\ BecomeFollower(m.dst) /\ UNCHANGED <<log, elected>>
      /\ current_term' = [current_term EXCEPT ![m.dst] = m.term]
      /\ Discard(m)
  BY DEF StepDownOnReply
<1>3. NobodyWins /\ NobodyRuns
  BY <1>1, <1>2, FollowerStep DEF TypeOK
<1>4. InFlight' \subseteq InFlight
  BY <1>2, DiscardEffect DEF TypeOK
<1>5. RequestsAreSlices
  BY <1>4 DEF RequestsAreSlices, Received
<1> QED BY <1>2, <1>3, <1>5, QuietLogStep

\* An envelope that is lost or ignored keeps the logs in agreement.
LEMMA DiscardOnlyLogs ==
  ASSUME LogInv, TypeInv', NEW m, Discard(m),
         UNCHANGED <<stateVars, roleVars, elected>>
  PROVE  RolesAreEarned' /\ HistoriesExist'
<1>1. InFlight' \subseteq InFlight
  BY DiscardEffect DEF LogInv, ElectionInv, TypeInv, TypeOK
<1>2. RequestsAreSlices
  BY <1>1 DEF RequestsAreSlices, Received
<1> QED BY <1>2, SameLogsStep DEF stateVars, roleVars

\* CountVote keeps the logs in agreement.
LEMMA CountVoteLogs ==
  ASSUME LogInv, TypeInv', NEW m \in Received("request_vote_reply"), CountVote(m)
  PROVE  RolesAreEarned' /\ HistoriesExist'
<1> USE DEF LogInv, ElectionInv, TypeInv
<1>1. m.dst \in Server
  BY ReceivedFields DEF Received, TypeOK
<1>2. /\ granted' = [granted EXCEPT ![m.dst] = Tally(m.dst, m)]
      /\ Discard(m) /\ UNCHANGED <<log, role, current_term, elected>>
  BY DEF CountVote, stateVars
<1>3. \A k \in Server : granted[k] \subseteq granted'[k] /\ Len(log[k]) \in Nat
  <2>1. granted \in [Server -> SUBSET Server] /\ \A k \in Server : log[k] \in Seq(Entry)
    BY DEF TypeOK
  <2> HIDE DEF LogInv, ElectionInv, TypeInv
  <2>2. \A k \in Server : granted[k] \subseteq granted'[k]
    BY <1>1, <1>2, <2>1 DEF Tally
  <2>3. \A k \in Server : Len(log[k]) \in Nat
    BY <2>1, LenProperties
  <2> QED BY <2>2, <2>3
<1>4. NobodyWins /\ NobodyRuns
  BY <1>2, <1>3 DEF NobodyWins, NobodyRuns
<1>5. InFlight' \subseteq InFlight
  BY <1>2, DiscardEffect DEF TypeOK
<1>6. RequestsAreSlices
  BY <1>5 DEF RequestsAreSlices, Received
<1> QED BY <1>2, <1>4, <1>6, QuietLogStep

\* RejectStaleAppend keeps the logs in agreement.
LEMMA RejectStaleAppendLogs ==
  ASSUME LogInv, TypeInv', NEW m \in Received("append_entries"),
         RejectStaleAppend(m)
  PROVE  RolesAreEarned' /\ HistoriesExist'
<1> DEFINE S == {AppendEntriesReply(m.dst, m.src, current_term[m.dst], FALSE, 0)}
<1>1. \A x \in S : x.type # "append_entries"
  BY DEF AppendEntriesReply
<1>2. Answer(m, S) /\ UNCHANGED <<stateVars, roleVars, elected>>
  BY DEF RejectStaleAppend
<1> HIDE DEF S
<1>3. InFlight' \subseteq InFlight \cup S
  BY <1>2, AnswerEffect DEF LogInv, ElectionInv, TypeInv, TypeOK
<1> QED BY <1>1, <1>2, <1>3, NoRequests, SameLogsStep DEF stateVars, roleVars

\* RejectMismatch keeps the logs in agreement.
LEMMA RejectMismatchLogs ==
  ASSUME LogInv, TypeInv', NEW m \in Received("append_entries"), RejectMismatch(m)
  PROVE  RolesAreEarned' /\ HistoriesExist'
<1> DEFINE S == {AppendEntriesReply(m.dst, m.src, m.term, FALSE, 0)}
<1> USE DEF LogInv, ElectionInv, TypeInv
<1>1. m.dst \in Server
  BY ReceivedFields DEF Received, TypeOK
<1>2. \A x \in S : x.type # "append_entries"
  BY DEF AppendEntriesReply
<1>3. /\ Answer(m, S) /\ UNCHANGED <<log, elected>>
      /\ current_term' = [current_term EXCEPT ![m.dst] = m.term]
      /\ BecomeFollower(m.dst)
  BY DEF RejectMismatch, FollowLeader
<1> HIDE DEF S
<1>4. InFlight' \subseteq InFlight \cup S
  BY <1>3, AnswerEffect DEF TypeOK
<1>5. NobodyWins /\ NobodyRuns
  BY <1>1, <1>3, FollowerStep DEF TypeOK
<1> QED BY <1>2, <1>3, <1>4, <1>5, NoRequests, QuietLogStep

\* BroadcastHeartbeat keeps the logs in agreement.
LEMMA BroadcastHeartbeatLogs ==
  ASSUME LogInv, TypeInv', NEW n \in Server, BroadcastHeartbeat(n)
  PROVE  RolesAreEarned' /\ HistoriesExist'
<1> USE DEF LogInv, ElectionInv, TypeInv
<1>1. role[n] = "leader" /\ UNCHANGED <<stateVars, roleVars, elected>>
  BY DEF BroadcastHeartbeat
<1>2. PICK free \in SUBSET Peers(n) : Send({Replicate(n, p) : p \in free})
  BY DEF BroadcastHeartbeat
<1>3. InFlight' \subseteq InFlight \cup {Replicate(n, p) : p \in free}
  BY <1>2, SendEffect DEF TypeOK
<1>4. free \in SUBSET Server /\ role'[n] = "leader"
  BY <1>1 DEF Peers, roleVars
<1>5. RequestsAreSlices
  BY <1>3, <1>4, LeaderRequests
<1> QED BY <1>1, <1>5, SameLogsStep DEF stateVars, roleVars

\* AnswerClient keeps the logs in agreement.
LEMMA AnswerClientLogs ==
  ASSUME LogInv, TypeInv', NEW n \in Server, AnswerClient(n)
  PROVE  RolesAreEarned' /\ HistoriesExist'
<1>1. RequestsAreSlices
  BY DEF AnswerClient, RequestsAreSlices, Received, InFlight
<1> QED BY <1>1, SameLogsStep DEF AnswerClient, stateVars, roleVars

\* AppendAcknowledged keeps the logs in agreement.
LEMMA AppendAcknowledgedLogs ==
  ASSUME LogInv, TypeInv', NEW m \in Received("append_entries_reply"),
         AppendAcknowledged(m)
  PROVE  RolesAreEarned' /\ HistoriesExist'
<1> DEFINE n == m.dst
           Q == {q \in {m.src} : NextAfterSuccess(n, m)[m.src] <= Len(log[n])}
<1> USE DEF LogInv, ElectionInv, TypeInv
<1>1. n \in Server /\ m.src \in Server
  BY ReceivedFields DEF Received, TypeOK
<1>2. /\ role[n] = "leader" /\ Answer(m, {Replicate(n, p) : p \in Q})
      /\ UNCHANGED <<log, role, current_term, granted, elected>>
  BY DEF AppendAcknowledged
<1>3. Q \in SUBSET Server
  BY <1>1
<1> HIDE DEF Q
<1>4. InFlight' \subseteq InFlight \cup {Replicate(n, p) : p \in Q}
  BY <1>2, AnswerEffect DEF TypeOK
<1>5. RequestsAreSlices
  BY <1>1, <1>2, <1>3, <1>4, LeaderRequests
<1> QED BY <1>2, <1>5, SameLogsStep

\* AppendRefused keeps the logs in agreement.
LEMMA AppendRefusedLogs ==
  ASSUME LogInv, TypeInv', NEW m \in Received("append_entries_reply"),
         AppendRefused(m)
  PROVE  RolesAreEarned' /\ HistoriesExist'
<1> DEFINE n == m.dst
           Q == {m.src}
<1> USE DEF LogInv, ElectionInv, TypeInv
<1>1. n \in Server /\ Q \in SUBSET Server
  BY ReceivedFields DEF Received, TypeOK
<1>2. /\ role[n] = "leader" /\ Answer(m, {Replicate(n, m.src)})
      /\ UNCHANGED <<stateVars, role, granted, elected>>
  BY DEF AppendRefused
<1>3. {Replicate(n, m.src)} = {Replicate(n, p) : p \in Q}
  OBVIOUS
<1>4. InFlight' \subseteq InFlight \cup {Replicate(n, m.src)}
  BY <1>2, AnswerEffect DEF TypeOK
<1> HIDE DEF Q
<1>5. RequestsAreSlices
  BY <1>1, <1>2, <1>3, <1>4, LeaderRequests
<1> QED BY <1>2, <1>5, SameLogsStep DEF stateVars

\* Restart keeps the logs in agreement.
LEMMA RestartLogs ==
  ASSUME LogInv, TypeInv', NEW n \in Server, Restart(n)
  PROVE  RolesAreEarned' /\ HistoriesExist'
<1> USE DEF LogInv, ElectionInv, TypeInv
<1>1. /\ log' = [log EXCEPT ![n] = log[n]]
      /\ current_term' = [current_term EXCEPT ![n] = wal[n].term]
      /\ BecomeFollower(n) /\ UNCHANGED <<elected, network>>
  BY DEF Restart, Recover
<1>2. log' = log
  BY <1>1 DEF TypeOK
<1>3. NobodyWins /\ NobodyRuns
  BY <1>1, <1>2, FollowerStep DEF TypeOK
<1>4. RequestsAreSlices
  BY <1>1 DEF RequestsAreSlices, Received, InFlight
<1> QED BY <1>2, <1>3, <1>4, QuietLogStep

\* A candidate has not won the term it starts: had it, its own vote would be in
\* its WAL, which is not ahead of it.
LEMMA NotElectedYet ==
  ASSUME ElectionInv, RolesAreEarned, NEW n \in Server, NEW e \in elected,
         e.leader = n
  PROVE  e.term <= current_term[n]
<1> USE DEF ElectionInv, TypeInv
<1>1. e.term \in Nat /\ wal[n].term \in Nat /\ current_term[n] \in Nat
  BY DEF TypeOK, WalRecord
<1>2. Promised(n, e.term, n)
  BY DEF RolesAreEarned, Promised
<1>3. Bound(n, e.term, n)
  BY <1>1, <1>2, DurableMeans DEF DurableOneByOne
<1>4. wal[n].term >= e.term
  BY <1>1, <1>3 DEF Bound
<1> QED BY <1>1, <1>4 DEF WalBehind

\* StartElection keeps the logs in agreement.
LEMMA StartElectionLogs ==
  ASSUME LogInv, TypeInv', NEW n \in Server, StartElection(n)
  PROVE  RolesAreEarned' /\ HistoriesExist'
<1> DEFINE S == {RequestVote(n, p, current_term[n] + 1,
                             Len(log[n]), LastTerm(log[n])) : p \in Peers(n)}
<1> USE DEF LogInv, ElectionInv, TypeInv
<1>1. /\ current_term' = [current_term EXCEPT ![n] = @ + 1]
      /\ role' = [role EXCEPT ![n] = "candidate"]
      /\ granted' = [granted EXCEPT ![n] = {n}]
      /\ Send(S) /\ UNCHANGED <<log, elected>>
  BY DEF StartElection
<1>2. \A x \in S : x.type # "append_entries"
  BY DEF RequestVote
<1> HIDE DEF S
<1>3. InFlight' \subseteq InFlight \cup S
  BY <1>1, SendEffect DEF TypeOK
<1>4. current_term[n] \in Nat /\ current_term'[n] = current_term[n] + 1
  BY <1>1 DEF TypeOK
<1>5. \A e \in elected : e.leader = n => e.term # current_term'[n]
  <2> SUFFICES ASSUME NEW e \in elected, e.leader = n PROVE e.term # current_term'[n]
    OBVIOUS
  <2>1. e.term \in Nat /\ e.term <= current_term[n]
    BY NotElectedYet DEF TypeOK
  <2> QED BY <1>4, <2>1
<1>6. RolesAreEarned'
  <2> SUFFICES ASSUME NEW k \in Server
               PROVE  /\ role'[k] = "leader" =>
                            \E e \in elected' : e.leader = k /\ e.term = current_term'[k]
                      /\ role'[k] = "candidate" =>
                            /\ k \in granted'[k]
                            /\ \A e \in elected' : e.leader = k => e.term # current_term'[k]
                      /\ \A e \in elected' : e.leader = k => k \in e.voters
    BY DEF RolesAreEarned
  <2>1. /\ elected' = elected
        /\ \A e \in elected : e.leader = k => k \in e.voters
    BY <1>1 DEF RolesAreEarned
  <2>2. CASE k = n
    <3>1. role'[k] = "candidate" /\ granted'[k] = {n}
      BY <1>1, <2>2 DEF TypeOK
    <3> QED BY <1>5, <2>1, <2>2, <3>1
  <2>3. CASE k # n
    <3>1. /\ role'[k] = role[k] /\ granted'[k] = granted[k]
          /\ current_term'[k] = current_term[k]
      BY <1>1, <2>3 DEF TypeOK
    <3> QED BY <2>1, <3>1 DEF RolesAreEarned
  <2> QED BY <2>2, <2>3
<1>7. NobodyWins
  <2>1. \A k \in Server : Len(log[k]) \in Nat
    BY LenProperties DEF TypeOK
  <2> QED BY <1>1, <2>1 DEF NobodyWins, TypeOK
<1>8. RequestsAreSlices
  BY <1>2, <1>3, NoRequests
<1>9. PICK H \in SUBSET Log : Histories(H)
  BY DEF HistoriesExist
<1>10. \A k \in Server : \E L \in H : PrefixOf(log'[k], L)
  BY <1>1, <1>9 DEF Histories
<1>11. Histories(H)'
  BY <1>7, <1>8, <1>9, <1>10, HistoriesStep
<1> QED BY <1>6, <1>11 DEF HistoriesExist

-----------------------------------------------------------------------------
(***************************************************************************)
(* The steps that merge.                                                   *)
(***************************************************************************)
\* A follower's log becomes what a merge, or the beginning of one, leaves.
LEMMA MergeStep ==
  ASSUME LogInv, TypeInv', NEW m \in Received("append_entries"),
         Accepts(m.dst, m), NEW lg \in Log,
         PrefixOf(lg, AppendNewEntries(log[m.dst], m.prev_log_index, m.entries)),
         log' = [log EXCEPT ![m.dst] = lg], BecomeFollower(m.dst), UNCHANGED elected,
         \A k \in Server \ {m.dst} : current_term'[k] = current_term[k],
         RequestsAreSlices
  PROVE  RolesAreEarned' /\ HistoriesExist'
<1> DEFINE n == m.dst
           merged == AppendNewEntries(log[n], m.prev_log_index, m.entries)
<1> USE DEF LogInv, ElectionInv, TypeInv
<1>1. n \in Server /\ m.prev_log_index \in Nat /\ m.entries \in Seq(Entry)
  BY ReceivedFields DEF Received, TypeOK
<1>2. NobodyWins /\ NobodyRuns
  BY <1>1, FollowerStep DEF TypeOK
<1>3. PICK H \in SUBSET Log : Histories(H)
  BY DEF HistoriesExist
<1>4. PICK K \in H : PrefixOf(log[n], K)
  BY <1>1, <1>3 DEF Histories
<1>5. PICK L \in H : SliceOf(m, L)
  BY <1>3 DEF Histories
<1>6. log[n] \in Log /\ K \in Log /\ L \in Log /\ Agree(K, L)
  BY <1>1, <1>3 DEF Histories, TypeOK, Log
<1>7. HasEntry(log[n], m.prev_log_index, m.prev_log_term)
  BY DEF Accepts
<1>8. PrefixOf(merged, K) \/ PrefixOf(merged, L)
  BY <1>1, <1>4, <1>5, <1>6, <1>7, MergeIsPrefix
<1>9. merged \in Log
  BY AcceptedMerge
<1> HIDE DEF merged
<1>10. PrefixOf(lg, K) \/ PrefixOf(lg, L)
  BY <1>6, <1>8, <1>9, PrefixTransitive DEF merged
<1>11. \A k \in Server : \E M \in H : PrefixOf(log'[k], M)
  BY <1>1, <1>3, <1>10 DEF Histories, TypeOK
<1>12. Histories(H)'
  BY <1>2, <1>3, <1>11, HistoriesStep
<1>13. RolesAreEarned'
  BY <1>2, EarnedStep
<1> QED BY <1>12, <1>13 DEF HistoriesExist

\* AcceptAppend keeps the logs in agreement.
LEMMA AcceptAppendLogs ==
  ASSUME LogInv, TypeInv', NEW m \in Received("append_entries"), AcceptAppend(m)
  PROVE  RolesAreEarned' /\ HistoriesExist'
<1> DEFINE n == m.dst
           lg == AppendNewEntries(log[n], m.prev_log_index, m.entries)
           S == {AppendEntriesReply(n, m.src, m.term, TRUE, AckedIndex(m, lg))}
<1>1. /\ Accepts(n, m) /\ log' = [log EXCEPT ![n] = lg]
      /\ current_term' = [current_term EXCEPT ![n] = m.term]
      /\ BecomeFollower(n) /\ UNCHANGED elected /\ Answer(m, S)
  BY DEF AcceptAppend, FollowLeader
<1>2. lg \in Log /\ PrefixOf(lg, lg)
  BY <1>1, AcceptedMerge, PrefixReflexive DEF LogInv, ElectionInv
<1>3. \A x \in S : x.type # "append_entries"
  BY DEF AppendEntriesReply
<1> HIDE DEF S
<1>4. InFlight' \subseteq InFlight \cup S
  BY <1>1, AnswerEffect DEF LogInv, ElectionInv, TypeInv, TypeOK
<1>5. RequestsAreSlices
  BY <1>3, <1>4, NoRequests
<1>6. \A k \in Server \ {n} : current_term'[k] = current_term[k]
  BY <1>1 DEF LogInv, ElectionInv, TypeInv, TypeOK
<1> QED BY <1>1, <1>2, <1>5, <1>6, MergeStep

\* TornAppend keeps the logs in agreement: what survives of a merge is the
\* beginning of it.
LEMMA TornAppendLogs ==
  ASSUME LogInv, TypeInv', NEW m \in Received("append_entries"), TornAppend(m)
  PROVE  RolesAreEarned' /\ HistoriesExist'
<1> DEFINE n == m.dst
           lg == AppendNewEntries(log[n], m.prev_log_index, m.entries)
           kept == KeptLength(log[n], m.prev_log_index, m.entries)
<1> USE DEF LogInv, ElectionInv
<1>1. Accepts(n, m) /\ Discard(m)
  BY DEF TornAppend
<1>2. lg \in Log /\ kept \in Nat /\ kept <= Len(lg)
  BY <1>1, AcceptedMerge
<1>3. Len(lg) \in Nat
  BY <1>2, LenProperties DEF Log
<1>4. PICK written \in kept..Len(lg) :
         LET torn == SubSeq(lg, 1, written)
         IN  Recover(n, torn, IF written > kept THEN Journalled(n, torn) ELSE wal[n])
  BY DEF TornAppend
<1> HIDE DEF lg, kept
<1> DEFINE torn == SubSeq(lg, 1, written)
           record == IF written > kept THEN Journalled(n, torn) ELSE wal[n]
<1>5. torn \in Log /\ PrefixOf(torn, lg)
  BY <1>2, <1>3, PrefixCut
<1>6. Recover(n, torn, record)
  BY <1>4
<1> HIDE DEF torn, record
<1>7. /\ log' = [log EXCEPT ![n] = torn]
      /\ current_term' = [current_term EXCEPT ![n] = record.term]
      /\ BecomeFollower(n) /\ UNCHANGED elected
  BY <1>6 DEF Recover
<1>8. \A k \in Server \ {n} : current_term'[k] = current_term[k]
  BY <1>7 DEF TypeInv, TypeOK
<1>9. InFlight' \subseteq InFlight
  BY <1>1, DiscardEffect DEF TypeInv, TypeOK
<1>10. RequestsAreSlices
  BY <1>9 DEF RequestsAreSlices, Received
<1> QED BY <1>1, <1>5, <1>7, <1>8, <1>10, MergeStep DEF lg

-----------------------------------------------------------------------------
(***************************************************************************)
(* The steps that append.                                                  *)
(***************************************************************************)
\* A log that grows by an entry nobody else could have at that place.
LEMMA AppendAgrees ==
  ASSUME NEW l \in Log, NEW L \in Log, NEW M \in Log, NEW e \in Entry,
         PrefixOf(l, L), Agree(L, M),
         \A i \in 1..Len(M) : M[i].term = e.term => i <= Len(l)
  PROVE  Agree(Append(l, e), M) /\ Agree(M, Append(l, e))
<1> DEFINE K == Append(l, e)
<1>1. Len(l) \in Nat /\ Len(L) \in Nat /\ Len(M) \in Nat
  BY LenProperties DEF Log
<1>2. /\ Len(K) = Len(l) + 1 /\ K[Len(l) + 1] = e
      /\ \A i \in 1..Len(l) : K[i] = l[i]
  BY AppendProperties DEF Log
<1> HIDE DEF K
<1>3. ASSUME NEW i \in 1..Len(K), i \in 1..Len(M), K[i].term = M[i].term, NEW j \in 1..i
      PROVE  K[j] = M[j]
  <2>1. i # Len(l) + 1
    BY <1>1, <1>2, <1>3
  <2>2. i \in 1..Len(l) /\ j \in 1..Len(l) /\ i \in 1..Len(L)
    BY <1>1, <1>2, <2>1 DEF PrefixOf
  <2>3. K[i] = L[i] /\ K[j] = L[j]
    BY <1>2, <2>2 DEF PrefixOf
  <2>4. i <= Len(M) /\ L[i].term = M[i].term
    BY <1>1, <1>3, <2>3
  <2> QED BY <2>2, <2>3, <2>4 DEF Agree
<1>4. Len(K) \in Nat
  BY <1>1, <1>2
<1>5. Agree(K, M)
  BY <1>1, <1>3, <1>4 DEF Agree
<1>6. Agree(M, K)
  BY <1>1, <1>3, <1>4 DEF Agree
<1> QED BY <1>5, <1>6 DEF K

\* A leader appends an entry of its term, to a log that holds all there is of
\* that term: the log it has now is a history more.
LEMMA AppendStep ==
  ASSUME LogInv, ElectionInv', RolesAreEarned', NEW n \in Server, NEW e \in Entry,
         e.term = current_term[n], role'[n] = "leader",
         log' = [log EXCEPT ![n] = Append(log[n], e)], UNCHANGED current_term,
         \A k \in Server \ {n} : role'[k] = role[k],
         elected \subseteq elected',
         NEW H \in SUBSET Log, Histories(H),
         \A L \in H : \A i \in 1..Len(L) :
            L[i].term = current_term[n] => i <= Len(log[n]),
         RequestsAreSlices
  PROVE  HistoriesExist'
<1> USE DEF LogInv, ElectionInv, TypeInv
<1>1. PICK lg : lg = Append(log[n], e)
  OBVIOUS
<1>2. PICK G : G = H \cup {lg}
  OBVIOUS
<1>3. PICK K \in H : PrefixOf(log[n], K)
  BY DEF Histories
<1>4. /\ log[n] \in Log /\ K \in Log
      /\ Len(log[n]) \in Nat /\ Len(K) \in Nat
  BY LenProperties DEF TypeOK, Log
<1>5. /\ lg \in Log /\ Len(lg) = Len(log[n]) + 1 /\ lg[Len(log[n]) + 1] = e
      /\ \A i \in 1..Len(log[n]) : lg[i] = log[n][i]
  BY <1>1, <1>4, AppendProperties DEF Log
<1>6. \A i \in 1..Len(log[n]) : i \in 1..Len(K) /\ lg[i] = K[i]
  BY <1>4, <1>5, <1>3 DEF PrefixOf
<1>7. log'[n] = lg /\ \A k \in Server \ {n} : log'[k] = log[k]
  BY <1>1 DEF TypeOK
<1>8. G \in SUBSET Log
  BY <1>2, <1>5
<1>9. \A M, L \in G : Agree(M, L)
  <2>1. \A M \in H : Agree(lg, M) /\ Agree(M, lg)
    BY <1>1, <1>3, <1>4, AppendAgrees DEF Histories
  <2>2. Agree(lg, lg)
    BY DEF Agree
  <2> QED BY <1>2, <2>1, <2>2 DEF Histories
<1>10. \A k \in Server : \E L \in G : PrefixOf(log'[k], L)
  <2> SUFFICES ASSUME NEW k \in Server PROVE \E L \in G : PrefixOf(log'[k], L)
    OBVIOUS
  <2>1. CASE k = n
    BY <1>2, <1>5, <1>7, <2>1, PrefixReflexive
  <2>2. CASE k # n
    BY <1>2, <1>7, <2>2 DEF Histories
  <2> QED BY <2>1, <2>2
<1>11. \A m \in Received("append_entries")' : \E L \in G : SliceOf(m, L)
  BY <1>2, <1>8, <1>10, RequestsCovered
<1>12. ASSUME NEW L \in G, NEW i \in 1..Len(L)
       PROVE  \E f \in elected' : f.term = L[i].term
  <2>1. CASE L \in H
    BY <2>1 DEF Histories
  <2>2. CASE L = lg /\ i \in 1..Len(log[n])
    BY <1>3, <1>6, <2>2 DEF Histories
  <2>3. CASE L = lg /\ i = Len(log[n]) + 1
    BY <1>5, <2>3 DEF RolesAreEarned
  <2> QED BY <1>2, <1>4, <1>5, <2>1, <2>2, <2>3
<1>13. ElectionSafety'
  BY OneVoteMeansOneLeader, PTL
<1>14. ASSUME NEW l \in Server, role'[l] = "leader", NEW L \in H, NEW i \in 1..Len(L),
              L[i].term = current_term'[l]
       PROVE  i <= Len(log'[l])
  <2>1. CASE l = n
    <3>1. i <= Len(log[n]) /\ i \in Nat
      BY <1>14, <2>1
    <3> QED BY <1>4, <1>5, <1>7, <2>1, <3>1
  <2>2. CASE l # n
    BY <1>7, <1>14, <2>2 DEF Histories
  <2> QED BY <2>1, <2>2
<1>15. ASSUME NEW l \in Server, role'[l] = "leader", NEW L \in G, NEW i \in 1..Len(L),
              L[i].term = current_term'[l]
       PROVE  i <= Len(log'[l])
  <2>1. CASE L \in H
    BY <1>14, <1>15, <2>1
  <2>2. CASE L = lg /\ i \in 1..Len(log[n])
    <3>1. i \in 1..Len(K) /\ K[i].term = current_term'[l]
      BY <1>6, <1>15, <2>2
    <3> QED BY <1>14, <1>15, <3>1
  <2>3. CASE L = lg /\ i = Len(log[n]) + 1
    <3>1. current_term'[l] = current_term'[n]
      BY <1>5, <1>15, <2>3
    <3>2. PICK f \in elected' : f.leader = l /\ f.term = current_term'[l]
      BY <1>15 DEF RolesAreEarned
    <3>3. PICK g \in elected' : g.leader = n /\ g.term = current_term'[n]
      BY DEF RolesAreEarned
    <3>4. l = n
      BY <1>13, <3>1, <3>2, <3>3 DEF ElectionSafety
    <3> QED BY <1>4, <1>5, <1>7, <2>3, <3>4
  <2> QED BY <1>2, <1>4, <1>5, <2>1, <2>2, <2>3
<1>16. Histories(G)'
  BY <1>8, <1>9, <1>10, <1>11, <1>12, <1>15 DEF Histories
<1> QED BY <1>8, <1>16 DEF HistoriesExist

\* ClientSubmit keeps the logs in agreement.
LEMMA ClientSubmitLogs ==
  ASSUME LogInv, ElectionInv', NEW n \in Server, NEW c \in Command, ClientSubmit(n, c)
  PROVE  RolesAreEarned' /\ HistoriesExist'
<1> DEFINE entry == [term |-> current_term[n], command |-> c]
<1> USE DEF LogInv, ElectionInv, TypeInv
<1>1. /\ role[n] = "leader" /\ log' = [log EXCEPT ![n] = Append(log[n], entry)]
      /\ UNCHANGED <<current_term, roleVars, elected>>
  BY DEF ClientSubmit
<1>2. entry \in Entry /\ entry.term = current_term[n]
  <2>1. current_term[n] \in Nat /\ current_term[n] > 0
    BY <1>1 DEF TermPositive, TypeOK
  <2> QED BY <2>1 DEF Entry
<1> HIDE DEF entry
<1>3. RolesAreEarned'
  BY <1>1 DEF RolesAreEarned, roleVars
<1>4. PICK free \in SUBSET Peers(n) : Send({Replicate(n, p) : p \in free})
  BY DEF ClientSubmit
<1>5. InFlight' \subseteq InFlight \cup {Replicate(n, p) : p \in free}
  BY <1>4, SendEffect DEF TypeOK
<1>6. free \in SUBSET Server /\ role' = role /\ role'[n] = "leader"
  BY <1>1 DEF Peers, roleVars
<1>7. RequestsAreSlices
  BY <1>5, <1>6, LeaderRequests
<1>8. PICK H \in SUBSET Log : Histories(H)
  BY DEF HistoriesExist
<1>9. \A L \in H : \A i \in 1..Len(L) :
         L[i].term = current_term[n] => i <= Len(log[n])
  BY <1>1, <1>8 DEF Histories
<1>10. HistoriesExist'
  BY <1>1, <1>2, <1>3, <1>6, <1>7, <1>8, <1>9, AppendStep
<1> QED BY <1>3, <1>10

\* WinElection keeps the logs in agreement: nobody has an entry of the term that
\* was won just now.
LEMMA WinElectionLogs ==
  ASSUME LogInv, ElectionInv', NEW m \in Received("request_vote_reply"), WinElection(m)
  PROVE  RolesAreEarned' /\ HistoriesExist'
<1> DEFINE n == m.dst
           next == Len(log[n]) + 1
           entry == [term |-> current_term[n], command |-> NoOp]
           win == [term |-> current_term[n], leader |-> n, voters |-> Tally(n, m)]
           S == {BuildAppendEntries(n, p, current_term[n], Append(log[n], entry), next,
                                    commit_index[n]) : p \in Peers(n)}
<1> USE DEF LogInv, ElectionInv, TypeInv
<1>1. n \in Server /\ current_term[n] \in Nat /\ Len(log[n]) \in Nat
  BY ReceivedFields, LenProperties DEF Received, TypeOK
<1>2. /\ role[n] = "candidate" /\ role' = [role EXCEPT ![n] = "leader"]
      /\ granted' = [granted EXCEPT ![n] = {}]
      /\ log' = [log EXCEPT ![n] = Append(log[n], entry)]
      /\ elected' = elected \cup {win}
      /\ Answer(m, S) /\ UNCHANGED current_term
  BY DEF WinElection
<1>3. entry \in Entry /\ entry.term = current_term[n]
  <2>1. current_term[n] > 0
    BY <1>1, <1>2 DEF TermPositive
  <2> QED BY <1>1, <2>1 DEF Entry
<1>4. win.term = current_term[n] /\ win.leader = n /\ n \in win.voters
  BY <1>1, <1>2 DEF RolesAreEarned, Tally
<1>5. log'[n] = Append(log[n], entry) /\ log'[n] \in Log
  BY <1>1, <1>2 DEF TypeOK, Log
<1> HIDE DEF win, entry
<1>6. RequestsAreSlices
  <2>1. next \in Nat \ {0}
    BY <1>1
  <2> HIDE DEF next
  <2>2. \A x \in S : SliceOf(x, log'[n])
    BY <1>5, <2>1, BuiltFromLog
  <2> HIDE DEF S
  <2>3. InFlight' \subseteq InFlight \cup S
    BY <1>2, AnswerEffect DEF TypeOK
  <2> QED BY <1>1, <2>2, <2>3 DEF RequestsAreSlices, Received
<1> HIDE DEF S
<1>7. RolesAreEarned'
  <2> SUFFICES ASSUME NEW k \in Server
               PROVE  /\ role'[k] = "leader" =>
                            \E e \in elected' : e.leader = k /\ e.term = current_term'[k]
                      /\ role'[k] = "candidate" =>
                            /\ k \in granted'[k]
                            /\ \A e \in elected' : e.leader = k => e.term # current_term'[k]
                      /\ \A e \in elected' : e.leader = k => k \in e.voters
    BY DEF RolesAreEarned
  <2>1. CASE k = n
    <3>1. role'[k] = "leader" /\ current_term'[k] = current_term[n] /\ win \in elected'
      BY <1>1, <1>2, <2>1 DEF TypeOK
    <3>2. \A e \in elected' : e.leader = k => k \in e.voters
      BY <1>2, <1>4, <2>1 DEF RolesAreEarned
    <3> QED BY <1>4, <2>1, <3>1, <3>2
  <2>2. CASE k # n
    <3>1. /\ role'[k] = role[k] /\ granted'[k] = granted[k]
          /\ current_term'[k] = current_term[k]
      BY <1>1, <1>2, <2>2 DEF TypeOK
    <3>2. \A e : e.leader = k => (e \in elected' <=> e \in elected)
      BY <1>2, <1>4, <2>2
    <3>3. /\ role[k] = "leader" =>
               \E e \in elected : e.leader = k /\ e.term = current_term[k]
          /\ role[k] = "candidate" =>
               /\ k \in granted[k]
               /\ \A e \in elected : e.leader = k => e.term # current_term[k]
          /\ \A e \in elected : e.leader = k => k \in e.voters
      BY DEF RolesAreEarned
    <3> QED BY <3>1, <3>2, <3>3
  <2> QED BY <2>1, <2>2
<1>8. PICK H \in SUBSET Log : Histories(H)
  BY DEF HistoriesExist
<1>9. ElectionSafety'
  BY OneVoteMeansOneLeader, PTL
<1>10. ASSUME NEW L \in H, NEW i \in 1..Len(L), L[i].term = current_term[n]
       PROVE  FALSE
  <2>1. PICK e \in elected : e.term = current_term[n]
    BY <1>8, <1>10 DEF Histories
  <2>2. e \in elected' /\ win \in elected'
    BY <1>2, <2>1
  <2>3. e.leader = n
    BY <1>4, <1>9, <2>1, <2>2 DEF ElectionSafety
  <2> QED BY <1>1, <1>2, <2>1, <2>3 DEF RolesAreEarned
<1>11. /\ role'[n] = "leader"
       /\ \A k \in Server \ {n} : role'[k] = role[k]
       /\ elected \subseteq elected'
  BY <1>1, <1>2 DEF TypeOK
<1>12. HistoriesExist'
  BY <1>1, <1>2, <1>3, <1>6, <1>7, <1>8, <1>10, <1>11, AppendStep
<1> QED BY <1>7, <1>12

-----------------------------------------------------------------------------

\* Empty logs have one empty history.
LEMMA InitLogs == Init => LogInv
<1> SUFFICES ASSUME Init PROVE LogInv
  OBVIOUS
<1>1. ElectionInv
  BY InitElection
<1>2. InFlight = {} /\ elected = {}
  BY DEF Init, InFlight, EmptyBag, SetToBag, BagToSet
<1>3. RolesAreEarned
  BY <1>2 DEF Init, RolesAreEarned
<1>4. <<>> \in Log /\ Len(<<>>) = 0
  BY EmptySeq DEF Log
<1>5. Histories({<<>>})
  <2>1. \A n \in Server : PrefixOf(log[n], <<>>)
    BY <1>4, PrefixReflexive DEF Init
  <2>2. Agree(<<>>, <<>>)
    BY DEF Agree
  <2>3. \A m : m \notin Received("append_entries")
    BY <1>2 DEF Received
  <2>4. \A i : i \notin 1..Len(<<>>)
    BY <1>4
  <2> HIDE DEF Init
  <2> QED BY <1>4, <2>1, <2>2, <2>3, <2>4 DEF Histories
<1> QED BY <1>1, <1>3, <1>4, <1>5 DEF LogInv, HistoriesExist

\* Every step of every node, a crash in the middle of a merge included, keeps
\* the logs in agreement.
LEMMA NextLogs == LogInv /\ [Next]_vars => LogInv'
<1> SUFFICES ASSUME LogInv, [Next]_vars PROVE LogInv'
  OBVIOUS
<1>0. ElectionInv' /\ TypeInv'
  BY NextElection DEF LogInv, ElectionInv
<1> SUFFICES RolesAreEarned' /\ HistoriesExist'
  BY <1>0 DEF LogInv
<1>1. CASE \E n \in Server : StartElection(n)
  BY <1>0, <1>1, StartElectionLogs
<1>2. CASE \E m \in Received("request_vote") : HandleRequestVote(m)
  BY <1>0, <1>2, HandleRequestVoteLogs
<1>3. CASE \E m \in Received("request_vote_reply") : HandleVoteReply(m)
  <2>1. PICK m \in Received("request_vote_reply") : HandleVoteReply(m)
    BY <1>3
  <2>2. CASE StepDownOnReply(m)
    BY <1>0, <2>2, StepDownOnReplyLogs DEF Received
  <2>3. CASE IgnoreVote(m)
    BY <1>0, <2>3, DiscardOnlyLogs DEF IgnoreVote
  <2>4. CASE CountVote(m)
    BY <1>0, <2>4, CountVoteLogs
  <2>5. CASE WinElection(m)
    BY <1>0, <2>5, WinElectionLogs
  <2> QED BY <2>1, <2>2, <2>3, <2>4, <2>5 DEF HandleVoteReply
<1>4. CASE \E m \in Received("append_entries") : HandleAppendEntries(m)
  <2>1. PICK m \in Received("append_entries") : HandleAppendEntries(m)
    BY <1>4
  <2>2. CASE RejectStaleAppend(m)
    BY <1>0, <2>2, RejectStaleAppendLogs
  <2>3. CASE RejectMismatch(m)
    BY <1>0, <2>3, RejectMismatchLogs
  <2>4. CASE AcceptAppend(m)
    BY <1>0, <2>4, AcceptAppendLogs
  <2>5. CASE TornAppend(m)
    BY <1>0, <2>5, TornAppendLogs
  <2> QED BY <2>1, <2>2, <2>3, <2>4, <2>5 DEF HandleAppendEntries
<1>5. CASE \E m \in Received("append_entries_reply") : HandleAppendReply(m)
  <2>1. PICK m \in Received("append_entries_reply") : HandleAppendReply(m)
    BY <1>5
  <2>2. CASE StepDownOnReply(m)
    BY <1>0, <2>2, StepDownOnReplyLogs DEF Received
  <2>3. CASE IgnoreAppendReply(m)
    BY <1>0, <2>3, DiscardOnlyLogs DEF IgnoreAppendReply
  <2>4. CASE AppendAcknowledged(m)
    BY <1>0, <2>4, AppendAcknowledgedLogs
  <2>5. CASE AppendRefused(m)
    BY <1>0, <2>5, AppendRefusedLogs
  <2> QED BY <2>1, <2>2, <2>3, <2>4, <2>5 DEF HandleAppendReply
<1>6. CASE \E n \in Server, c \in Command : ClientSubmit(n, c)
  BY <1>0, <1>6, ClientSubmitLogs
<1>7. CASE \E n \in Server : BroadcastHeartbeat(n)
  BY <1>0, <1>7, BroadcastHeartbeatLogs
<1>8. CASE \E n \in Server : AnswerClient(n)
  BY <1>0, <1>8, AnswerClientLogs
<1>9. CASE \E n \in Server : Restart(n)
  BY <1>0, <1>9, RestartLogs
<1>10. CASE \E m \in InFlight : Lose(m)
  BY <1>0, <1>10, DiscardOnlyLogs DEF Lose
<1>11. CASE UNCHANGED vars
  <2>1. RequestsAreSlices
    BY <1>11 DEF RequestsAreSlices, Received, InFlight, vars
  <2> QED BY <1>0, <1>11, <2>1, SameLogsStep DEF vars, stateVars, roleVars
<1> QED BY <1>1, <1>2, <1>3, <1>4, <1>5, <1>6, <1>7, <1>8, <1>9, <1>10, <1>11
  DEF Next

\* Beginnings of histories that agree, agree.
LEMMA HistoriesMeanMatching == LogInv => LogMatching
<1> SUFFICES ASSUME LogInv, NEW n \in Server, NEW p \in Server,
                    NEW i \in 1..Min({Len(log[n]), Len(log[p])}),
                    log[n][i].term = log[p][i].term
             PROVE  SubSeq(log[n], 1, i) = SubSeq(log[p], 1, i)
  BY DEF LogMatching
<1>1. /\ log[n] \in Log /\ log[p] \in Log
      /\ Len(log[n]) \in Nat /\ Len(log[p]) \in Nat
  BY LenProperties DEF LogInv, ElectionInv, TypeInv, TypeOK, Log
<1>2. PICK H \in SUBSET Log : Histories(H)
  BY DEF LogInv, HistoriesExist
<1>3. PICK K \in H : PrefixOf(log[n], K)
  BY <1>2 DEF Histories
<1>4. PICK L \in H : PrefixOf(log[p], L)
  BY <1>2 DEF Histories
<1>5. K \in Log /\ L \in Log /\ Agree(K, L)
  BY <1>2 DEF Histories
<1>6. Agree(log[n], log[p])
  BY <1>1, <1>3, <1>4, <1>5, PrefixesAgree
<1>7. i \in 1..Len(log[n]) /\ i \in 1..Len(log[p])
  BY SMTT(30), <1>1, MinOfTwo
<1>8. \A j \in 1..i : log[n][j] = log[p][j]
  BY <1>1, <1>6, <1>7 DEF Agree
<1> DEFINE s == SubSeq(log[n], 1, i)
           t == SubSeq(log[p], 1, i)
<1>9. s \in Seq(Entry) /\ Len(s) = i /\ \A j \in 1..i : s[j] = log[n][j]
  BY <1>1, <1>7, PrefixCut, PrefixType DEF PrefixOf, Log
<1>10. t \in Seq(Entry) /\ Len(t) = i /\ \A j \in 1..i : t[j] = log[p][j]
  BY <1>1, <1>7, PrefixCut, PrefixType DEF PrefixOf, Log
<1> HIDE DEF s, t
<1>11. s = t
  BY <1>8, <1>9, <1>10, SeqEqual
<1> QED BY <1>11 DEF s, t

\* Two logs that hold an entry of the same term at the same index are the same
\* up to it, for any cluster, any batch, any loss or reordering of messages, and
\* crashes that leave a merge half written (raft/log.py append_new_entries).
THEOREM LogsMatch == Spec => []LogMatching
BY InitLogs, NextLogs, HistoriesMeanMatching, PTL DEF Spec
=============================================================================
