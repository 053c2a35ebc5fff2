---------------------------- MODULE CommitProofs -----------------------------
(***************************************************************************)
(* What a leader counts is in every later leader's log, for a cluster of   *)
(* any size and any number of crashes.                                     *)
(*                                                                         *)
(* Two things are remembered that no state holds.  The history of a term   *)
(* is the log of its leader, as long as it ever was: every log and every   *)
(* request is a piece of histories.  The acknowledgements are the triples  *)
(* of a server, a term and an index such that the leader of the term was   *)
(* told, or is being told, that the server stores its log up to there.     *)
(*                                                                         *)
(* A crash in the middle of a merge may take back what was acknowledged    *)
(* (truncate_from is journalled before the term of the leader that asked   *)
(* for it), so that an acknowledgement says: the server still holds the    *)
(* entry, or a later leader was elected without it.  That leader's voters  *)
(* had not acknowledged the entry when they voted (the up-to-date check)   *)
(* and never will (their WAL holds its term).  So once a majority has      *)
(* acknowledged an entry of the leader's own term there is no such leader. *)
(***************************************************************************)
EXTENDS RaftProofs

\* The entry that the leader of t has at i, if it is of its own term.
Holds(L, t, i) == i \in 1..Len(L) /\ L[i].term = t

\* Up to each of its entries, L is what the leader of the entry's term has.
Traced(L, h) ==
    \A i \in 1..Len(L) :
        /\ i <= Len(h[L[i].term])
        /\ \A j \in 1..i : L[j] = h[L[i].term][j]

\* Where the logs and the requests come from.
Written(h) ==
    /\ h \in [Nat -> Log]
    /\ \A t \in Nat : Traced(h[t], h)
    /\ \A t \in Nat : \A i \in 1..Len(h[t]) : h[t][i].term <= t
    /\ \A t \in Nat : Len(h[t]) > 0 => \E e \in elected : e.term = t
    /\ \A n \in Server : Traced(log[n], h)
    /\ \A n \in Server : \A i \in 1..Len(log[n]) : log[n][i].term <= wal[n].term
    /\ \A n \in Server : role[n] = "leader" => log[n] = h[current_term[n]]
    /\ \A m \in Received("append_entries") :
          /\ SliceOf(m, h[m.term])
          /\ \E e \in elected : e.term = m.term

\* A later leader does not have the entry.
Lacks(e, h, t, i) == e.term > t /\ ~ Holds(h[e.term], t, i)

\* A leader was elected without the entry.
Lost(h, t, i) == \E e \in elected : Lacks(e, h, t, i)

\* Where the acknowledgements come from, a leader's own log being one.
AcksKnown(h, a) ==
    /\ a \subseteq Server \X Nat \X Nat
    /\ \A v \in Server, t, i \in Nat :
          <<v, t, i>> \in a => i <= Len(h[t]) /\ wal[v].term >= t
    /\ \A n \in Server : role[n] = "leader" =>
          /\ \A i \in 1..Len(log[n]) : <<n, current_term[n], i>> \in a
          /\ \A p \in Server : \A i \in 1..match_index[n][p] :
                <<p, current_term[n], i>> \in a
    /\ \A m \in Received("append_entries_reply") : m.success =>
          \A i \in 1..m.match_index : <<m.src, m.term, i>> \in a

\* What a server acknowledged it stores, unless a leader without it was elected.
AcksHeld(h, a) ==
    \A v \in Server, t, i \in Nat :
        <<v, t, i>> \in a /\ Holds(h[t], t, i) =>
            Holds(log[v], t, i) \/ Lost(h, t, i)

\* Who votes for a candidate acknowledged nothing that it lacks.
VotesCompared(h, a) ==
    \A v, c \in Server, t, i \in Nat :
        /\ role[c] = "candidate" /\ Promised(v, current_term[c], c)
        /\ t < current_term[c] /\ <<v, t, i>> \in a /\ Holds(h[t], t, i)
        => Holds(log[c], t, i) \/ Lost(h, t, i)

\* If leaders were elected without the entry, one was so by servers that did
\* not acknowledge it and never will.
VotersBlock(h, a) ==
    \A t, i \in Nat :
        Holds(h[t], t, i) /\ Lost(h, t, i) =>
            \E e \in elected :
                Lacks(e, h, t, i) /\ \A v \in e.voters : <<v, t, i>> \notin a

\* The histories h and the acknowledgements a explain the state.
Story(h, a) ==
    /\ Written(h)
    /\ AcksKnown(h, a)
    /\ AcksHeld(h, a)
    /\ VotesCompared(h, a)
    /\ VotersBlock(h, a)

\* Who asks for votes, or is given one, has the term in its WAL; and what it
\* said of its log is so for as long as it runs.
CandidaciesKnown ==
    /\ \A m \in Received("request_vote") :
          /\ wal[m.src].term >= m.term
          /\ role[m.src] = "candidate" /\ current_term[m.src] = m.term =>
                /\ m.last_log_index = Len(log[m.src])
                /\ m.last_log_term = LastTerm(log[m.src])
    /\ \A m \in Received("request_vote_reply") :
          m.vote_granted => wal[m.dst].term >= m.term

\* What a step has to say of the rest of the state.
TermsRise == \A n \in Server : wal'[n].term >= wal[n].term

\* Nobody wins, and who goes on leading has the log it had.
LeadersKept ==
    /\ elected' = elected
    /\ \A k \in Server : role'[k] = "leader" =>
          /\ role[k] = "leader" /\ current_term'[k] = current_term[k]
          /\ log'[k] = log[k]

\* Nobody runs, and who goes on running has the log and no more votes than it had.
CandidatesKept ==
    \A c \in Server : role'[c] = "candidate" =>
        /\ role[c] = "candidate" /\ current_term'[c] = current_term[c]
        /\ log'[c] = log[c]
        /\ \A v \in Server :
              Promised(v, current_term[c], c)' => Promised(v, current_term[c], c)

\* What a new request brings is a piece of a log whose node leads.
RequestsFromLeaders ==
    \A m \in Received("append_entries")' :
        \/ m \in Received("append_entries")
        \/ \E k \in Server :
              role'[k] = "leader" /\ m.term = current_term'[k] /\ SliceOf(m, log'[k])

\* No success is told that was not, and no leader counts one it was not told.
NothingAcked ==
    /\ \A m \in Received("append_entries_reply")' :
          m.success => m \in Received("append_entries_reply")
    /\ \A k, p \in Server : role'[k] = "leader" =>
          \/ match_index'[k][p] = match_index[k][p]
          \/ \E m \in Received("append_entries_reply") :
                /\ m.success /\ m.src = p /\ m.term = current_term[k]
                /\ m.match_index = match_index'[k][p]

-----------------------------------------------------------------------------
(***************************************************************************)
(* Logs and histories.                                                     *)
(***************************************************************************)
\* A log that holds the entry has all the leader of its term had before it.
LEMMA HeldIsTraced ==
  ASSUME NEW h, NEW L \in Log, Traced(L, h), NEW t \in Nat, NEW i \in Nat, Holds(L, t, i)
  PROVE  i \in 1..Len(L) /\ i <= Len(h[t]) /\ \A j \in 1..i : L[j] = h[t][j]
BY DEF Traced, Holds

\* The term of an entry.
LEMMA EntryTerm ==
  ASSUME NEW L \in Log, NEW i \in 1..Len(L)
  PROVE  L[i] \in Entry /\ L[i].term \in Nat \ {0}
<1>1. L[i] \in Entry
  BY ElementOfSeq DEF Log
<1> QED BY <1>1 DEF Entry

\* The terms in a log never go down.
LEMMA TermsSorted ==
  ASSUME NEW h \in [Nat -> Log], NEW L \in Log, Traced(L, h),
         \A t \in Nat : \A i \in 1..Len(h[t]) : h[t][i].term <= t,
         NEW i \in 1..Len(L), NEW j \in 1..i
  PROVE  L[j].term <= L[i].term
<1>1. Len(L) \in Nat /\ L[i].term \in Nat
  BY LenProperties, EntryTerm DEF Log
<1>2. i <= Len(h[L[i].term]) /\ L[j] = h[L[i].term][j]
  BY DEF Traced
<1>3. Len(h[L[i].term]) \in Nat
  BY <1>1, LenProperties DEF Log
<1>4. j \in 1..Len(h[L[i].term])
  BY <1>1, <1>2, <1>3
<1> QED BY <1>1, <1>2, <1>4

\* What begins a traced log is traced.
LEMMA PrefixTraced ==
  ASSUME NEW h, NEW K \in Log, NEW L \in Log, PrefixOf(K, L), Traced(L, h)
  PROVE  Traced(K, h)
<1>1. Len(K) \in Nat /\ Len(L) \in Nat
  BY LenProperties DEF Log
<1> SUFFICES ASSUME NEW i \in 1..Len(K)
             PROVE  i <= Len(h[K[i].term]) /\ \A j \in 1..i : K[j] = h[K[i].term][j]
  BY DEF Traced
<1>2. i \in 1..Len(L) /\ \A j \in 1..i : K[j] = L[j]
  BY <1>1 DEF PrefixOf
<1>3. K[i] = L[i]
  BY <1>2
<1> QED BY <1>2, <1>3 DEF Traced

\* Two traced logs agree.
LEMMA TracedAgree ==
  ASSUME NEW h, NEW K \in Log, NEW L \in Log, Traced(K, h), Traced(L, h)
  PROVE  Agree(K, L)
<1>1. Len(K) \in Nat /\ Len(L) \in Nat
  BY LenProperties DEF Log
<1> SUFFICES ASSUME NEW i \in 1..Len(K), i <= Len(L), K[i].term = L[i].term,
                    NEW j \in 1..i
             PROVE  K[j] = L[j]
  BY DEF Agree
<1> QED BY <1>1 DEF Traced

\* The up-to-date check: a candidate it lets pass has what the voter has, or the
\* leader that wrote the candidate's last entry was elected without it.
LEMMA UpToDateHolds ==
  ASSUME NEW h \in [Nat -> Log], NEW K \in Log, NEW L \in Log, Traced(K, h), Traced(L, h),
         \A t \in Nat : \A i \in 1..Len(h[t]) : h[t][i].term <= t,
         \A t \in Nat : Traced(h[t], h),
         NEW t \in Nat \ {0}, NEW i \in Nat, Holds(K, t, i),
         CandidateIsUpToDate(K, LastTerm(L), Len(L))
  PROVE  \/ Holds(L, t, i)
         \/ /\ LastTerm(L) > t /\ Len(h[LastTerm(L)]) > 0
            /\ ~ Holds(h[LastTerm(L)], t, i)
<1> DEFINE k == Len(K)
           l == Len(L)
           s == LastTerm(L)
<1>1. k \in Nat /\ l \in Nat
  BY LenProperties DEF Log
<1>2. /\ i \in 1..k /\ K[i].term = t
      /\ i <= Len(h[t]) /\ \A j \in 1..i : K[j] = h[t][j]
  BY HeldIsTraced DEF Holds
<1>3. LastTerm(K) = K[k].term /\ K[k].term >= t /\ K[k].term \in Nat
  <2>1. k # 0
    BY <1>1, <1>2
  <2>2. k \in 1..k /\ i \in 1..k
    BY <1>1, <1>2
  <2>3. K[i].term <= K[k].term
    BY <2>2, TermsSorted
  <2>4. K[k].term \in Nat
    BY <2>2, EntryTerm
  <2> QED BY <1>2, <2>1, <2>3, <2>4 DEF LastTerm, TermAt
<1>4. s \in Nat /\ s >= t /\ (s = t => l >= i)
  <2>1. s \in Nat
    BY LastTermType
  <2>2. s > LastTerm(K) \/ (s = LastTerm(K) /\ l >= k)
    BY DEF CandidateIsUpToDate
  <2>3. LastTerm(K) \in Nat /\ LastTerm(K) >= t
    BY <1>3
  <2> HIDE DEF s, k, l
  <2> QED BY <1>1, <1>2, <2>1, <2>2, <2>3
<1>5. l # 0
  BY <1>1, <1>4 DEF LastTerm, TermAt
<1>6. l \in 1..l /\ s = L[l].term
  BY <1>1, <1>5 DEF LastTerm, TermAt
<1>7. l <= Len(h[s]) /\ \A j \in 1..l : L[j] = h[s][j]
  BY <1>6 DEF Traced
<1>8. Len(h[s]) \in Nat
  BY <1>4, LenProperties DEF Log
<1>9. CASE s = t
  <2>1. i \in 1..l
    BY <1>1, <1>2, <1>4, <1>9
  <2>2. L[i] = h[t][i] /\ K[i] = h[t][i]
    BY <1>2, <1>7, <1>9, <2>1
  <2> QED BY <1>2, <2>1, <2>2 DEF Holds
<1>10. CASE s > t /\ Holds(h[s], t, i)
  <2>1. i \in 1..Len(h[s]) /\ h[s][i].term = t
    BY <1>10 DEF Holds
  <2>2. i <= l
    <3> SUFFICES ASSUME i > l PROVE FALSE
      BY <1>1, <1>2
    <3>1. l \in 1..i
      BY <1>1, <1>2, <1>6
    <3>2. h[s] \in Log /\ Traced(h[s], h)
      BY <1>4
    <3>3. h[s][l].term <= h[s][i].term
      BY <2>1, <3>1, <3>2, TermsSorted
    <3>4. h[s][l].term = s
      BY <1>6, <1>7
    <3> QED BY <1>4, <1>10, <2>1, <3>3, <3>4
  <2>3. i \in 1..l /\ L[i] = h[s][i]
    BY <1>1, <1>2, <1>7, <2>2
  <2> QED BY <2>1, <2>3 DEF Holds
<1>11. CASE s > t /\ ~ Holds(h[s], t, i)
  <2>1. Len(h[s]) > 0
    BY <1>1, <1>5, <1>7, <1>8
  <2> QED BY <1>11, <2>1
<1> QED BY <1>4, <1>9, <1>10, <1>11

-----------------------------------------------------------------------------
(***************************************************************************)
(* Merges.                                                                 *)
(***************************************************************************)
\* A merge keeps what the log has in common with the leader's.
LEMMA MergeKeeps ==
  ASSUME NEW m, NEW lg \in Log, NEW L \in Log,
         m.prev_log_index \in Nat, m.entries \in Seq(Entry), SliceOf(m, L),
         HasEntry(lg, m.prev_log_index, m.prev_log_term),
         NEW k \in Nat, k <= Len(lg), k <= Len(L), \A j \in 1..k : lg[j] = L[j]
  PROVE  k <= KeptLength(lg, m.prev_log_index, m.entries)
<1> DEFINE prev == m.prev_log_index
           batch == m.entries
           D == Disagreements(lg, prev, batch)
<1>1. Len(lg) \in Nat /\ Len(L) \in Nat /\ Len(batch) \in Nat /\ prev \in Nat
  BY LenProperties DEF Log
<1>2. CASE D = {}
  BY <1>2 DEF KeptLength
<1>3. CASE D # {}
  <2>1. /\ KeptLength(lg, prev, batch) = prev + Min(D) - 1
        /\ Min(D) \in D /\ Min(D) \in 1..Len(batch)
    BY <1>1, <1>3, MinIsLeast, D \in SUBSET Nat DEF KeptLength, Disagreements
  <2>2. PICK x \in 1..Len(batch) : x = Min(D)
    BY <2>1
  <2>3. ~ HasEntry(lg, prev + x, batch[x].term)
    BY <2>1, <2>2 DEF Disagreements
  <2>4. batch[x] = L[prev + x]
    BY <2>2 DEF SliceOf
  <2> HIDE DEF prev, batch
  <2>5. prev + x > k
    <3> SUFFICES ASSUME prev + x <= k PROVE FALSE
      BY <1>1
    <3>1. prev + x \in 1..k /\ prev + x \in 0..Len(lg) /\ prev + x # 0
      BY <1>1
    <3>2. lg[prev + x] = batch[x]
      BY <2>4, <3>1
    <3> QED BY <2>3, <3>1, <3>2 DEF HasEntry, TermAt
  <2>6. k <= prev + x - 1
    BY <1>1, <2>5
  <2> QED BY <2>1, <2>2, <2>6 DEF prev, batch
<1> QED BY <1>2, <1>3

\* What is left of a merge, all of it or the beginning that a crash spares, is
\* the log as it was up to the kept length.
LEMMA KeptStays ==
  ASSUME NEW lg \in Log, NEW prev \in 0..Len(lg), NEW batch \in Seq(Entry),
         NEW r \in Log, PrefixOf(r, AppendNewEntries(lg, prev, batch)),
         KeptLength(lg, prev, batch) <= Len(r),
         NEW k \in Nat, k <= KeptLength(lg, prev, batch)
  PROVE  k <= Len(r) /\ k <= Len(lg) /\ \A j \in 1..k : r[j] = lg[j]
<1>1. /\ Len(lg) \in Nat /\ Len(r) \in Nat
      /\ KeptLength(lg, prev, batch) \in prev..Len(lg)
  BY LenProperties, KeptLengthBounds DEF Log
<1>2. \A j \in 1..KeptLength(lg, prev, batch) :
         AppendNewEntries(lg, prev, batch)[j] = lg[j]
  BY MergeProperties DEF Log
<1> QED BY <1>1, <1>2 DEF PrefixOf

\* An entry that the leader holds too survives a merge, whatever a crash leaves
\* of that.
LEMMA MergeHolds ==
  ASSUME NEW h, NEW m, NEW lg \in Log, NEW L \in Log,
         m.prev_log_index \in Nat, m.entries \in Seq(Entry), SliceOf(m, L),
         HasEntry(lg, m.prev_log_index, m.prev_log_term),
         Traced(lg, h), Traced(L, h),
         NEW r \in Log,
         PrefixOf(r, AppendNewEntries(lg, m.prev_log_index, m.entries)),
         KeptLength(lg, m.prev_log_index, m.entries) <= Len(r),
         NEW t \in Nat, NEW i \in Nat, Holds(lg, t, i), Holds(L, t, i)
  PROVE  Holds(r, t, i)
<1>1. i \in 1..Len(lg) /\ \A j \in 1..i : lg[j] = h[t][j]
  BY HeldIsTraced
<1>2. i \in 1..Len(L) /\ \A j \in 1..i : L[j] = h[t][j]
  BY HeldIsTraced
<1>3. i <= Len(lg) /\ i <= Len(L) /\ \A j \in 1..i : lg[j] = L[j]
  BY <1>1, <1>2
<1>4. i <= KeptLength(lg, m.prev_log_index, m.entries)
  BY <1>3, MergeKeeps
<1>5. m.prev_log_index \in 0..Len(lg)
  BY DEF HasEntry
<1>6. i <= Len(r) /\ \A j \in 1..i : r[j] = lg[j]
  BY <1>4, <1>5, KeptStays
<1>7. Len(r) \in Nat /\ i \in 1..i
  BY <1>1, LenProperties DEF Log
<1> QED BY <1>6, <1>7 DEF Holds

\* A merge of traced logs is traced, and so is what a crash leaves of it.
LEMMA MergeTraced ==
  ASSUME NEW h, NEW m, NEW lg \in Log, NEW L \in Log,
         m.prev_log_index \in Nat, m.entries \in Seq(Entry), SliceOf(m, L),
         HasEntry(lg, m.prev_log_index, m.prev_log_term),
         Traced(lg, h), Traced(L, h),
         NEW r \in Log,
         PrefixOf(r, AppendNewEntries(lg, m.prev_log_index, m.entries)),
         AppendNewEntries(lg, m.prev_log_index, m.entries) \in Log
  PROVE  Traced(r, h)
<1>1. PrefixOf(lg, lg) /\ Agree(lg, L)
  BY PrefixReflexive, TracedAgree
<1>2. Traced(AppendNewEntries(lg, m.prev_log_index, m.entries), h)
  BY <1>1, MergeEither, PrefixTraced
<1> QED BY <1>2, PrefixTraced

\* After a merge the log is the leader's up to the last entry of the request.
LEMMA MergeCovers ==
  ASSUME NEW h, NEW m, NEW lg \in Log, NEW L \in Log,
         m.prev_log_index \in Nat, m.entries \in Seq(Entry), SliceOf(m, L),
         HasEntry(lg, m.prev_log_index, m.prev_log_term),
         Traced(lg, h), Traced(L, h),
         NEW i \in 1..m.prev_log_index + Len(m.entries)
  PROVE  LET merged == AppendNewEntries(lg, m.prev_log_index, m.entries)
         IN  i <= Len(merged) /\ merged[i] = L[i]
<1> DEFINE prev == m.prev_log_index
           batch == m.entries
           last == prev + Len(batch)
           merged == AppendNewEntries(lg, prev, batch)
<1>1. /\ Len(lg) \in Nat /\ Len(L) \in Nat /\ Len(batch) \in Nat
      /\ prev \in Nat /\ last \in Nat /\ last <= Len(L)
  BY LenProperties DEF Log, SliceOf
<1>2. Agree(lg, L)
  BY TracedAgree
<1>3. \/ merged = lg /\ Disagreements(lg, prev, batch) = {}
      \/ PrefixOf(merged, L) /\ Len(merged) = last
  BY <1>2, PrefixReflexive, MergeEither
<1>4. CASE merged = lg /\ Disagreements(lg, prev, batch) = {}
  <2>1. last \in 1..Len(lg) /\ lg[last].term = L[last].term
    <3>1. CASE Len(batch) = 0
      <4>1. HasEntry(lg, last, m.prev_log_term) /\ TermAt(L, last) = m.prev_log_term
        BY <1>1, <3>1 DEF SliceOf
      <4>2. last # 0
        BY <1>1
      <4> HIDE DEF last
      <4> QED BY <1>1, <4>1, <4>2 DEF HasEntry, TermAt
    <3>2. CASE Len(batch) # 0
      <4> DEFINE x == Len(batch)
      <4>1. x \in 1..Len(batch) /\ last = prev + x
        BY <1>1, <3>2
      <4>2. HasEntry(lg, prev + x, batch[x].term)
        BY <1>4, <4>1 DEF Disagreements
      <4>3. batch[x] = L[prev + x]
        BY <4>1 DEF SliceOf
      <4>4. last # 0
        BY <1>1, <3>2
      <4> HIDE DEF x, last
      <4> QED BY <1>1, <4>1, <4>2, <4>3, <4>4 DEF HasEntry, TermAt
    <3> QED BY <3>1, <3>2
  <2>2. i \in 1..last /\ i <= Len(lg)
    BY <1>1, <2>1
  <2>3. lg[i] = L[i]
    BY <1>1, <1>2, <2>1, <2>2 DEF Agree
  <2> QED BY <1>4, <2>2, <2>3
<1>5. CASE PrefixOf(merged, L) /\ Len(merged) = last
  <2> HIDE DEF merged
  <2>1. i \in 1..Len(merged)
    BY <1>5
  <2>2. i <= Len(merged) /\ merged[i] = L[i]
    BY <1>1, <1>5, <2>1 DEF PrefixOf
  <2> QED BY <2>2 DEF merged
<1> QED BY <1>3, <1>4, <1>5

-----------------------------------------------------------------------------
(***************************************************************************)
(* What a step does to the story, when no leader's log grows.              *)
(***************************************************************************)
\* Who is known to have voted in a term has it in its WAL.
LEMMA PromiseBinds ==
  ASSUME ElectionInv, NEW v \in Server, NEW c \in Server, NEW t \in Nat, Promised(v, t, c)
  PROVE  wal[v].term \in Nat /\ wal[v].term >= t
<1>1. wal[v].term \in Nat
  BY DEF ElectionInv, TypeInv, TypeOK, WalRecord
<1>2. Bound(v, t, c)
  BY DurableMeans DEF ElectionInv, TypeInv, DurableOneByOne
<1> QED BY <1>1, <1>2 DEF Bound

\* Nor does a voter of a leader go back to before that leader's term.
LEMMA VoterBound ==
  ASSUME ElectionInv, NEW e \in elected, NEW v \in e.voters
  PROVE  v \in Server /\ e.term \in Nat /\ wal[v].term \in Nat /\ wal[v].term >= e.term
<1>1. e.term \in Nat /\ e.leader \in Server /\ v \in Server
  BY DEF ElectionInv, TypeInv, TypeOK
<1>2. Promised(v, e.term, e.leader)
  BY DEF Promised
<1> QED BY <1>1, <1>2, PromiseBinds

\* Acknowledgements that are new come from servers nothing binds to a later term.
FreshOnly(a, b) ==
    \A v \in Server, t, i \in Nat :
        <<v, t, i>> \in b => <<v, t, i>> \in a \/ wal[v].term <= t

\* Acknowledgements that are new are of what is stored.
StoredOnly(h, a, b) ==
    \A v \in Server, t, i \in Nat :
        <<v, t, i>> \in b /\ Holds(h[t], t, i) =>
            <<v, t, i>> \in a \/ Holds(log'[v], t, i)

\* Every log is still a piece of histories.
LEMMA WrittenStep ==
  ASSUME TypeInv, TypeInv', RolesAreEarned', LeadersKept, RequestsFromLeaders,
         NEW h, Written(h),
         \A n \in Server : Traced(log'[n], h),
         \A n \in Server : \A i \in 1..Len(log'[n]) : log'[n][i].term <= wal'[n].term
  PROVE  Written(h)'
<1>1. \A t \in Nat : Len(h[t]) > 0 => \E e \in elected' : e.term = t
  BY DEF Written, LeadersKept
<1>2. \A n \in Server : role'[n] = "leader" => log'[n] = h[current_term'[n]]
  BY DEF Written, LeadersKept
<1>3. ASSUME NEW m \in Received("append_entries")'
      PROVE  SliceOf(m, h[m.term]) /\ \E e \in elected' : e.term = m.term
  <2>1. CASE m \in Received("append_entries")
    BY <2>1 DEF Written, LeadersKept
  <2>2. CASE \E k \in Server :
               role'[k] = "leader" /\ m.term = current_term'[k] /\ SliceOf(m, log'[k])
    BY <1>2, <2>2 DEF RolesAreEarned
  <2> QED BY <2>1, <2>2 DEF RequestsFromLeaders
<1>4. /\ h \in [Nat -> Log]
      /\ \A t \in Nat : Traced(h[t], h)
      /\ \A t \in Nat : \A i \in 1..Len(h[t]) : h[t][i].term <= t
  BY DEF Written
<1> QED BY <1>1, <1>2, <1>3, <1>4 DEF Written

\* What was told and counted was acknowledged before.
LEMMA AcksKnownStep ==
  ASSUME TypeInv, TypeInv', LeadersKept, NothingAcked, TermsRise,
         NEW h, NEW a, AcksKnown(h, a)
  PROVE  AcksKnown(h, a)'
<1>1. ASSUME NEW v \in Server, NEW t \in Nat, NEW i \in Nat, <<v, t, i>> \in a
      PROVE  i <= Len(h[t]) /\ wal'[v].term >= t
  <2>1. i <= Len(h[t]) /\ wal[v].term >= t
    BY <1>1 DEF AcksKnown
  <2>2. wal[v].term \in Nat /\ wal'[v].term \in Nat /\ wal'[v].term >= wal[v].term
    BY DEF TypeInv, TypeOK, WalRecord, TermsRise
  <2> QED BY <2>1, <2>2
<1>2. ASSUME NEW n \in Server, role'[n] = "leader"
      PROVE  /\ \A i \in 1..Len(log'[n]) : <<n, current_term'[n], i>> \in a
             /\ \A p \in Server : \A i \in 1..match_index'[n][p] :
                   <<p, current_term'[n], i>> \in a
  <2>1. role[n] = "leader" /\ current_term'[n] = current_term[n] /\ log'[n] = log[n]
    BY <1>2 DEF LeadersKept
  <2>2. ASSUME NEW p \in Server
        PROVE  \A i \in 1..match_index'[n][p] : <<p, current_term[n], i>> \in a
    BY <1>2, <2>1 DEF AcksKnown, NothingAcked
  <2> QED BY <2>1, <2>2 DEF AcksKnown
<1>3. \A m \in Received("append_entries_reply")' : m.success =>
         \A i \in 1..m.match_index : <<m.src, m.term, i>> \in a
  BY DEF AcksKnown, NothingAcked
<1>4. a \subseteq Server \X Nat \X Nat
  BY DEF AcksKnown
<1> QED BY <1>1, <1>2, <1>3, <1>4 DEF AcksKnown

\* What was stored still is, or was lost.
LEMMA AcksHeldStep ==
  ASSUME LeadersKept, NEW h, NEW a, NEW b, AcksHeld(h, a),
         \A v \in Server, t, i \in Nat :
            Holds(log[v], t, i) /\ Holds(h[t], t, i) =>
                Holds(log'[v], t, i) \/ Lost(h, t, i),
         StoredOnly(h, a, b)
  PROVE  AcksHeld(h, b)'
<1>1. \A t, i : Lost(h, t, i)' <=> Lost(h, t, i)
  BY DEF Lost, Lacks, LeadersKept
<1> SUFFICES ASSUME NEW v \in Server, NEW t \in Nat, NEW i \in Nat,
                    <<v, t, i>> \in b, Holds(h[t], t, i)
             PROVE  Holds(log'[v], t, i) \/ Lost(h, t, i)'
  BY DEF AcksHeld
<1> QED BY <1>1 DEF AcksHeld, StoredOnly

\* Who runs ran before, on the same votes.
LEMMA VotesComparedStep ==
  ASSUME ElectionInv, LeadersKept, CandidatesKept, NEW h, NEW a, NEW b,
         VotesCompared(h, a), FreshOnly(a, b)
  PROVE  VotesCompared(h, b)'
<1>1. \A t, i : Lost(h, t, i)' <=> Lost(h, t, i)
  BY DEF Lost, Lacks, LeadersKept
<1> SUFFICES ASSUME NEW v \in Server, NEW c \in Server, NEW t \in Nat, NEW i \in Nat,
                    role'[c] = "candidate", Promised(v, current_term[c], c)',
                    current_term'[c] = current_term[c],
                    t < current_term[c], <<v, t, i>> \in b, Holds(h[t], t, i)
             PROVE  Holds(log'[c], t, i) \/ Lost(h, t, i)
  <2>1. \A c \in Server : role'[c] = "candidate" => current_term'[c] = current_term[c]
    BY DEF CandidatesKept
  <2> QED BY <1>1, <2>1 DEF VotesCompared
<1>2. /\ role[c] = "candidate" /\ log'[c] = log[c]
      /\ Promised(v, current_term[c], c)
  BY DEF CandidatesKept
<1>3. current_term[c] \in Nat
  BY DEF ElectionInv, TypeInv, TypeOK
<1>4. wal[v].term \in Nat /\ wal[v].term >= current_term[c]
  BY <1>2, <1>3, PromiseBinds
<1>5. <<v, t, i>> \in a
  BY <1>3, <1>4 DEF FreshOnly
<1> QED BY <1>2, <1>5 DEF VotesCompared

\* The leaders that were elected without an entry are those of before, and the
\* voters that did not acknowledge it do not now.
LEMMA VotersBlockStep ==
  ASSUME ElectionInv, LeadersKept, NEW h, NEW a, NEW b,
         VotersBlock(h, a), FreshOnly(a, b)
  PROVE  VotersBlock(h, b)'
<1>1. \A t, i : Lost(h, t, i)' <=> Lost(h, t, i)
  BY DEF Lost, Lacks, LeadersKept
<1> SUFFICES ASSUME NEW t \in Nat, NEW i \in Nat, Holds(h[t], t, i), Lost(h, t, i)
             PROVE  \E e \in elected' :
                       Lacks(e, h, t, i) /\ \A v \in e.voters : <<v, t, i>> \notin b
  BY <1>1 DEF VotersBlock
<1>2. PICK e \in elected :
         Lacks(e, h, t, i) /\ \A v \in e.voters : <<v, t, i>> \notin a
  BY DEF VotersBlock
<1>3. ASSUME NEW v \in e.voters PROVE <<v, t, i>> \notin b
  <2>1. v \in Server /\ e.term \in Nat /\ wal[v].term \in Nat /\ wal[v].term >= e.term
    BY VoterBound
  <2>2. e.term > t
    BY <1>2 DEF Lacks
  <2> QED BY <1>2, <2>1, <2>2 DEF FreshOnly
<1> QED BY <1>2, <1>3 DEF LeadersKept

\* When no log changes, all but the candidates' part of the story goes on.
LEMMA SameLogsStory ==
  ASSUME LogInv, TypeInv', RolesAreEarned', log' = log, LeadersKept,
         RequestsFromLeaders, NothingAcked, TermsRise, NEW h, NEW a, Story(h, a)
  PROVE  Written(h)' /\ AcksKnown(h, a)' /\ AcksHeld(h, a)' /\ VotersBlock(h, a)'
<1> USE DEF LogInv, ElectionInv, Story
<1>1. \A n \in Server : Traced(log'[n], h)
  BY DEF Written
<1>2. ASSUME NEW n \in Server, NEW i \in 1..Len(log'[n])
      PROVE  log'[n][i].term <= wal'[n].term
  <2>1. log[n] \in Log /\ i \in 1..Len(log[n]) /\ log[n][i].term <= wal[n].term
    BY DEF Written, TypeInv, TypeOK, Log
  <2>2. log[n][i].term \in Nat
    BY <2>1, EntryTerm
  <2>3. wal[n].term \in Nat /\ wal'[n].term \in Nat /\ wal'[n].term >= wal[n].term
    BY DEF TypeInv, TypeOK, WalRecord, TermsRise
  <2> QED BY <2>1, <2>2, <2>3
<1>3. Written(h)'
  BY <1>1, <1>2, WrittenStep
<1>4. AcksKnown(h, a)'
  BY AcksKnownStep
<1>5. FreshOnly(a, a)
  BY DEF FreshOnly
<1>6. StoredOnly(h, a, a) /\ AcksHeld(h, a)'
  BY AcksHeldStep DEF StoredOnly
<1>7. VotersBlock(h, a)'
  BY <1>5, VotersBlockStep
<1> QED BY <1>3, <1>4, <1>6, <1>7

\* When no log changes and nobody starts to run or gets a new vote.
LEMMA QuietStory ==
  ASSUME LogInv, TypeInv', RolesAreEarned', log' = log, LeadersKept, CandidatesKept,
         RequestsFromLeaders, NothingAcked, TermsRise, NEW h, NEW a, Story(h, a)
  PROVE  Story(h, a)'
<1>1. FreshOnly(a, a)
  BY DEF FreshOnly
<1>2. VotesCompared(h, a)'
  BY <1>1, VotesComparedStep DEF LogInv, Story
<1> QED BY <1>2, SameLogsStory DEF Story

-----------------------------------------------------------------------------
(***************************************************************************)
(* The steps that leave the logs alone, elections apart.                   *)
(***************************************************************************)
\* What is sent asks for no vote, grants none and acknowledges nothing; its
\* requests are a leader's.
Harmless(S) ==
    \A x \in S :
        /\ x.type # "request_vote"
        /\ x.type = "request_vote_reply" => ~ x.vote_granted
        /\ x.type = "append_entries_reply" => ~ x.success
        /\ x.type = "append_entries" =>
              \E k \in Server :
                 role'[k] = "leader" /\ x.term = current_term'[k] /\ SliceOf(x, log'[k])

\* No vote is asked for and none is granted.
NoNewVotes ==
    /\ \A m \in Received("request_vote")' : m \in Received("request_vote")
    /\ \A m \in Received("request_vote_reply")' :
          m.vote_granted => m \in Received("request_vote_reply")

\* No success is told that was not.
NoNewSuccess ==
    \A m \in Received("append_entries_reply")' :
        m.success => m \in Received("append_entries_reply")

\* What is in flight after such sends.
LEMMA HarmlessEffect ==
  ASSUME NEW S, InFlight' \subseteq InFlight \cup S, Harmless(S)
  PROVE  NoNewVotes /\ NoNewSuccess /\ RequestsFromLeaders
<1>1. \A type : \A m \in Received(type)' :
         m.type = type /\ (m \in Received(type) \/ m \in S)
  BY DEF Received
<1>2. NoNewVotes
  BY <1>1 DEF NoNewVotes, Harmless
<1>3. NoNewSuccess
  BY <1>1 DEF NoNewSuccess, Harmless
<1>4. RequestsFromLeaders
  BY <1>1 DEF RequestsFromLeaders, Harmless
<1> QED BY <1>2, <1>3, <1>4

\* Candidacies stay known when no vote is asked for or granted.
LEMMA CandidaciesStep ==
  ASSUME TypeInv, TypeInv', CandidaciesKnown, CandidatesKept, NoNewVotes, TermsRise
  PROVE  CandidaciesKnown'
<1>1. \A n \in Server : /\ wal[n].term \in Nat /\ wal'[n].term \in Nat
                       /\ wal'[n].term >= wal[n].term
  BY DEF TypeInv, TypeOK, WalRecord, TermsRise
<1>2. ASSUME NEW m \in Received("request_vote")'
      PROVE  /\ wal'[m.src].term >= m.term
             /\ role'[m.src] = "candidate" /\ current_term'[m.src] = m.term =>
                   /\ m.last_log_index = Len(log'[m.src])
                   /\ m.last_log_term = LastTerm(log'[m.src])
  <2>1. /\ m \in Received("request_vote") /\ m.src \in Server /\ m.term \in Nat
        /\ wal[m.src].term >= m.term
    BY ReceivedFields DEF NoNewVotes, CandidaciesKnown, Received, TypeInv, TypeOK
  <2>2. wal'[m.src].term >= m.term
    BY <1>1, <2>1
  <2> QED BY <2>1, <2>2 DEF CandidaciesKnown, CandidatesKept
<1>3. ASSUME NEW m \in Received("request_vote_reply")', m.vote_granted
      PROVE  wal'[m.dst].term >= m.term
  <2>1. /\ m \in Received("request_vote_reply") /\ m.dst \in Server /\ m.term \in Nat
        /\ wal[m.dst].term >= m.term
    BY <1>3, ReceivedFields DEF NoNewVotes, CandidaciesKnown, Received, TypeInv, TypeOK
  <2> QED BY <1>1, <2>1
<1> QED BY <1>2, <1>3 DEF CandidaciesKnown

\* A node that becomes a follower leaves leaders and candidates as they are.
LEMMA FollowerKept ==
  ASSUME TypeOK, NEW n \in Server, BecomeFollower(n), UNCHANGED elected,
         \A k \in Server \ {n} :
            current_term'[k] = current_term[k] /\ log'[k] = log[k],
         NoNewVotes, NoNewSuccess
  PROVE  LeadersKept /\ CandidatesKept /\ NothingAcked
<1>1. /\ role'[n] = "follower"
      /\ \A k \in Server \ {n} : /\ role'[k] = role[k] /\ granted'[k] = granted[k]
                                /\ match_index'[k] = match_index[k]
  BY DEF BecomeFollower, TypeOK
<1>2. LeadersKept /\ NothingAcked
  BY <1>1 DEF LeadersKept, NothingAcked, NoNewSuccess
<1>3. CandidatesKept
  BY <1>1 DEF CandidatesKept, Promised, NoNewVotes
<1> QED BY <1>2, <1>3

\* Nor does a step that touches neither roles nor tallies nor logs.
LEMMA RolesKept ==
  ASSUME UNCHANGED <<log, role, current_term, granted, elected>>, NoNewVotes
  PROVE  LeadersKept /\ CandidatesKept
BY DEF LeadersKept, CandidatesKept, Promised, NoNewVotes

\* StepDownOnReply goes on with the story.
LEMMA StepDownOnReplyStory ==
  ASSUME LogInv, LogInv', CandidaciesKnown, TermsRise, NEW h, NEW a, Story(h, a),
         NEW m \in InFlight, StepDownOnReply(m)
  PROVE  CandidaciesKnown' /\ Story(h, a)'
<1> USE DEF LogInv, ElectionInv, TypeInv
<1>1. m.dst \in Server
  BY ReceivedFields DEF TypeOK
<1>2. /\ BecomeFollower(m.dst) /\ UNCHANGED <<log, elected>>
      /\ current_term' = [current_term EXCEPT ![m.dst] = m.term]
      /\ Discard(m)
  BY DEF StepDownOnReply
<1>3. Harmless({}) /\ InFlight' \subseteq InFlight \cup {}
  BY <1>2, DiscardEffect DEF TypeOK, Harmless
<1>4. NoNewVotes /\ NoNewSuccess /\ RequestsFromLeaders
  BY <1>3, HarmlessEffect
<1>5. LeadersKept /\ CandidatesKept /\ NothingAcked
  BY <1>1, <1>2, <1>4, FollowerKept DEF TypeOK
<1> QED BY <1>2, <1>4, <1>5, QuietStory, CandidaciesStep

\* An envelope that is lost or ignored goes on with the story.
LEMMA DiscardOnlyStory ==
  ASSUME LogInv, LogInv', CandidaciesKnown, TermsRise, NEW h, NEW a, Story(h, a),
         NEW m, Discard(m), UNCHANGED <<stateVars, roleVars, elected>>
  PROVE  CandidaciesKnown' /\ Story(h, a)'
<1> USE DEF LogInv, ElectionInv, TypeInv
<1>1. UNCHANGED <<log, role, current_term, granted, match_index, elected>>
  BY DEF stateVars, roleVars
<1>2. Harmless({}) /\ InFlight' \subseteq InFlight \cup {}
  BY DiscardEffect DEF TypeOK, Harmless
<1>3. NoNewVotes /\ NoNewSuccess /\ RequestsFromLeaders
  BY <1>2, HarmlessEffect
<1>4. LeadersKept /\ CandidatesKept /\ NothingAcked
  BY <1>1, <1>3, RolesKept DEF NothingAcked, NoNewSuccess
<1> QED BY <1>1, <1>3, <1>4, QuietStory, CandidaciesStep

\* CountVote goes on with the story: the vote was in flight.
LEMMA CountVoteStory ==
  ASSUME LogInv, LogInv', CandidaciesKnown, TermsRise, NEW h, NEW a, Story(h, a),
         NEW m \in Received("request_vote_reply"), CountVote(m)
  PROVE  CandidaciesKnown' /\ Story(h, a)'
<1> USE DEF LogInv, ElectionInv, TypeInv
<1>1. m.dst \in Server
  BY ReceivedFields DEF Received, TypeOK
<1>2. /\ granted' = [granted EXCEPT ![m.dst] = Tally(m.dst, m)]
      /\ Discard(m) /\ m.term = current_term[m.dst]
      /\ UNCHANGED <<log, role, current_term, match_index, elected>>
  BY DEF CountVote, stateVars
<1>3. Harmless({}) /\ InFlight' \subseteq InFlight \cup {}
  BY <1>2, DiscardEffect DEF TypeOK, Harmless
<1>4. NoNewVotes /\ NoNewSuccess /\ RequestsFromLeaders
  BY <1>3, HarmlessEffect
<1>5. LeadersKept /\ NothingAcked
  BY <1>2, <1>4 DEF LeadersKept, NothingAcked, NoNewSuccess
<1>6. ASSUME NEW c \in Server, NEW v \in Server, Promised(v, current_term[c], c)'
      PROVE  Promised(v, current_term[c], c)
  <2>1. CASE c = m.dst /\ v \in granted'[c]
    <3>1. v \in Tally(m.dst, m)
      BY <1>1, <1>2, <2>1 DEF TypeOK
    <3> QED BY <1>2, <2>1, <3>1, TallyIsPromised
  <2>2. CASE c # m.dst \/ v \notin granted'[c]
    <3>1. v \in granted'[c] => v \in granted[c]
      BY <1>1, <1>2, <2>2 DEF TypeOK
    <3> QED BY <1>2, <1>4, <1>6, <3>1 DEF Promised, NoNewVotes
  <2> QED BY <2>1, <2>2
<1>7. CandidatesKept
  BY <1>2, <1>6 DEF CandidatesKept
<1> QED BY <1>2, <1>4, <1>5, <1>7, QuietStory, CandidaciesStep

\* RejectStaleAppend goes on with the story.
LEMMA RejectStaleAppendStory ==
  ASSUME LogInv, LogInv', CandidaciesKnown, TermsRise, NEW h, NEW a, Story(h, a),
         NEW m \in Received("append_entries"), RejectStaleAppend(m)
  PROVE  CandidaciesKnown' /\ Story(h, a)'
<1> DEFINE S == {AppendEntriesReply(m.dst, m.src, current_term[m.dst], FALSE, 0)}
<1> USE DEF LogInv, ElectionInv, TypeInv
<1>1. Answer(m, S) /\ UNCHANGED <<log, role, current_term, granted, match_index, elected>>
  BY DEF RejectStaleAppend, stateVars, roleVars
<1>2. Harmless(S)
  BY DEF AppendEntriesReply, Harmless
<1> HIDE DEF S
<1>3. InFlight' \subseteq InFlight \cup S
  BY <1>1, AnswerEffect DEF TypeOK
<1>4. NoNewVotes /\ NoNewSuccess /\ RequestsFromLeaders
  BY <1>2, <1>3, HarmlessEffect
<1>5. LeadersKept /\ CandidatesKept /\ NothingAcked
  BY <1>1, <1>4, RolesKept DEF NothingAcked, NoNewSuccess
<1> QED BY <1>1, <1>4, <1>5, QuietStory, CandidaciesStep

\* RejectMismatch goes on with the story.
LEMMA RejectMismatchStory ==
  ASSUME LogInv, LogInv', CandidaciesKnown, TermsRise, NEW h, NEW a, Story(h, a),
         NEW m \in Received("append_entries"), RejectMismatch(m)
  PROVE  CandidaciesKnown' /\ Story(h, a)'
<1> DEFINE S == {AppendEntriesReply(m.dst, m.src, m.term, FALSE, 0)}
<1> USE DEF LogInv, ElectionInv, TypeInv
<1>1. m.dst \in Server
  BY ReceivedFields DEF Received, TypeOK
<1>2. /\ Answer(m, S) /\ UNCHANGED <<log, elected>>
      /\ current_term' = [current_term EXCEPT ![m.dst] = m.term]
      /\ BecomeFollower(m.dst)
  BY DEF RejectMismatch, FollowLeader
<1>3. Harmless(S)
  BY DEF AppendEntriesReply, Harmless
<1> HIDE DEF S
<1>4. InFlight' \subseteq InFlight \cup S
  BY <1>2, AnswerEffect DEF TypeOK
<1>5. NoNewVotes /\ NoNewSuccess /\ RequestsFromLeaders
  BY <1>3, <1>4, HarmlessEffect
<1>6. LeadersKept /\ CandidatesKept /\ NothingAcked
  BY <1>1, <1>2, <1>5, FollowerKept DEF TypeOK
<1> QED BY <1>2, <1>5, <1>6, QuietStory, CandidaciesStep

\* A leader's requests are harmless.
LEMMA LeaderHarmless ==
  ASSUME TypeOK', NEW n \in Server, role'[n] = "leader",
         current_term'[n] = current_term[n], NEW Q \in SUBSET Server
  PROVE  Harmless({Replicate(n, p) : p \in Q})
<1> SUFFICES ASSUME NEW p \in Q
             PROVE  /\ Replicate(n, p).type = "append_entries"
                    /\ Replicate(n, p).term = current_term'[n]
                    /\ SliceOf(Replicate(n, p), log'[n])
  BY DEF Harmless
<1>1. next_index'[n][p] \in Nat \ {0}
  BY DEF TypeOK, NextIndexPositive
<1>2. SliceOf(Replicate(n, p), log'[n])
  BY <1>1, ReplicateIsSlice
<1>3. Replicate(n, p).type = "append_entries" /\ Replicate(n, p).term = current_term[n]
  BY DEF Replicate, BuildAppendEntries
<1> QED BY <1>2, <1>3

\* BroadcastHeartbeat goes on with the story.
LEMMA BroadcastHeartbeatStory ==
  ASSUME LogInv, LogInv', CandidaciesKnown, TermsRise, NEW h, NEW a, Story(h, a),
         NEW n \in Server, BroadcastHeartbeat(n)
  PROVE  CandidaciesKnown' /\ Story(h, a)'
<1> USE DEF LogInv, ElectionInv, TypeInv
<1>1. /\ role[n] = "leader"
      /\ UNCHANGED <<log, role, current_term, granted, match_index, elected>>
  BY DEF BroadcastHeartbeat, stateVars, roleVars
<1>2. PICK free \in SUBSET Peers(n) : Send({Replicate(n, p) : p \in free})
  BY DEF BroadcastHeartbeat
<1>3. InFlight' \subseteq InFlight \cup {Replicate(n, p) : p \in free}
  BY <1>2, SendEffect DEF TypeOK
<1>4. Harmless({Replicate(n, p) : p \in free})
  BY <1>1, LeaderHarmless DEF Peers
<1>5. NoNewVotes /\ NoNewSuccess /\ RequestsFromLeaders
  BY <1>3, <1>4, HarmlessEffect
<1>6. LeadersKept /\ CandidatesKept /\ NothingAcked
  BY <1>1, <1>5, RolesKept DEF NothingAcked, NoNewSuccess
<1> QED BY <1>1, <1>5, <1>6, QuietStory, CandidaciesStep

\* A step that sends and assigns nothing but the WAL goes on with the story.
LEMMA SilentStory ==
  ASSUME LogInv, LogInv', CandidaciesKnown, TermsRise, NEW h, NEW a, Story(h, a),
         UNCHANGED <<stateVars, roleVars, network, elected>>
  PROVE  CandidaciesKnown' /\ Story(h, a)'
<1> USE DEF LogInv, ElectionInv, TypeInv
<1>1. UNCHANGED <<log, role, current_term, granted, match_index, elected>>
  BY DEF stateVars, roleVars
<1>2. Harmless({}) /\ InFlight' \subseteq InFlight \cup {}
  BY DEF InFlight, Harmless
<1>3. NoNewVotes /\ NoNewSuccess /\ RequestsFromLeaders
  BY <1>2, HarmlessEffect
<1>4. LeadersKept /\ CandidatesKept /\ NothingAcked
  BY <1>1, <1>3, RolesKept DEF NothingAcked, NoNewSuccess
<1> QED BY <1>1, <1>3, <1>4, QuietStory, CandidaciesStep

\* AppendAcknowledged goes on with the story: what the leader counts now was
\* told to it.
LEMMA AppendAcknowledgedStory ==
  ASSUME LogInv, LogInv', CandidaciesKnown, TermsRise, NEW h, NEW a, Story(h, a),
         NEW m \in Received("append_entries_reply"), AppendAcknowledged(m)
  PROVE  CandidaciesKnown' /\ Story(h, a)'
<1> DEFINE n == m.dst
           Q == {q \in {m.src} : NextAfterSuccess(n, m)[m.src] <= Len(log[n])}
<1> USE DEF LogInv, ElectionInv, TypeInv
<1>1. n \in Server /\ m.src \in Server /\ m.match_index \in Nat
  BY ReceivedFields DEF Received, TypeOK
<1>2. /\ role[n] = "leader" /\ m.success
      /\ Answer(m, {Replicate(n, p) : p \in Q})
      /\ match_index' = [match_index EXCEPT ![n] = MatchAfter(n, m)]
      /\ UNCHANGED <<log, role, current_term, granted, elected>>
  BY DEF AppendAcknowledged
<1>3. Q \in SUBSET Server
  BY <1>1
<1> HIDE DEF Q
<1>4. InFlight' \subseteq InFlight \cup {Replicate(n, p) : p \in Q}
  BY <1>2, AnswerEffect DEF TypeOK
<1>5. Harmless({Replicate(n, p) : p \in Q})
  BY <1>1, <1>2, <1>3, LeaderHarmless
<1>6. NoNewVotes /\ NoNewSuccess /\ RequestsFromLeaders
  BY <1>4, <1>5, HarmlessEffect
<1>7. LeadersKept /\ CandidatesKept
  BY <1>2, <1>6, RolesKept
<1>8. ASSUME NEW p \in Server
      PROVE  \/ MatchAfter(n, m)[p] = match_index[n][p]
             \/ /\ m.src = p /\ m.term = current_term[n]
                /\ m.match_index = MatchAfter(n, m)[p]
  <2>1. match_index[n] \in [Server -> Nat] /\ match_index[n][p] \in Nat
    BY <1>1 DEF TypeOK
  <2>2. CASE p = m.src /\ m.term = current_term[n]
    <3>1. MatchAfter(n, m)[p] = Max({match_index[n][p], m.match_index})
      BY <1>1, <2>1, <2>2 DEF MatchAfter
    <3> QED BY <1>1, <2>1, <2>2, <3>1, MaxOfTwo
  <2>3. CASE ~ (p = m.src /\ m.term = current_term[n])
    BY <2>1, <2>3 DEF MatchAfter
  <2> QED BY <2>2, <2>3
<1>9. ASSUME NEW k \in Server, NEW p \in Server
      PROVE  \/ match_index'[k][p] = match_index[k][p]
             \/ /\ m.src = p /\ m.term = current_term[k]
                /\ m.match_index = match_index'[k][p]
  <2>1. match_index' = [match_index EXCEPT ![n] = MatchAfter(n, m)]
        /\ match_index \in [Server -> [Server -> Nat]]
    BY <1>2 DEF TypeOK
  <2> QED BY <1>1, <1>8, <2>1
<1>10. NothingAcked
  BY <1>2, <1>6, <1>9 DEF NothingAcked, NoNewSuccess
<1> QED BY <1>2, <1>6, <1>7, <1>10, QuietStory, CandidaciesStep

\* AppendRefused goes on with the story.
LEMMA AppendRefusedStory ==
  ASSUME LogInv, LogInv', CandidaciesKnown, TermsRise, NEW h, NEW a, Story(h, a),
         NEW m \in Received("append_entries_reply"), AppendRefused(m)
  PROVE  CandidaciesKnown' /\ Story(h, a)'
<1> DEFINE n == m.dst
           Q == {m.src}
<1> USE DEF LogInv, ElectionInv, TypeInv
<1>1. n \in Server /\ Q \in SUBSET Server
  BY ReceivedFields DEF Received, TypeOK
<1>2. /\ role[n] = "leader" /\ Answer(m, {Replicate(n, m.src)})
      /\ UNCHANGED <<log, role, current_term, granted, match_index, elected>>
  BY DEF AppendRefused, stateVars
<1>3. {Replicate(n, m.src)} = {Replicate(n, p) : p \in Q}
  OBVIOUS
<1>4. InFlight' \subseteq InFlight \cup {Replicate(n, m.src)}
  BY <1>2, AnswerEffect DEF TypeOK
<1> HIDE DEF Q
<1>5. Harmless({Replicate(n, p) : p \in Q})
  BY <1>1, <1>2, LeaderHarmless
<1>6. NoNewVotes /\ NoNewSuccess /\ RequestsFromLeaders
  BY <1>3, <1>4, <1>5, HarmlessEffect
<1>7. LeadersKept /\ CandidatesKept /\ NothingAcked
  BY <1>2, <1>6, RolesKept DEF NothingAcked, NoNewSuccess
<1> QED BY <1>2, <1>6, <1>7, QuietStory, CandidaciesStep

\* Restart goes on with the story.
LEMMA RestartStory ==
  ASSUME LogInv, LogInv', CandidaciesKnown, TermsRise, NEW h, NEW a, Story(h, a),
         NEW n \in Server, Restart(n)
  PROVE  CandidaciesKnown' /\ Story(h, a)'
<1> USE DEF LogInv, ElectionInv, TypeInv
<1>1. /\ log' = [log EXCEPT ![n] = log[n]]
      /\ current_term' = [current_term EXCEPT ![n] = wal[n].term]
      /\ BecomeFollower(n) /\ UNCHANGED <<elected, network>>
  BY DEF Restart, Recover
<1>2. log' = log
  BY <1>1 DEF TypeOK
<1>3. Harmless({}) /\ InFlight' \subseteq InFlight \cup {}
  BY <1>1 DEF InFlight, Harmless
<1>4. NoNewVotes /\ NoNewSuccess /\ RequestsFromLeaders
  BY <1>3, HarmlessEffect
<1>5. LeadersKept /\ CandidatesKept /\ NothingAcked
  BY <1>1, <1>2, <1>4, FollowerKept DEF TypeOK
<1> QED BY <1>2, <1>4, <1>5, QuietStory, CandidaciesStep

-----------------------------------------------------------------------------
(***************************************************************************)
(* The steps that ask for a vote or cast one.                              *)
(***************************************************************************)
\* Whoever has a log up to date with that of a server that acknowledged an entry
\* holds the entry, unless it was lost already.
LEMMA UpToDateOrLost ==
  ASSUME TypeOK, NEW h, NEW a, Written(h), AcksHeld(h, a),
         NEW v \in Server, NEW c \in Server, NEW t \in Nat, NEW i \in Nat,
         <<v, t, i>> \in a, Holds(h[t], t, i),
         CandidateIsUpToDate(log[v], LastTerm(log[c]), Len(log[c]))
  PROVE  Holds(log[c], t, i) \/ Lost(h, t, i)
<1> SUFFICES ASSUME Holds(log[v], t, i)
             PROVE  Holds(log[c], t, i) \/ Lost(h, t, i)
  BY DEF AcksHeld
<1>1. /\ h \in [Nat -> Log] /\ log[v] \in Log /\ log[c] \in Log
      /\ Traced(log[v], h) /\ Traced(log[c], h)
      /\ \A s \in Nat : Traced(h[s], h)
      /\ \A s \in Nat : \A j \in 1..Len(h[s]) : h[s][j].term <= s
  BY DEF Written, TypeOK, Log
<1>2. t \in Nat \ {0}
  <2>1. h[t] \in Log /\ i \in 1..Len(h[t]) /\ h[t][i].term = t
    BY <1>1 DEF Holds
  <2> QED BY <2>1, EntryTerm
<1> DEFINE s == LastTerm(log[c])
<1>3. s \in Nat
  BY <1>1, LastTermType
<1>4. \/ Holds(log[c], t, i)
      \/ s > t /\ Len(h[s]) > 0 /\ ~ Holds(h[s], t, i)
  BY <1>1, <1>2, UpToDateHolds
<1> HIDE DEF s
<1>5. CASE s > t /\ Len(h[s]) > 0 /\ ~ Holds(h[s], t, i)
  <2>1. PICK e \in elected : e.term = s
    BY <1>3, <1>5 DEF Written
  <2> QED BY <1>5, <2>1 DEF Lost, Lacks
<1> QED BY <1>4, <1>5

\* HandleRequestVote goes on with the story: a vote is cast for a log that is up
\* to date.
LEMMA HandleRequestVoteStory ==
  ASSUME LogInv, LogInv', CandidaciesKnown, TermsRise, NEW h, NEW a, Story(h, a),
         NEW m \in Received("request_vote"), HandleRequestVote(m)
  PROVE  CandidaciesKnown' /\ Story(h, a)'
<1> DEFINE n == m.dst
           reply == RequestVoteReply(n, m.src, current_term'[n], GrantsVote(n, m))
<1> USE DEF LogInv, ElectionInv, TypeInv
<1>1. n \in Server /\ m.src \in Server /\ m.term \in Nat
  BY ReceivedFields DEF Received, TypeOK
<1>2. Answer(m, {reply}) /\ UNCHANGED <<log, elected>>
  BY DEF HandleRequestVote
<1>3. /\ \A k \in Server : role'[k] # "follower" =>
            /\ role'[k] = role[k] /\ current_term'[k] = current_term[k]
            /\ granted'[k] = granted[k] /\ match_index'[k] = match_index[k]
      /\ GrantsVote(n, m) => current_term'[n] = m.term
  <2>1. CASE m.term > current_term[n]
    <3>1. /\ current_term' = [current_term EXCEPT ![n] = m.term]
          /\ BecomeFollower(n)
      BY <2>1 DEF HandleRequestVote
    <3>2. current_term'[n] = m.term /\ role'[n] = "follower"
      BY <1>1, <3>1 DEF BecomeFollower, TypeOK
    <3>3. \A k \in Server \ {n} :
             /\ role'[k] = role[k] /\ current_term'[k] = current_term[k]
             /\ granted'[k] = granted[k] /\ match_index'[k] = match_index[k]
      BY SMTT(30), <3>1 DEF BecomeFollower, TypeOK
    <3> QED BY <3>2, <3>3
  <2>2. CASE ~ (m.term > current_term[n])
    <3>1. UNCHANGED <<role, current_term, granted, match_index>>
      BY <2>2 DEF HandleRequestVote, roleVars
    <3>2. GrantsVote(n, m) => m.term >= current_term[n]
      BY DEF GrantsVote
    <3>3. current_term[n] \in Nat
      BY <1>1 DEF TypeOK
    <3>4. GrantsVote(n, m) => current_term[n] = m.term
      BY <1>1, <2>2, <3>2, <3>3
    <3> QED BY <3>1, <3>4
  <2> QED BY <2>1, <2>2
<1>4. /\ reply.type = "request_vote_reply" /\ reply.src = n /\ reply.dst = m.src
      /\ reply.term = current_term'[n] /\ reply.vote_granted = GrantsVote(n, m)
  BY DEF RequestVoteReply
<1> HIDE DEF reply
<1>5. InFlight' \subseteq InFlight \cup {reply}
  BY <1>2, AnswerEffect DEF TypeOK
<1>6. \A type : \A x \in Received(type)' :
         x.type = type /\ (x \in Received(type) \/ x = reply)
  BY <1>5 DEF Received
<1>7. LeadersKept
  BY <1>2, <1>3 DEF LeadersKept
<1>8. NothingAcked
  BY <1>3, <1>4, <1>6 DEF NothingAcked
<1>9. RequestsFromLeaders
  BY <1>4, <1>6 DEF RequestsFromLeaders
<1>10. Written(h)' /\ AcksKnown(h, a)' /\ AcksHeld(h, a)' /\ VotersBlock(h, a)'
  BY <1>2, <1>7, <1>8, <1>9, SameLogsStory
<1>11. ASSUME NEW v \in Server, NEW c \in Server, NEW t \in Nat, NEW i \in Nat,
              role'[c] = "candidate", Promised(v, current_term[c], c)',
              t < current_term'[c], <<v, t, i>> \in a, Holds(h[t], t, i)
       PROVE  Holds(log'[c], t, i) \/ Lost(h, t, i)'
  <2>1. Lost(h, t, i)' <=> Lost(h, t, i)
    BY <1>2 DEF Lost, Lacks
  <2>2. /\ role[c] = "candidate" /\ current_term'[c] = current_term[c]
        /\ granted'[c] = granted[c] /\ log'[c] = log[c]
    BY <1>2, <1>3, <1>11
  <2>3. CASE Promised(v, current_term[c], c)
    BY <1>11, <2>1, <2>2, <2>3 DEF Story, VotesCompared
  <2>4. CASE ~ Promised(v, current_term[c], c)
    <3>1. /\ GrantsVote(n, m) /\ v = n /\ c = m.src
          /\ current_term[c] = current_term'[n]
      BY <1>2, <1>4, <1>6, <1>11, <2>2, <2>4 DEF Promised
    <3>2. current_term[c] = m.term
      BY <1>3, <3>1
    <3>3. m.last_log_index = Len(log[c]) /\ m.last_log_term = LastTerm(log[c])
      BY <2>2, <3>1, <3>2 DEF CandidaciesKnown
    <3>4. CandidateIsUpToDate(log[v], LastTerm(log[c]), Len(log[c]))
      BY <3>1, <3>3 DEF GrantsVote
    <3>5. Holds(log[c], t, i) \/ Lost(h, t, i)
      BY <1>11, <3>4, UpToDateOrLost DEF Story
    <3> QED BY <2>1, <2>2, <3>5
  <2> QED BY <2>3, <2>4
<1>12. VotesCompared(h, a)'
  BY <1>11 DEF VotesCompared
<1>13. \A k \in Server : /\ wal[k].term \in Nat /\ wal'[k].term \in Nat
                        /\ wal'[k].term >= wal[k].term
  BY DEF TypeOK, WalRecord, TermsRise
<1>14. ASSUME NEW x \in Received("request_vote")'
       PROVE  /\ wal'[x.src].term >= x.term
              /\ role'[x.src] = "candidate" /\ current_term'[x.src] = x.term =>
                    /\ x.last_log_index = Len(log'[x.src])
                    /\ x.last_log_term = LastTerm(log'[x.src])
  <2>1. x \in Received("request_vote")
    BY <1>4, <1>6
  <2>2. x.src \in Server /\ x.term \in Nat /\ wal[x.src].term >= x.term
    BY <2>1, ReceivedFields DEF CandidaciesKnown, Received, TypeOK
  <2>3. wal'[x.src].term >= x.term
    BY <1>13, <2>2
  <2> QED BY <1>2, <1>3, <2>1, <2>2, <2>3 DEF CandidaciesKnown
<1>15. ASSUME NEW x \in Received("request_vote_reply")', x.vote_granted
       PROVE  wal'[x.dst].term >= x.term
  <2>1. CASE x \in Received("request_vote_reply")
    <3>1. x.dst \in Server /\ x.term \in Nat /\ wal[x.dst].term >= x.term
      BY <1>15, <2>1, ReceivedFields DEF CandidaciesKnown, Received, TypeOK
    <3> QED BY <1>13, <3>1
  <2>2. CASE x = reply
    <3>1. x.dst = m.src /\ x.term = m.term /\ wal[m.src].term >= m.term
      BY <1>3, <1>4, <1>15, <2>2 DEF CandidaciesKnown
    <3> QED BY <1>1, <1>13, <3>1
  <2> QED BY <1>6, <2>1, <2>2
<1>16. CandidaciesKnown'
  BY <1>14, <1>15 DEF CandidaciesKnown
<1> QED BY <1>10, <1>12, <1>16 DEF Story

\* StartElection goes on with the story: nobody has voted yet in the term, but the
\* candidate for itself.
LEMMA StartElectionStory ==
  ASSUME LogInv, LogInv', CandidaciesKnown, TermsRise, NEW h, NEW a, Story(h, a),
         NEW n \in Server, StartElection(n)
  PROVE  CandidaciesKnown' /\ Story(h, a)'
<1> DEFINE S == {RequestVote(n, p, current_term[n] + 1,
                             Len(log[n]), LastTerm(log[n])) : p \in Peers(n)}
<1> USE DEF LogInv, ElectionInv, TypeInv
<1>1. /\ current_term' = [current_term EXCEPT ![n] = @ + 1]
      /\ role' = [role EXCEPT ![n] = "candidate"]
      /\ granted' = [granted EXCEPT ![n] = {n}]
      /\ Send(S) /\ UNCHANGED <<log, match_index, elected>>
      /\ Persist(n)
  BY DEF StartElection
<1>2. /\ current_term[n] \in Nat /\ current_term'[n] = current_term[n] + 1
      /\ role'[n] = "candidate" /\ granted'[n] = {n}
      /\ \A k \in Server \ {n} : /\ current_term'[k] = current_term[k]
                                /\ role'[k] = role[k] /\ granted'[k] = granted[k]
      /\ wal'[n].term = current_term'[n]
  BY <1>1 DEF TypeOK, Persist
<1>3. \A x \in S : /\ x.type = "request_vote" /\ x.src = n
                  /\ x.term = current_term[n] + 1
                  /\ x.last_log_index = Len(log[n])
                  /\ x.last_log_term = LastTerm(log[n])
  BY DEF RequestVote
<1> HIDE DEF S
<1>4. InFlight' \subseteq InFlight \cup S
  BY <1>1, SendEffect DEF TypeOK
<1>5. \A type : \A x \in Received(type)' :
         x.type = type /\ (x \in Received(type) \/ x \in S)
  BY <1>4 DEF Received
<1>6. LeadersKept
  BY <1>1, <1>2 DEF LeadersKept
<1>7. NothingAcked
  BY <1>1, <1>3, <1>5 DEF NothingAcked
<1>8. RequestsFromLeaders
  BY <1>3, <1>5 DEF RequestsFromLeaders
<1>9. Written(h)' /\ AcksKnown(h, a)' /\ AcksHeld(h, a)' /\ VotersBlock(h, a)'
  BY <1>1, <1>6, <1>7, <1>8, SameLogsStory
<1>10. \A k \in Server : /\ wal[k].term \in Nat /\ wal'[k].term \in Nat
                        /\ wal'[k].term >= wal[k].term
                        /\ wal[k].term <= current_term[k]
                        /\ current_term[k] \in Nat
  BY DEF TypeOK, WalRecord, TermsRise, WalBehind
<1>11. ASSUME NEW v \in Server, Promised(v, current_term[n], n)'
       PROVE  v = n
  <2>1. ASSUME NEW x \in Received("request_vote_reply")', x.vote_granted, x.dst = n
        PROVE  x.term # current_term'[n]
    <3>1. x \in Received("request_vote_reply")
      BY <1>3, <1>5
    <3>2. x.term \in Nat /\ wal[n].term >= x.term
      BY <2>1, <3>1, ReceivedFields DEF CandidaciesKnown, Received, TypeOK
    <3> QED BY <1>2, <1>10, <3>2
  <2>2. ASSUME NEW e \in elected', e.leader = n
        PROVE  e.term # current_term'[n]
    <3>1. e \in elected /\ e.term \in Nat
      BY <1>1 DEF TypeOK
    <3>2. e.term <= current_term[n]
      BY <2>2, <3>1, NotElectedYet
    <3> QED BY <1>2, <3>1, <3>2
  <2>3. v \in granted'[n]
    BY <1>11, <2>1, <2>2 DEF Promised
  <2> QED BY <1>2, <2>3
<1>12. ASSUME NEW v \in Server, NEW c \in Server, NEW t \in Nat, NEW i \in Nat,
              role'[c] = "candidate", Promised(v, current_term[c], c)',
              t < current_term'[c], <<v, t, i>> \in a, Holds(h[t], t, i)
       PROVE  Holds(log'[c], t, i) \/ Lost(h, t, i)'
  <2>1. (Lost(h, t, i)' <=> Lost(h, t, i)) /\ log'[c] = log[c]
    BY <1>1 DEF Lost, Lacks
  <2>2. CASE c = n
    <3>1. v = n
      BY <1>11, <1>12, <2>2
    <3> QED BY <1>12, <2>1, <2>2, <3>1 DEF Story, AcksHeld
  <2>3. CASE c # n
    <3>1. Promised(v, current_term[c], c)
      BY <1>1, <1>2, <1>3, <1>5, <1>12, <2>3 DEF Promised
    <3> QED BY <1>2, <1>12, <2>1, <2>3, <3>1 DEF Story, VotesCompared
  <2> QED BY <2>2, <2>3
<1>13. VotesCompared(h, a)'
  BY <1>12 DEF VotesCompared
<1>14. ASSUME NEW x \in Received("request_vote")'
       PROVE  /\ wal'[x.src].term >= x.term
              /\ role'[x.src] = "candidate" /\ current_term'[x.src] = x.term =>
                    /\ x.last_log_index = Len(log'[x.src])
                    /\ x.last_log_term = LastTerm(log'[x.src])
  <2>1. CASE x \in S
    BY <1>1, <1>2, <1>3, <2>1
  <2>2. CASE x \in Received("request_vote")
    <3>1. x.src \in Server /\ x.term \in Nat /\ wal[x.src].term >= x.term
      BY <2>2, ReceivedFields DEF CandidaciesKnown, Received, TypeOK
    <3>2. wal'[x.src].term >= x.term
      BY <1>10, <3>1
    <3>3. CASE x.src = n
      BY <1>2, <1>10, <3>1, <3>2, <3>3
    <3>4. CASE x.src # n
      BY <1>1, <1>2, <2>2, <3>1, <3>2, <3>4 DEF CandidaciesKnown
    <3> QED BY <3>3, <3>4
  <2> QED BY <1>5, <2>1, <2>2
<1>15. ASSUME NEW x \in Received("request_vote_reply")', x.vote_granted
       PROVE  wal'[x.dst].term >= x.term
  <2>1. x \in Received("request_vote_reply")
    BY <1>3, <1>5
  <2>2. x.dst \in Server /\ x.term \in Nat /\ wal[x.dst].term >= x.term
    BY <1>15, <2>1, ReceivedFields DEF CandidaciesKnown, Received, TypeOK
  <2> QED BY <1>10, <2>2
<1>16. CandidaciesKnown'
  BY <1>14, <1>15 DEF CandidaciesKnown
<1> QED BY <1>9, <1>13, <1>16 DEF Story
-----------------------------------------------------------------------------
(***************************************************************************)
(* The steps that merge.                                                   *)
(***************************************************************************)
\* The entries of a log are of terms its node has been in.
LEMMA TermsBehind ==
  ASSUME ElectionInv, NEW h, Written(h), NEW n \in Server, NEW i \in 1..Len(log[n])
  PROVE  /\ log[n][i].term \in Nat /\ log[n][i].term <= wal[n].term
         /\ wal[n].term \in Nat /\ wal[n].term <= current_term[n]
         /\ current_term[n] \in Nat
<1>1. log[n] \in Log
  BY DEF ElectionInv, TypeInv, TypeOK, Log
<1>2. log[n][i].term \in Nat
  BY <1>1, EntryTerm
<1> QED BY <1>2 DEF Written, ElectionInv, TypeInv, TypeOK, WalRecord, WalBehind

\* The request an acceptance acts on, the log it meets and the history it is of.
LEMMA AcceptedRequest ==
  ASSUME ElectionInv, NEW h, Written(h),
         NEW m \in Received("append_entries"), Accepts(m.dst, m)
  PROVE  /\ m.dst \in Server /\ m.src \in Server /\ m.term \in Nat
         /\ m.prev_log_index \in Nat /\ m.entries \in Seq(Entry)
         /\ log[m.dst] \in Log /\ h[m.term] \in Log
         /\ SliceOf(m, h[m.term])
         /\ \E e \in elected : e.term = m.term
         /\ HasEntry(log[m.dst], m.prev_log_index, m.prev_log_term)
         /\ Traced(log[m.dst], h) /\ Traced(h[m.term], h)
         /\ m.term >= current_term[m.dst]
<1>1. /\ m.dst \in Server /\ m.src \in Server /\ m.term \in Nat
      /\ m.prev_log_index \in Nat /\ m.entries \in Seq(Entry)
  BY ReceivedFields DEF Received, ElectionInv, TypeInv, TypeOK
<1>2. log[m.dst] \in Log /\ h[m.term] \in Log
  BY <1>1 DEF Written, ElectionInv, TypeInv, TypeOK, Log
<1>3. /\ HasEntry(log[m.dst], m.prev_log_index, m.prev_log_term)
      /\ m.term >= current_term[m.dst]
  BY DEF Accepts
<1> QED BY <1>1, <1>2, <1>3 DEF Written

\* What a merge drops its leader does not have: if it had been acknowledged, it
\* was lost when that leader was elected.
LEMMA MergeDropsLost ==
  ASSUME ElectionInv, NEW h, Written(h),
         NEW m \in Received("append_entries"), Accepts(m.dst, m), NEW lg \in Log,
         PrefixOf(lg, AppendNewEntries(log[m.dst], m.prev_log_index, m.entries)),
         KeptLength(log[m.dst], m.prev_log_index, m.entries) <= Len(lg),
         NEW t \in Nat, NEW i \in Nat, Holds(log[m.dst], t, i), Holds(h[t], t, i)
  PROVE  Holds(lg, t, i) \/ Lost(h, t, i)
<1> DEFINE n == m.dst
<1>1. /\ n \in Server /\ m.term \in Nat
      /\ m.prev_log_index \in Nat /\ m.entries \in Seq(Entry)
      /\ log[n] \in Log /\ h[m.term] \in Log
      /\ SliceOf(m, h[m.term])
      /\ HasEntry(log[n], m.prev_log_index, m.prev_log_term)
      /\ Traced(log[n], h) /\ Traced(h[m.term], h)
      /\ m.term >= current_term[n]
  BY AcceptedRequest
<1>2. PICK e \in elected : e.term = m.term
  BY AcceptedRequest
<1>3. CASE Holds(h[m.term], t, i)
  BY <1>1, <1>3, MergeHolds
<1>4. CASE ~ Holds(h[m.term], t, i)
  <2>1. i \in 1..Len(log[n]) /\ log[n][i].term = t
    BY DEF Holds
  <2>2. t <= wal[n].term /\ wal[n].term <= current_term[n]
        /\ wal[n].term \in Nat /\ current_term[n] \in Nat
    BY <1>1, <2>1, TermsBehind
  <2>3. m.term # t
    BY <1>4
  <2>4. m.term > t
    BY <1>1, <2>2, <2>3
  <2> QED BY <1>2, <1>4, <2>4 DEF Lost, Lacks
<1> QED BY <1>3, <1>4

\* A merge goes on with the logs' part of the story, and acknowledges what it
\* leaves in the log.
LEMMA MergedStory ==
  ASSUME LogInv, TypeInv', RolesAreEarned', LeadersKept, CandidatesKept,
         RequestsFromLeaders, NEW h, NEW a, NEW b, Story(h, a),
         NEW m \in Received("append_entries"), Accepts(m.dst, m), NEW lg \in Log,
         PrefixOf(lg, AppendNewEntries(log[m.dst], m.prev_log_index, m.entries)),
         KeptLength(log[m.dst], m.prev_log_index, m.entries) <= Len(lg),
         log' = [log EXCEPT ![m.dst] = lg],
         \A i \in 1..Len(lg) : lg[i].term <= wal'[m.dst].term,
         \A k \in Server \ {m.dst} : wal'[k] = wal[k],
         FreshOnly(a, b), StoredOnly(h, a, b)
  PROVE  /\ Written(h)' /\ AcksHeld(h, b)'
         /\ VotesCompared(h, b)' /\ VotersBlock(h, b)'
<1> DEFINE n == m.dst
<1> USE DEF LogInv, Story
<1>1. n \in Server /\ m.term \in Nat /\ m.prev_log_index \in Nat
      /\ m.entries \in Seq(Entry)
      /\ log[n] \in Log /\ h[m.term] \in Log /\ SliceOf(m, h[m.term])
      /\ HasEntry(log[n], m.prev_log_index, m.prev_log_term)
      /\ Traced(log[n], h) /\ Traced(h[m.term], h)
  BY AcceptedRequest
<1>2. log'[n] = lg /\ \A k \in Server \ {n} : log'[k] = log[k]
  BY <1>1 DEF ElectionInv, TypeInv, TypeOK
<1>3. AppendNewEntries(log[n], m.prev_log_index, m.entries) \in Log
  BY AcceptedMerge DEF ElectionInv
<1>4. Traced(lg, h)
  BY <1>1, <1>3, MergeTraced
<1>5. \A k \in Server : Traced(log'[k], h)
  BY <1>2, <1>4 DEF Written
<1>6. \A k \in Server : \A i \in 1..Len(log'[k]) : log'[k][i].term <= wal'[k].term
  BY <1>2 DEF Written
<1>7. Written(h)'
  BY <1>5, <1>6, WrittenStep DEF ElectionInv
<1>8. \A v \in Server, t, i \in Nat :
         Holds(log[v], t, i) /\ Holds(h[t], t, i) =>
            Holds(log'[v], t, i) \/ Lost(h, t, i)
  BY <1>2, MergeDropsLost
<1>9. AcksHeld(h, b)'
  BY <1>8, AcksHeldStep
<1>10. VotesCompared(h, b)' /\ VotersBlock(h, b)'
  BY VotesComparedStep, VotersBlockStep
<1> QED BY <1>7, <1>9, <1>10

\* The terms in a merge are of the leader's term at most.
LEMMA MergedTerms ==
  ASSUME ElectionInv, NEW h, Written(h),
         NEW m \in Received("append_entries"), Accepts(m.dst, m),
         NEW lg, lg = AppendNewEntries(log[m.dst], m.prev_log_index, m.entries)
  PROVE  lg \in Log /\ \A i \in 1..Len(lg) : lg[i].term <= m.term
<1> DEFINE n == m.dst
<1>1. /\ n \in Server /\ m.term \in Nat /\ m.prev_log_index \in Nat
      /\ m.entries \in Seq(Entry)
      /\ log[n] \in Log /\ h[m.term] \in Log /\ SliceOf(m, h[m.term])
      /\ HasEntry(log[n], m.prev_log_index, m.prev_log_term)
      /\ Traced(log[n], h) /\ Traced(h[m.term], h)
      /\ m.term >= current_term[n]
  BY AcceptedRequest
<1>2. PrefixOf(log[n], log[n]) /\ Agree(log[n], h[m.term])
  BY <1>1, PrefixReflexive, TracedAgree
<1>3. lg = log[n] \/ PrefixOf(lg, h[m.term])
  BY <1>1, <1>2, MergeEither
<1>4. lg \in Log
  BY AcceptedMerge DEF ElectionInv
<1>5. CASE lg = log[n]
  <2> SUFFICES ASSUME NEW i \in 1..Len(log[n]) PROVE log[n][i].term <= m.term
    BY <1>4, <1>5
  <2>1. /\ log[n][i].term \in Nat /\ log[n][i].term <= wal[n].term
        /\ wal[n].term \in Nat /\ wal[n].term <= current_term[n]
        /\ current_term[n] \in Nat
    BY <1>1, TermsBehind
  <2> QED BY <1>1, <2>1
<1>6. CASE PrefixOf(lg, h[m.term])
  <2>1. Len(lg) \in Nat /\ Len(h[m.term]) \in Nat
    BY <1>1, <1>4, LenProperties DEF Log
  <2>2. \A i \in 1..Len(lg) : i \in 1..Len(h[m.term]) /\ lg[i] = h[m.term][i]
    BY <1>6, <2>1 DEF PrefixOf
  <2> QED BY <1>1, <1>4, <2>2 DEF Written
<1> QED BY <1>3, <1>5, <1>6

\* What an acceptance acknowledges.
Acknowledges(m) ==
    {<<m.dst, m.term, i>> : i \in 1..m.prev_log_index + Len(m.entries)}

\* AcceptAppend goes on with the story: what it acknowledges it stores.
LEMMA AcceptAppendStory ==
  ASSUME LogInv, LogInv', CandidaciesKnown, TermsRise, NEW h, NEW a, Story(h, a),
         NEW m \in Received("append_entries"), AcceptAppend(m)
  PROVE  CandidaciesKnown' /\ Story(h, a \cup Acknowledges(m))'
<1> DEFINE n == m.dst
           lg == AppendNewEntries(log[n], m.prev_log_index, m.entries)
           last == m.prev_log_index + Len(m.entries)
           reply == AppendEntriesReply(n, m.src, m.term, TRUE, AckedIndex(m, lg))
           b == a \cup Acknowledges(m)
<1> USE DEF LogInv, ElectionInv, TypeInv
<1>1. /\ Accepts(n, m) /\ FollowLeader(n, m) /\ Answer(m, {reply}) /\ Persist(n)
      /\ log' = [log EXCEPT ![n] = lg] /\ UNCHANGED elected
  BY DEF AcceptAppend
<1>2. /\ n \in Server /\ m.src \in Server /\ m.term \in Nat
      /\ m.prev_log_index \in Nat /\ m.entries \in Seq(Entry)
      /\ log[n] \in Log /\ h[m.term] \in Log /\ SliceOf(m, h[m.term])
      /\ HasEntry(log[n], m.prev_log_index, m.prev_log_term)
      /\ Traced(log[n], h) /\ Traced(h[m.term], h)
      /\ m.term >= current_term[n]
  BY <1>1, AcceptedRequest DEF Story
<1>3. lg \in Log /\ \A i \in 1..Len(lg) : lg[i].term <= m.term
  BY <1>1, MergedTerms DEF Story
<1>4. PrefixOf(lg, lg) /\ KeptLength(log[n], m.prev_log_index, m.entries) <= Len(lg)
  BY <1>1, <1>3, AcceptedMerge, PrefixReflexive
<1>5. /\ current_term' = [current_term EXCEPT ![n] = m.term] /\ BecomeFollower(n)
      /\ current_term'[n] = m.term
  BY <1>1, <1>2 DEF FollowLeader, TypeOK
<1>6. wal'[n].term = m.term /\ \A k \in Server \ {n} : wal'[k] = wal[k]
  BY <1>1, <1>2, <1>5 DEF Persist, TypeOK
<1>7. /\ reply.type = "append_entries_reply" /\ reply.src = n /\ reply.term = m.term
      /\ reply.match_index = last
  BY DEF AppendEntriesReply, AckedIndex
<1> HIDE DEF reply
<1>8. InFlight' \subseteq InFlight \cup {reply}
  BY <1>1, AnswerEffect DEF TypeOK
<1>9. \A type : \A x \in Received(type)' :
         x.type = type /\ (x \in Received(type) \/ x = reply)
  BY <1>8 DEF Received
<1>10. NoNewVotes /\ RequestsFromLeaders
  BY <1>7, <1>9 DEF NoNewVotes, RequestsFromLeaders
<1>11. /\ role'[n] = "follower"
       /\ \A k \in Server \ {n} :
             /\ role'[k] = role[k] /\ granted'[k] = granted[k] /\ log'[k] = log[k]
             /\ match_index'[k] = match_index[k] /\ current_term'[k] = current_term[k]
  BY <1>1, <1>2, <1>5 DEF BecomeFollower, TypeOK
<1>12. LeadersKept
  BY <1>1, <1>11 DEF LeadersKept
<1>13. CandidatesKept
  BY <1>1, <1>10, <1>11 DEF CandidatesKept, Promised, NoNewVotes
<1>14. \A v \in Server, t, i \in Nat :
          <<v, t, i>> \in Acknowledges(m) => v = n /\ t = m.term /\ i \in 1..last
  BY DEF Acknowledges
<1>15. wal[n].term \in Nat /\ wal[n].term <= m.term
  <2>1. n \in Server /\ m.term \in Nat /\ m.term >= current_term[n]
    BY <1>2
  <2>2. TypeOK /\ WalBehind
    OBVIOUS
  <2> HIDE DEF n, lg, last, b, LogInv, ElectionInv, TypeInv
  <2>3. wal[n].term \in Nat /\ current_term[n] \in Nat /\ wal[n].term <= current_term[n]
    BY <2>1, <2>2 DEF TypeOK, WalRecord, WalBehind
  <2> QED BY <2>1, <2>3
<1>16. FreshOnly(a, b)
  BY <1>14, <1>15 DEF FreshOnly
<1>17. \A i \in 1..last : i <= Len(lg) /\ lg[i] = h[m.term][i]
  BY <1>2, MergeCovers
<1>18. Len(lg) \in Nat /\ Len(h[m.term]) \in Nat /\ last \in Nat
       /\ last <= Len(h[m.term])
  BY <1>2, <1>3, LenProperties DEF Log, SliceOf
<1>19. StoredOnly(h, a, b)
  <2> SUFFICES ASSUME NEW i \in 1..last, Holds(h[m.term], m.term, i)
               PROVE  Holds(log'[n], m.term, i)
    BY <1>14 DEF StoredOnly
  <2>1. log'[n] = lg
    BY <1>1, <1>2 DEF TypeOK
  <2> HIDE DEF lg, last
  <2> QED BY <1>17, <1>18, <2>1 DEF Holds
<1>20. Written(h)' /\ AcksHeld(h, b)' /\ VotesCompared(h, b)' /\ VotersBlock(h, b)'
  <2>1. \A i \in 1..Len(lg) : lg[i].term <= wal'[n].term
    BY <1>3, <1>6
  <2>2. LogInv /\ TypeInv' /\ RolesAreEarned'
    OBVIOUS
  <2> HIDE DEF b, lg, LogInv, ElectionInv, TypeInv
  <2>3. /\ PrefixOf(lg, AppendNewEntries(log[n], m.prev_log_index, m.entries))
        /\ KeptLength(log[n], m.prev_log_index, m.entries) <= Len(lg)
    BY <1>4 DEF lg
  <2>4. /\ Accepts(n, m) /\ log' = [log EXCEPT ![n] = lg] /\ lg \in Log
        /\ \A k \in Server \ {n} : wal'[k] = wal[k]
        /\ RequestsFromLeaders
    BY <1>1, <1>3, <1>6, <1>10
  <2> QED BY <1>12, <1>13, <1>16, <1>19, <2>1, <2>2, <2>3, <2>4, MergedStory
<1>21. b \subseteq Server \X Nat \X Nat
  BY <1>2, <1>18 DEF Story, AcksKnown, Acknowledges
<1>22. ASSUME NEW v \in Server, NEW t \in Nat, NEW i \in Nat, <<v, t, i>> \in b
       PROVE  i <= Len(h[t]) /\ wal'[v].term >= t
  <2>1. CASE <<v, t, i>> \in a
    <3>1. i <= Len(h[t]) /\ wal[v].term >= t
      BY <2>1 DEF Story, AcksKnown
    <3>2. wal[v].term \in Nat /\ wal'[v].term \in Nat /\ wal'[v].term >= wal[v].term
      BY DEF TypeOK, WalRecord, TermsRise
    <3> QED BY <3>1, <3>2
  <2>2. CASE <<v, t, i>> \in Acknowledges(m)
    <3>1. v = n /\ t = m.term /\ i \in 1..last
      BY <1>14, <2>2
    <3> QED BY <1>2, <1>6, <1>18, <3>1
  <2> QED BY <1>22, <2>1, <2>2
<1>23. ASSUME NEW k \in Server, role'[k] = "leader"
       PROVE  /\ \A i \in 1..Len(log'[k]) : <<k, current_term'[k], i>> \in b
              /\ \A p \in Server : \A i \in 1..match_index'[k][p] :
                    <<p, current_term'[k], i>> \in b
  <2>1. k # n
    BY <1>11, <1>23
  <2> QED BY <1>11, <1>23, <2>1 DEF Story, AcksKnown
<1>24. ASSUME NEW x \in Received("append_entries_reply")', x.success
       PROVE  \A i \in 1..x.match_index : <<x.src, x.term, i>> \in b
  <2>1. CASE x \in Received("append_entries_reply")
    BY <1>24, <2>1 DEF Story, AcksKnown
  <2>2. CASE x = reply
    BY <1>7, <2>2 DEF Acknowledges
  <2> QED BY <1>9, <2>1, <2>2
<1>25. AcksKnown(h, b)'
  BY <1>21, <1>22, <1>23, <1>24 DEF AcksKnown
<1>26. CandidaciesKnown'
  BY <1>10, <1>13, CandidaciesStep
<1> QED BY <1>20, <1>25, <1>26 DEF Story

\* TornAppend goes on with the story: it acknowledges nothing, and what is left
\* of the log is of terms the WAL has.
LEMMA TornAppendStory ==
  ASSUME LogInv, LogInv', CandidaciesKnown, TermsRise, NEW h, NEW a, Story(h, a),
         NEW m \in Received("append_entries"), TornAppend(m)
  PROVE  CandidaciesKnown' /\ Story(h, a)'
<1> DEFINE n == m.dst
           lg == AppendNewEntries(log[n], m.prev_log_index, m.entries)
           kept == KeptLength(log[n], m.prev_log_index, m.entries)
<1> USE DEF LogInv, ElectionInv, TypeInv
<1>1. Accepts(n, m) /\ Discard(m)
  BY DEF TornAppend
<1>2. PICK written \in kept..Len(lg) :
         Recover(n, SubSeq(lg, 1, written),
                 IF written > kept THEN Journalled(n, SubSeq(lg, 1, written))
                                   ELSE wal[n])
  BY DEF TornAppend
<1> DEFINE torn == SubSeq(lg, 1, written)
           record == IF written > kept THEN Journalled(n, torn) ELSE wal[n]
<1>3. /\ n \in Server /\ m.term \in Nat
      /\ m.prev_log_index \in Nat /\ m.entries \in Seq(Entry)
      /\ log[n] \in Log /\ h[m.term] \in Log /\ SliceOf(m, h[m.term])
      /\ HasEntry(log[n], m.prev_log_index, m.prev_log_term)
      /\ Traced(log[n], h) /\ Traced(h[m.term], h)
  BY <1>1, AcceptedRequest DEF Story
<1>4. lg \in Log /\ kept \in Nat /\ kept <= Len(lg) /\ Len(lg) \in Nat
  BY <1>1, AcceptedMerge, LenProperties DEF Log
<1> HIDE DEF lg, kept
<1>5. torn \in Log /\ Len(torn) = written /\ PrefixOf(torn, lg)
      /\ written \in Nat /\ kept <= written
  BY <1>4, PrefixType, PrefixCut
<1> HIDE DEF torn
<1>6. /\ log' = [log EXCEPT ![n] = torn] /\ wal' = [wal EXCEPT ![n] = record]
      /\ current_term' = [current_term EXCEPT ![n] = record.term]
      /\ BecomeFollower(n) /\ UNCHANGED elected
  BY <1>2 DEF Recover, torn
<1>7. /\ log'[n] = torn /\ wal'[n] = record
      /\ \A k \in Server \ {n} : /\ log'[k] = log[k] /\ wal'[k] = wal[k]
                                /\ current_term'[k] = current_term[k]
  BY <1>3, <1>6 DEF TypeOK
<1>8. Traced(torn, h)
  BY <1>3, <1>4, <1>5, MergeTraced DEF lg
<1>9. \A i \in 1..Len(torn) : torn[i].term <= wal'[n].term
  <2> SUFFICES ASSUME NEW i \in 1..Len(torn) PROVE torn[i].term <= record.term
    BY <1>7
  <2>1. torn[i].term \in Nat
    BY <1>5, EntryTerm
  <2>2. CASE written > kept
    <3>1. record.term >= LastTerm(torn) /\ record.term \in Nat
      BY <1>3, <1>5, <2>2, JournalledType DEF WalRecord
    <3>2. written # 0 /\ written \in 1..Len(torn) /\ i \in 1..written
      BY <1>4, <1>5, <2>2
    <3>3. torn[i].term <= torn[written].term /\ torn[written].term \in Nat
      BY <1>5, <1>8, <3>2, TermsSorted, EntryTerm DEF Story, Written
    <3>4. LastTerm(torn) = torn[written].term
      BY <1>5, <3>2 DEF LastTerm, TermAt
    <3> QED BY <2>1, <3>1, <3>3, <3>4
  <2>3. CASE ~ (written > kept)
    <3>1. written = kept /\ record = wal[n]
      BY <1>4, <1>5, <2>3
    <3>2. m.prev_log_index \in 0..Len(log[n])
      BY <1>3 DEF HasEntry
    <3>3. i \in Nat /\ i <= kept
      BY <1>5, <3>1
    <3>4. i <= Len(log[n]) /\ \A j \in 1..kept : torn[j] = log[n][j]
      BY <1>3, <1>4, <1>5, <3>1, <3>2, KeptStays DEF lg, kept
    <3>5. Len(log[n]) \in Nat
      BY <1>3, LenProperties DEF Log
    <3>6. torn[i] = log[n][i] /\ i \in 1..Len(log[n])
      BY <1>4, <3>3, <3>4, <3>5
    <3> QED BY <1>3, <3>1, <3>6, TermsBehind DEF Story
  <2> QED BY <2>2, <2>3
<1>10. Harmless({}) /\ InFlight' \subseteq InFlight \cup {}
  BY <1>1, DiscardEffect DEF TypeOK, Harmless
<1>11. NoNewVotes /\ NoNewSuccess /\ RequestsFromLeaders
  BY <1>10, HarmlessEffect
<1>12. LeadersKept /\ CandidatesKept /\ NothingAcked
  BY <1>3, <1>6, <1>7, <1>11, FollowerKept DEF TypeOK
<1>13. FreshOnly(a, a) /\ StoredOnly(h, a, a)
  BY DEF FreshOnly, StoredOnly
<1>14. Written(h)' /\ AcksHeld(h, a)' /\ VotesCompared(h, a)' /\ VotersBlock(h, a)'
  <2>1. LogInv /\ TypeInv' /\ RolesAreEarned'
    OBVIOUS
  <2>2. /\ PrefixOf(torn, AppendNewEntries(log[n], m.prev_log_index, m.entries))
        /\ KeptLength(log[n], m.prev_log_index, m.entries) <= Len(torn)
    BY <1>5 DEF lg, kept
  <2> HIDE DEF record, LogInv, ElectionInv, TypeInv
  <2> QED BY <1>1, <1>5, <1>6, <1>7, <1>9, <1>11, <1>12, <1>13, <2>1, <2>2,
             MergedStory
<1>15. AcksKnown(h, a)'
  BY <1>12, AcksKnownStep DEF Story
<1>16. CandidaciesKnown'
  BY <1>11, <1>12, CandidaciesStep
<1> QED BY <1>14, <1>15, <1>16 DEF Story
-----------------------------------------------------------------------------
(***************************************************************************)
(* The steps of a leader that appends to its log: its term's history grows *)
(* by one entry, which nobody else has.                                    *)
(***************************************************************************)
Extends(h, a, g, b) ==
    /\ \A t \in Nat : PrefixOf(h[t], g[t])
    /\ a \subseteq b

\* What g and b have that h and a have not: entries of leaders' own terms, which
\* the leaders store, and acknowledgements of what is stored.
Adds(h, a, g, b) ==
    /\ elected \subseteq elected'
    /\ \A e \in elected' : \A i \in 1..Len(g[e.term]) :
          <<e.leader, e.term, i>> \in b \/ (e \in elected /\ i <= Len(h[e.term]))
    /\ \A t \in Nat : g[t] = h[t] \/ Holds(g[t], t, Len(g[t]))
    /\ \A v \in Server, t, i \in Nat :
          <<v, t, i>> \in b => <<v, t, i>> \in a \/ Holds(log'[v], g[t][i].term, i)

\* The histories when n has appended in its term.
Grown(h, n) == [h EXCEPT ![current_term[n]] = log'[n]]

\* And the acknowledgements: a leader stores its own log.
OwnToo(a, n) == a \cup {<<n, current_term[n], i>> : i \in 1..Len(log'[n])}

\* n appends an entry of its term, as the leader it was or has just become.
Appends(h, n) ==
    /\ role'[n] = "leader" /\ current_term' = current_term
    /\ PrefixOf(log[n], log'[n]) /\ Len(log'[n]) = Len(log[n]) + 1
    /\ log'[n][Len(log'[n])].term = current_term[n]
    /\ wal'[n].term = current_term[n]
    /\ \A k \in Server \ {n} :
          /\ log'[k] = log[k] /\ role'[k] = role[k] /\ granted'[k] = granted[k]
          /\ match_index'[k] = match_index[k] /\ wal'[k] = wal[k]
    /\ \/ /\ role[n] = "leader" /\ h[current_term[n]] = log[n]
          /\ elected' = elected /\ match_index'[n] = match_index[n]
       \/ /\ role[n] = "candidate" /\ h[current_term[n]] = <<>>
          /\ \A e \in elected : e.term # current_term[n]
          /\ \A p \in Server : match_index'[n][p] = 0
          /\ \E x : /\ elected' = elected \cup {x}
                    /\ x.term = current_term[n] /\ x.leader = n
                    /\ \A v \in x.voters :
                          v \in Server /\ Promised(v, current_term[n], n)

\* What a growing history changes of the logs: nothing but the new entry.
LEMMA GrownHistory ==
  ASSUME LogInv, TypeInv', NEW h, Written(h), NEW n \in Server, Appends(h, n)
  PROVE  /\ Grown(h, n) \in [Nat -> Log]
         /\ Grown(h, n)[current_term[n]] = log'[n]
         /\ \A t \in Nat \ {current_term[n]} : Grown(h, n)[t] = h[t]
         /\ \A t \in Nat : PrefixOf(h[t], Grown(h, n)[t])
<1> DEFINE T == current_term[n]
<1>1. T \in Nat /\ log[n] \in Log /\ log'[n] \in Log /\ h \in [Nat -> Log]
  BY DEF LogInv, ElectionInv, TypeInv, TypeOK, Log, Written
<1>2. h[T] = log[n] \/ h[T] = <<>>
  BY DEF Appends
<1>3. PrefixOf(h[T], log'[n])
  <2>1. CASE h[T] = log[n]
    BY <2>1 DEF Appends
  <2>2. CASE h[T] = <<>>
    <3>1. Len(h[T]) = 0 /\ Len(log'[n]) \in Nat
      BY <1>1, <2>2, EmptySeq, LenProperties DEF Log
    <3> QED BY <3>1 DEF PrefixOf
  <2> QED BY <1>2, <2>1, <2>2
<1>4. \A t \in Nat : PrefixOf(h[t], h[t])
  BY <1>1, PrefixReflexive
<1> QED BY <1>1, <1>3, <1>4 DEF Grown

\* Traces survive the growth of histories.
LEMMA TracedGrows ==
  ASSUME NEW h \in [Nat -> Log], NEW g \in [Nat -> Log],
         \A t \in Nat : PrefixOf(h[t], g[t]), NEW L \in Log, Traced(L, h)
  PROVE  Traced(L, g)
<1> SUFFICES ASSUME NEW i \in 1..Len(L)
             PROVE  i <= Len(g[L[i].term]) /\ \A j \in 1..i : L[j] = g[L[i].term][j]
  BY DEF Traced
<1> DEFINE t == L[i].term
<1>1. t \in Nat
  BY EntryTerm
<1>2. i <= Len(h[t]) /\ \A j \in 1..i : L[j] = h[t][j]
  BY DEF Traced
<1>3. Len(h[t]) \in Nat /\ Len(g[t]) \in Nat /\ Len(L) \in Nat
  BY <1>1, LenProperties DEF Log
<1>4. Len(h[t]) <= Len(g[t]) /\ \A j \in 1..Len(h[t]) : h[t][j] = g[t][j]
  BY <1>1 DEF PrefixOf
<1> HIDE DEF t
<1>5. i <= Len(g[t]) /\ \A j \in 1..i : L[j] = g[t][j]
  BY <1>2, <1>3, <1>4
<1> QED BY <1>5 DEF t

\* So do entries.
LEMMA HoldsGrows ==
  ASSUME NEW K \in Log, NEW L \in Log, PrefixOf(K, L), NEW t, NEW i, Holds(K, t, i)
  PROVE  Holds(L, t, i)
<1>1. Len(K) \in Nat /\ Len(L) \in Nat
  BY LenProperties DEF Log
<1> QED BY <1>1 DEF Holds, PrefixOf

\* The new entry is the only one that is new.
LEMMA OnlyTheNewEntry ==
  ASSUME LogInv, TypeInv', NEW h, Written(h), NEW n \in Server, Appends(h, n),
         NEW t \in Nat, NEW i \in Nat, Holds(Grown(h, n)[t], t, i), ~ Holds(h[t], t, i)
  PROVE  t = current_term[n] /\ i = Len(log'[n]) /\ ~ (i <= Len(h[t]))
<1> DEFINE T == current_term[n]
<1>1. /\ T \in Nat /\ log[n] \in Log /\ log'[n] \in Log /\ h \in [Nat -> Log]
      /\ Len(log[n]) \in Nat /\ Len(log'[n]) \in Nat
  BY LenProperties DEF LogInv, ElectionInv, TypeInv, TypeOK, Log, Written
<1>2. t = T
  BY GrownHistory
<1>3. i \in 1..Len(log'[n]) /\ log'[n][i].term = T
  BY <1>2, GrownHistory DEF Holds
<1>4. i = Len(log'[n])
  <2> SUFFICES ASSUME i # Len(log'[n]) PROVE FALSE
    OBVIOUS
  <2>1. i \in 1..Len(log[n])
    BY <1>1, <1>3 DEF Appends
  <2>2. log'[n][i] = log[n][i]
    BY <2>1 DEF Appends, PrefixOf
  <2>3. i <= Len(h[T]) /\ log[n][i] = h[T][i]
    <3>1. Traced(log[n], h) /\ log[n][i].term = T /\ i \in 1..i
      BY <1>3, <2>1, <2>2 DEF Written
    <3> QED BY <2>1, <3>1 DEF Traced
  <2>4. i \in 1..Len(h[T])
    <3>1. Len(h[T]) \in Nat
      BY <1>1, LenProperties DEF Log
    <3> QED BY <2>1, <2>3, <3>1
  <2> QED BY <1>2, <1>3, <2>2, <2>3, <2>4 DEF Holds
<1>5. Len(h[T]) = Len(log[n]) \/ Len(h[T]) = 0
  BY EmptySeq DEF Appends
<1>6. Len(log'[n]) = Len(log[n]) + 1
  BY DEF Appends
<1> QED BY <1>1, <1>2, <1>4, <1>5, <1>6

\* For the leaders of before, nothing is lost or found.
LEMMA LacksAsBefore ==
  ASSUME LogInv, TypeInv', NEW h, Written(h), NEW n \in Server, Appends(h, n),
         NEW e \in elected, NEW t \in Nat, NEW i \in Nat
  PROVE  Lacks(e, Grown(h, n), t, i) <=> Lacks(e, h, t, i)
<1> DEFINE T == current_term[n]
           g == Grown(h, n)
<1>1. /\ T \in Nat /\ log[n] \in Log /\ log'[n] \in Log /\ h \in [Nat -> Log]
      /\ Len(log[n]) \in Nat /\ Len(log'[n]) \in Nat /\ e.term \in Nat
  BY LenProperties DEF LogInv, ElectionInv, TypeInv, TypeOK, Log, Written
<1>2. CASE e.term # T
  <2>1. g[e.term] = h[e.term]
    BY <1>1, <1>2, GrownHistory
  <2> QED BY <2>1 DEF Lacks
<1>3. CASE e.term = T
  <2>1. h[T] = log[n] /\ g[T] = log'[n]
    BY <1>3, GrownHistory DEF Appends
  <2>2. Holds(log[n], t, i) => Holds(log'[n], t, i)
    BY <1>1, HoldsGrows DEF Appends
  <2>3. ASSUME T > t, Holds(log'[n], t, i) PROVE Holds(log[n], t, i)
    <3>1. i \in 1..Len(log'[n]) /\ log'[n][i].term = t
      BY <2>3 DEF Holds
    <3>2. i # Len(log'[n])
      BY <1>1, <2>3, <3>1 DEF Appends
    <3>3. i \in 1..Len(log[n])
      BY <1>1, <3>1, <3>2 DEF Appends
    <3>4. log'[n][i] = log[n][i]
      BY <3>3 DEF Appends, PrefixOf
    <3> QED BY <3>1, <3>3, <3>4 DEF Holds
  <2> QED BY <1>3, <2>1, <2>2, <2>3 DEF Lacks
<1> QED BY <1>2, <1>3

\* What was lost is.
LEMMA LostStays ==
  ASSUME LogInv, TypeInv', NEW h, Written(h), NEW n \in Server, Appends(h, n),
         NEW g, g = Grown(h, n), NEW t \in Nat, NEW i \in Nat, Lost(h, t, i)
  PROVE  Lost(g, t, i)'
<1>1. PICK e \in elected : Lacks(e, h, t, i)
  BY DEF Lost
<1>2. Lacks(e, g, t, i) /\ e \in elected'
  BY <1>1, LacksAsBefore DEF Appends
<1> QED BY <1>2 DEF Lost, Lacks

\* The histories go on.
LEMMA AppendsWritten ==
  ASSUME LogInv, LogInv', NEW h, Written(h), NEW n \in Server, Appends(h, n),
         NEW g, g = Grown(h, n), RequestsFromLeaders
  PROVE  Written(g)'
<1> DEFINE T == current_term[n]
           lg == log'[n]
<1> USE DEF LogInv, ElectionInv, TypeInv
<1>1. /\ T \in Nat /\ log[n] \in Log /\ lg \in Log /\ h \in [Nat -> Log]
      /\ Len(log[n]) \in Nat /\ Len(lg) \in Nat
  BY LenProperties DEF TypeOK, Log, Written
<1>2. /\ g \in [Nat -> Log] /\ g[T] = lg
      /\ \A t \in Nat \ {T} : g[t] = h[t]
      /\ \A t \in Nat : PrefixOf(h[t], g[t])
  BY GrownHistory
<1>3. PrefixOf(log[n], lg) /\ Len(lg) = Len(log[n]) + 1 /\ lg[Len(lg)].term = T
  BY DEF Appends
<1> HIDE DEF T
<1>4. \A L \in Log : Traced(L, h) => Traced(L, g)
  BY <1>1, <1>2, TracedGrows
<1>5. Traced(lg, g)
  <2> SUFFICES ASSUME NEW i \in 1..Len(lg)
               PROVE  i <= Len(g[lg[i].term]) /\ \A j \in 1..i : lg[j] = g[lg[i].term][j]
    BY DEF Traced
  <2>1. CASE i = Len(lg)
    BY <1>1, <1>2, <1>3, <2>1
  <2>2. CASE i # Len(lg)
    <3>1. i \in 1..Len(log[n]) /\ \A j \in 1..i : j \in 1..Len(log[n])
      BY <1>1, <1>3, <2>2
    <3>2. \A j \in 1..i : lg[j] = log[n][j]
      BY <1>3, <3>1 DEF PrefixOf
    <3>3. lg[i] = log[n][i]
      BY <3>2
    <3>4. Traced(log[n], g)
      BY <1>1, <1>4 DEF Written
    <3> QED BY <3>1, <3>2, <3>3, <3>4 DEF Traced
  <2> QED BY <2>1, <2>2
<1>6. \A i \in 1..Len(lg) : lg[i].term <= T
  <2> SUFFICES ASSUME NEW i \in 1..Len(lg) PROVE lg[i].term <= T
    OBVIOUS
  <2>1. CASE i = Len(lg)
    BY <1>1, <1>3, <2>1
  <2>2. CASE i # Len(lg)
    <3>1. i \in 1..Len(log[n]) /\ lg[i] = log[n][i]
      BY <1>1, <1>3, <2>2 DEF PrefixOf
    <3>2. /\ log[n][i].term \in Nat /\ log[n][i].term <= wal[n].term
          /\ wal[n].term \in Nat /\ wal[n].term <= T
      BY <3>1, TermsBehind DEF T
    <3> QED BY <1>1, <3>1, <3>2
  <2> QED BY <2>1, <2>2
<1>7. \A t \in Nat : Traced(g[t], g)
  BY <1>1, <1>2, <1>4, <1>5 DEF Written
<1>8. \A t \in Nat : \A i \in 1..Len(g[t]) : g[t][i].term <= t
  BY SMTT(30), <1>1, <1>2, <1>6 DEF Written
<1>9. elected \subseteq elected'
  BY DEF Appends
<1>10. \E e \in elected' : e.term = T /\ e.leader = n
  BY DEF Appends, RolesAreEarned, T
<1>11. \A t \in Nat : Len(g[t]) > 0 => \E e \in elected' : e.term = t
  BY <1>2, <1>9, <1>10 DEF Written
<1>12. \A k \in Server : Traced(log'[k], g)
  <2>1. \A k \in Server \ {n} : log'[k] = log[k] /\ log[k] \in Log
    BY DEF Appends, TypeOK, Log
  <2> QED BY <1>4, <1>5, <2>1 DEF Written
<1>13. \A k \in Server : \A i \in 1..Len(log'[k]) : log'[k][i].term <= wal'[k].term
  <2>1. wal'[n].term = T
    BY DEF Appends, T
  <2>2. \A k \in Server \ {n} : log'[k] = log[k] /\ wal'[k] = wal[k]
    BY DEF Appends
  <2> QED BY <1>6, <2>1, <2>2 DEF Written
<1>14. ASSUME NEW k \in Server, role'[k] = "leader"
       PROVE  log'[k] = g[current_term'[k]]
  <2>1. current_term'[n] = T /\ current_term' = current_term
    BY DEF Appends, T
  <2>2. CASE k = n
    BY <1>2, <2>1, <2>2
  <2>3. CASE k # n
    <3>1. role[k] = "leader" /\ log'[k] = log[k] /\ current_term[k] \in Nat
      BY <1>14, <2>3 DEF Appends, TypeOK
    <3>2. PICK e \in elected' : e.leader = k /\ e.term = current_term[k]
      BY <1>14, <2>1 DEF RolesAreEarned
    <3>3. ElectionSafety'
      <4>1. ElectionInv'
        OBVIOUS
      <4> HIDE DEF ElectionInv
      <4> QED BY <4>1, PTL, OneVoteMeansOneLeader
    <3>4. current_term[k] # T
      BY <1>10, <2>3, <3>2, <3>3 DEF ElectionSafety
    <3> QED BY <1>2, <2>1, <3>1, <3>4 DEF Written
  <2> QED BY <2>2, <2>3
<1>15. ASSUME NEW m \in Received("append_entries")'
       PROVE  SliceOf(m, g[m.term]) /\ \E e \in elected' : e.term = m.term
  <2>1. /\ m.term \in Nat /\ m.prev_log_index \in Nat /\ m.entries \in Seq(Entry)
    <3>1. m \in InFlight' /\ m.type = "append_entries" /\ InFlight' \subseteq Message
      BY DEF Received, TypeOK
    <3> QED BY <3>1 DEF Message
  <2>2. CASE m \in Received("append_entries")
    <3>1. SliceOf(m, h[m.term]) /\ \E e \in elected : e.term = m.term
      BY <2>2 DEF Written
    <3>2. h[m.term] \in Log /\ g[m.term] \in Log /\ PrefixOf(h[m.term], g[m.term])
      BY <1>1, <1>2, <2>1
    <3> QED BY <1>9, <2>1, <3>1, <3>2, SliceOfPrefix
  <2>3. CASE \E k \in Server :
               role'[k] = "leader" /\ m.term = current_term'[k] /\ SliceOf(m, log'[k])
    BY <1>14, <2>3 DEF RolesAreEarned
  <2> QED BY <2>2, <2>3 DEF RequestsFromLeaders
<1> QED BY <1>2, <1>7, <1>8, <1>11, <1>12, <1>13, <1>14, <1>15 DEF Written

\* What the leader appends it stores itself, and nobody has acknowledged it yet.
LEMMA OwnAcks ==
  ASSUME LogInv, TypeInv', NEW h, NEW a, Written(h), AcksKnown(h, a),
         NEW n \in Server, Appends(h, n),
         NEW g, g = Grown(h, n), NEW b, b = OwnToo(a, n)
  PROVE  /\ FreshOnly(a, b)
         /\ \A v \in Server, t, i \in Nat :
               <<v, t, i>> \in b =>
                  \/ <<v, t, i>> \in a
                  \/ v = n /\ t = current_term[n] /\ i \in 1..Len(log'[n])
         /\ \A v \in Server, t, i \in Nat :
               /\ <<v, t, i>> \in b /\ <<v, t, i>> \in a /\ Holds(g[t], t, i)
               => Holds(h[t], t, i)
         /\ wal[n].term \in Nat /\ wal[n].term <= current_term[n]
<1> DEFINE T == current_term[n]
<1>1. wal[n].term \in Nat /\ T \in Nat /\ wal[n].term <= T
  BY DEF LogInv, ElectionInv, TypeInv, TypeOK, WalRecord, WalBehind
<1>2. \A v \in Server, t, i \in Nat :
         <<v, t, i>> \in b =>
            <<v, t, i>> \in a \/ (v = n /\ t = T /\ i \in 1..Len(log'[n]))
  BY DEF OwnToo
<1>3. FreshOnly(a, b)
  BY <1>1, <1>2 DEF FreshOnly
<1>4. ASSUME NEW v \in Server, NEW t \in Nat, NEW i \in Nat,
             <<v, t, i>> \in a, Holds(g[t], t, i)
      PROVE  Holds(h[t], t, i)
  <2>1. i <= Len(h[t])
    BY <1>4 DEF AcksKnown
  <2> QED BY <1>4, <2>1, OnlyTheNewEntry
<1> QED BY <1>1, <1>2, <1>3, <1>4

\* The acknowledgements go on.
LEMMA AppendsAcksKnown ==
  ASSUME LogInv, LogInv', NEW h, NEW a, Written(h), AcksKnown(h, a),
         NEW n \in Server, Appends(h, n), NoNewSuccess, TermsRise,
         NEW g, g = Grown(h, n), NEW b, b = OwnToo(a, n)
  PROVE  AcksKnown(g, b)'
<1> DEFINE T == current_term[n]
           lg == log'[n]
<1> USE DEF LogInv, ElectionInv, TypeInv
<1>1. /\ T \in Nat /\ lg \in Log /\ h \in [Nat -> Log] /\ g \in [Nat -> Log]
      /\ Len(lg) \in Nat /\ g[T] = lg
      /\ \A t \in Nat : PrefixOf(h[t], g[t])
  BY LenProperties, GrownHistory DEF TypeOK, Log, Written
<1>2. a \subseteq b /\ b = a \cup {<<n, T, i>> : i \in 1..Len(lg)}
  BY DEF OwnToo
<1>3. b \subseteq Server \X Nat \X Nat
  BY <1>1, <1>2 DEF AcksKnown
<1>4. ASSUME NEW v \in Server, NEW t \in Nat, NEW i \in Nat, <<v, t, i>> \in b
      PROVE  i <= Len(g[t]) /\ wal'[v].term >= t
  <2>1. CASE <<v, t, i>> \in a
    <3>1. i <= Len(h[t]) /\ wal[v].term >= t
      BY <2>1 DEF AcksKnown
    <3>2. wal[v].term \in Nat /\ wal'[v].term \in Nat /\ wal'[v].term >= wal[v].term
      BY DEF TypeOK, WalRecord, TermsRise
    <3>3. Len(h[t]) \in Nat /\ Len(g[t]) \in Nat /\ Len(h[t]) <= Len(g[t])
      BY <1>1, LenProperties DEF Log, PrefixOf
    <3> QED BY <3>1, <3>2, <3>3
  <2>2. CASE v = n /\ t = T /\ i \in 1..Len(lg)
    BY <1>1, <2>2 DEF Appends
  <2> QED BY <1>4, <2>1, <2>2, OwnAcks
<1>5. ASSUME NEW k \in Server, role'[k] = "leader"
      PROVE  /\ \A i \in 1..Len(log'[k]) : <<k, current_term'[k], i>> \in b
             /\ \A p \in Server : \A i \in 1..match_index'[k][p] :
                   <<p, current_term'[k], i>> \in b
  <2>1. current_term'[k] = current_term[k]
    BY DEF Appends
  <2>2. CASE k = n
    <3>1. \A i \in 1..Len(log'[n]) : <<n, T, i>> \in b
      BY <1>2
    <3>2. ASSUME NEW p \in Server, NEW i \in 1..match_index'[n][p]
          PROVE  <<p, T, i>> \in a
      <4>1. match_index'[n][p] # 0
        BY <3>2
      <4>2. role[n] = "leader" /\ match_index'[n] = match_index[n]
        BY <4>1 DEF Appends
      <4> QED BY <3>2, <4>2 DEF AcksKnown
    <3> QED BY <1>2, <2>1, <2>2, <3>1, <3>2
  <2>3. CASE k # n
    <3>1. role[k] = "leader" /\ log'[k] = log[k] /\ match_index'[k] = match_index[k]
      BY <1>5, <2>3 DEF Appends
    <3> QED BY <1>2, <2>1, <3>1 DEF AcksKnown
  <2> QED BY <2>2, <2>3
<1>6. \A m \in Received("append_entries_reply")' : m.success =>
         \A i \in 1..m.match_index : <<m.src, m.term, i>> \in b
  BY <1>2 DEF AcksKnown, NoNewSuccess
<1> QED BY <1>3, <1>4, <1>5, <1>6 DEF AcksKnown

\* What was acknowledged is still stored.
LEMMA AppendsAcksHeld ==
  ASSUME LogInv, LogInv', NEW h, NEW a, Written(h), AcksKnown(h, a), AcksHeld(h, a),
         NEW n \in Server, Appends(h, n),
         NEW g, g = Grown(h, n), NEW b, b = OwnToo(a, n)
  PROVE  AcksHeld(g, b)'
<1> USE DEF LogInv, ElectionInv, TypeInv
<1> SUFFICES ASSUME NEW v \in Server, NEW t \in Nat, NEW i \in Nat,
                    <<v, t, i>> \in b, Holds(g[t], t, i)
             PROVE  Holds(log'[v], t, i) \/ Lost(g, t, i)'
  BY DEF AcksHeld
<1>1. CASE <<v, t, i>> \in a
  <2>1. Holds(h[t], t, i)
    BY <1>1, OwnAcks
  <2>2. CASE Holds(log[v], t, i)
    <3>1. log[v] \in Log /\ log'[v] \in Log
      BY DEF TypeOK, Log
    <3>2. PrefixOf(log[v], log'[v])
      BY <3>1, PrefixReflexive DEF Appends
    <3> QED BY <2>2, <3>1, <3>2, HoldsGrows
  <2>3. CASE Lost(h, t, i)
    BY <2>3, LostStays
  <2> QED BY <1>1, <2>1, <2>2, <2>3 DEF AcksHeld
<1>2. CASE v = n /\ t = current_term[n]
  BY <1>2, GrownHistory
<1> QED BY <1>1, <1>2, OwnAcks

\* Who runs lacks nothing that its voters acknowledged.
LEMMA AppendsVotesCompared ==
  ASSUME LogInv, LogInv', NEW h, NEW a, Written(h), AcksKnown(h, a),
         VotesCompared(h, a), NEW n \in Server, Appends(h, n), NoNewVotes,
         NEW g, g = Grown(h, n), NEW b, b = OwnToo(a, n)
  PROVE  VotesCompared(g, b)'
<1> USE DEF LogInv, ElectionInv, TypeInv
<1> SUFFICES ASSUME NEW v \in Server, NEW c \in Server, NEW t \in Nat, NEW i \in Nat,
                    role'[c] = "candidate", Promised(v, current_term[c], c)',
                    t < current_term'[c], <<v, t, i>> \in b, Holds(g[t], t, i)
             PROVE  Holds(log'[c], t, i) \/ Lost(g, t, i)'
  BY DEF VotesCompared
<1>1. c # n /\ current_term'[c] = current_term[c] /\ current_term[c] \in Nat
  BY DEF Appends, TypeOK
<1>2. role[c] = "candidate" /\ log'[c] = log[c] /\ granted'[c] = granted[c]
  BY <1>1 DEF Appends
<1>3. \A e \in elected' : e \in elected \/ e.leader = n
  BY DEF Appends
<1>4. Promised(v, current_term[c], c)
  BY <1>1, <1>2, <1>3 DEF Promised, NoNewVotes
<1>5. wal[v].term \in Nat /\ wal[v].term >= current_term[c]
  BY <1>1, <1>4, PromiseBinds
<1>6. <<v, t, i>> \in a
  BY <1>1, <1>5, OwnAcks DEF FreshOnly
<1>7. Holds(h[t], t, i)
  BY <1>6, OwnAcks
<1>8. Holds(log[c], t, i) \/ Lost(h, t, i)
  BY <1>1, <1>2, <1>4, <1>6, <1>7 DEF VotesCompared
<1> QED BY <1>2, <1>8, LostStays

\* Of the leaders without an entry one was elected by servers that will never
\* acknowledge it: one of before, or the new leader.
LEMMA AppendsVotersBlock ==
  ASSUME LogInv, LogInv', NEW h, NEW a, Written(h), AcksKnown(h, a),
         VotesCompared(h, a), VotersBlock(h, a), NEW n \in Server, Appends(h, n),
         NEW g, g = Grown(h, n), NEW b, b = OwnToo(a, n)
  PROVE  VotersBlock(g, b)'
<1> DEFINE T == current_term[n]
<1> USE DEF LogInv, ElectionInv, TypeInv
<1> SUFFICES ASSUME NEW t \in Nat, NEW i \in Nat, Holds(g[t], t, i), Lost(g, t, i)'
             PROVE  \E e \in elected' :
                       Lacks(e, g, t, i) /\ \A v \in e.voters : <<v, t, i>> \notin b
  BY DEF VotersBlock, Lacks
<1>1. T \in Nat /\ elected \subseteq elected'
  BY DEF TypeOK, Appends
<1>2. PICK f \in elected' : Lacks(f, g, t, i)
  BY DEF Lost, Lacks
<1>3. ASSUME NEW e \in elected, Lacks(e, g, t, i), NEW v \in e.voters,
             <<v, t, i>> \in b
      PROVE  <<v, t, i>> \in a
  <2>1. v \in Server /\ e.term \in Nat /\ wal[v].term \in Nat /\ wal[v].term >= e.term
    BY VoterBound
  <2>2. e.term > t
    BY <1>3 DEF Lacks
  <2> QED BY <1>3, <2>1, <2>2, OwnAcks DEF FreshOnly
<1>4. CASE Lost(h, t, i) /\ Holds(h[t], t, i)
  <2>1. PICK e \in elected :
           Lacks(e, h, t, i) /\ \A v \in e.voters : <<v, t, i>> \notin a
    BY <1>4 DEF VotersBlock
  <2>2. Lacks(e, g, t, i)
    BY <2>1, LacksAsBefore
  <2> QED BY <1>1, <1>3, <2>1, <2>2
<1>5. CASE ~ Holds(h[t], t, i)
  <2>1. t = T /\ i = Len(log'[n])
    BY <1>5, OnlyTheNewEntry
  <2>2. f.term > T
    BY <1>2, <2>1 DEF Lacks
  <2>3. f \in elected
    BY <1>1, <2>2 DEF Appends
  <2>4. ASSUME NEW v \in f.voters PROVE <<v, t, i>> \notin b
    <3>1. v \in Server
      BY <2>3, VoterBound
    <3>2. <<v, t, i>> \in b => <<v, t, i>> \in a
      BY <1>2, <1>3, <2>3
    <3>3. <<v, t, i>> \in b /\ <<v, t, i>> \in a => Holds(h[t], t, i)
      BY <3>1, OwnAcks
    <3> QED BY <1>5, <3>2, <3>3
  <2> QED BY <1>1, <1>2, <2>3, <2>4
<1>6. CASE ~ Lost(h, t, i) /\ Holds(h[t], t, i)
  <2>1. f \notin elected
    <3> SUFFICES ASSUME f \in elected PROVE FALSE
      OBVIOUS
    <3>1. Lacks(f, h, t, i)
      BY <1>2, LacksAsBefore
    <3> QED BY <1>6, <3>1 DEF Lost
  <2>2. /\ role[n] = "candidate" /\ f.term = T
        /\ \A v \in f.voters : v \in Server /\ Promised(v, T, n)
    BY <2>1 DEF Appends
  <2>3. t < T /\ ~ Holds(g[T], t, i)
    BY <1>2, <2>2 DEF Lacks
  <2>4. ~ Holds(log[n], t, i)
    <3>1. log[n] \in Log /\ log'[n] \in Log
      BY DEF TypeOK, Log
    <3>2. PrefixOf(log[n], log'[n])
      BY DEF Appends
    <3>3. g[T] = log'[n]
      BY GrownHistory
    <3> QED BY <2>3, <3>1, <3>2, <3>3, HoldsGrows
  <2>5. ASSUME NEW v \in f.voters PROVE <<v, t, i>> \notin b
    <3>1. v \in Server /\ Promised(v, T, n)
      BY <2>2
    <3>2. <<v, t, i>> \notin a
      BY <1>6, <2>2, <2>3, <2>4, <3>1 DEF VotesCompared
    <3>3. <<v, t, i>> \in b => <<v, t, i>> \in a \/ t = T
      BY <3>1, OwnAcks
    <3> QED BY <1>1, <2>3, <3>2, <3>3
  <2> QED BY <1>2, <2>5
<1> QED BY <1>4, <1>5, <1>6

\* An append adds an entry of the leader's own, which it stores.
LEMMA AppendsAdd ==
  ASSUME LogInv, TypeInv', NEW h, NEW a, Written(h), NEW n \in Server, Appends(h, n),
         NEW g, g = Grown(h, n), NEW b, b = OwnToo(a, n)
  PROVE  Adds(h, a, g, b)
<1> DEFINE T == current_term[n]
<1>1. /\ T \in Nat /\ g[T] = log'[n]
      /\ \A t \in Nat \ {T} : g[t] = h[t]
  BY GrownHistory DEF LogInv, ElectionInv, TypeInv, TypeOK
<1>2. ElectionSafety /\ \A e \in elected : e.term \in Nat
  BY OneVoteMeansOneLeader DEF LogInv, ElectionInv, TypeInv, TypeOK
<1>3. ASSUME NEW e \in elected', e.term = T PROVE e.leader = n
  <2>1. CASE role[n] = "leader" /\ elected' = elected
    BY <1>2, <1>3, <2>1 DEF LogInv, RolesAreEarned, ElectionSafety
  <2>2. CASE ~ (role[n] = "leader" /\ elected' = elected)
    BY <1>3, <2>2 DEF Appends
  <2> QED BY <2>1, <2>2
<1>4. ASSUME NEW e \in elected', e.term # T PROVE e \in elected /\ g[e.term] = h[e.term]
  <2>1. e \in elected
    BY <1>4 DEF Appends
  <2> QED BY <1>1, <1>2, <1>4, <2>1
<1>5. ASSUME NEW e \in elected', NEW i \in 1..Len(g[e.term])
      PROVE  <<e.leader, e.term, i>> \in b \/ (e \in elected /\ i <= Len(h[e.term]))
  <2>1. CASE e.term = T
    <3>1. <<n, T, i>> \in b
      BY <1>1, <2>1 DEF OwnToo
    <3> QED BY <1>3, <2>1, <3>1
  <2>2. CASE e.term # T
    BY <1>4, <2>2
  <2> QED BY <2>1, <2>2
<1>6. Holds(g[T], T, Len(g[T]))
  <2>1. Len(log'[n]) \in Nat /\ Len(log[n]) \in Nat
    BY LenProperties DEF LogInv, ElectionInv, TypeInv, TypeOK
  <2>2. Len(log'[n]) = Len(log[n]) + 1 /\ log'[n][Len(log'[n])].term = T
    BY DEF Appends
  <2>3. Len(log'[n]) \in 1..Len(log'[n])
    BY <2>1, <2>2
  <2> QED BY <1>1, <2>2, <2>3 DEF Holds
<1>7. ASSUME NEW v \in Server, NEW t \in Nat, NEW i \in Nat,
             <<v, t, i>> \in b, <<v, t, i>> \notin a
      PROVE  Holds(log'[v], g[t][i].term, i)
  <2>1. v = n /\ t = T /\ i \in 1..Len(log'[n])
    BY <1>7 DEF OwnToo
  <2> QED BY <1>1, <2>1 DEF Holds
<1> HIDE DEF T
<1>8. \A t \in Nat : g[t] = h[t] \/ Holds(g[t], t, Len(g[t]))
  BY <1>1, <1>6
<1>9. elected \subseteq elected'
  BY DEF Appends
<1> QED BY <1>5, <1>7, <1>8, <1>9 DEF Adds

\* A leader that appends goes on with the story.
LEMMA AppendsStory ==
  ASSUME LogInv, LogInv', CandidaciesKnown, TermsRise, NEW h, NEW a, Story(h, a),
         NEW n \in Server, Appends(h, n), NoNewVotes, NoNewSuccess, RequestsFromLeaders,
         NEW g, g = Grown(h, n), NEW b, b = OwnToo(a, n)
  PROVE  CandidaciesKnown' /\ Story(g, b)' /\ Extends(h, a, g, b) /\ Adds(h, a, g, b)
<1>1. Written(g)' /\ AcksKnown(g, b)' /\ AcksHeld(g, b)'
  BY AppendsWritten, AppendsAcksKnown, AppendsAcksHeld DEF Story
<1>2. VotesCompared(g, b)' /\ VotersBlock(g, b)'
  BY AppendsVotesCompared, AppendsVotersBlock DEF Story
<1>3. Extends(h, a, g, b)
  BY GrownHistory DEF Extends, OwnToo, Story, LogInv, ElectionInv
<1>4. \A n0 \in Server : wal[n0].term \in Nat /\ wal'[n0].term \in Nat
                        /\ wal'[n0].term >= wal[n0].term
  BY DEF LogInv, ElectionInv, TypeInv, TypeOK, WalRecord, TermsRise
<1>5. ASSUME NEW x \in Received("request_vote")'
      PROVE  /\ wal'[x.src].term >= x.term
             /\ role'[x.src] = "candidate" /\ current_term'[x.src] = x.term =>
                   /\ x.last_log_index = Len(log'[x.src])
                   /\ x.last_log_term = LastTerm(log'[x.src])
  <2>1. x \in Received("request_vote")
    BY DEF NoNewVotes
  <2>2. x.src \in Server /\ x.term \in Nat /\ wal[x.src].term >= x.term
    BY <2>1, ReceivedFields
       DEF CandidaciesKnown, Received, LogInv, ElectionInv, TypeInv, TypeOK
  <2>3. wal'[x.src].term >= x.term
    BY <1>4, <2>2
  <2>4. role'[x.src] = "candidate" =>
           /\ role[x.src] = "candidate" /\ log'[x.src] = log[x.src]
           /\ current_term'[x.src] = current_term[x.src]
    BY <2>2 DEF Appends
  <2> QED BY <2>1, <2>3, <2>4 DEF CandidaciesKnown
<1>6. ASSUME NEW x \in Received("request_vote_reply")', x.vote_granted
      PROVE  wal'[x.dst].term >= x.term
  <2>1. x \in Received("request_vote_reply")
    BY <1>6 DEF NoNewVotes
  <2>2. x.dst \in Server /\ x.term \in Nat /\ wal[x.dst].term >= x.term
    BY <1>6, <2>1, ReceivedFields
       DEF CandidaciesKnown, Received, LogInv, ElectionInv, TypeInv, TypeOK
  <2> QED BY <1>4, <2>2
<1>7. CandidaciesKnown'
  BY <1>5, <1>6 DEF CandidaciesKnown
<1>8. Adds(h, a, g, b)
  BY AppendsAdd DEF Story, LogInv, ElectionInv
<1> QED BY <1>1, <1>2, <1>3, <1>7, <1>8 DEF Story

\* What an append does to a log.
LEMMA AppendEffect ==
  ASSUME NEW lg \in Log, NEW e \in Entry
  PROVE  LET longer == Append(lg, e)
         IN  /\ PrefixOf(lg, longer) /\ Len(longer) = Len(lg) + 1
             /\ longer[Len(longer)] = e
<1>1. /\ Len(lg) \in Nat /\ Len(Append(lg, e)) = Len(lg) + 1
      /\ \A i \in 1..Len(lg) : Append(lg, e)[i] = lg[i]
      /\ Append(lg, e)[Len(lg) + 1] = e
  BY AppendProperties, LenProperties DEF Log
<1> QED BY <1>1 DEF PrefixOf

\* ClientSubmit goes on with the story.
LEMMA ClientSubmitStory ==
  ASSUME LogInv, LogInv', CandidaciesKnown, TermsRise, NEW h, NEW a, Story(h, a),
         NEW n \in Server, NEW c \in Command, ClientSubmit(n, c)
  PROVE  \E g, b : /\ CandidaciesKnown' /\ Story(g, b)'
                  /\ Extends(h, a, g, b) /\ Adds(h, a, g, b)
<1> DEFINE e == [term |-> current_term[n], command |-> c]
<1> USE DEF LogInv, ElectionInv, TypeInv
<1>1. /\ role[n] = "leader" /\ log' = [log EXCEPT ![n] = Append(log[n], e)]
      /\ UNCHANGED <<current_term, role, granted, match_index, elected>>
      /\ Persist(n)
  BY DEF ClientSubmit, roleVars
<1>2. PICK free \in SUBSET Peers(n) : Send({Replicate(n, p) : p \in free})
  BY DEF ClientSubmit
<1>3. e \in Entry
  <2>1. current_term[n] \in Nat
    BY DEF TypeOK
  <2>2. current_term[n] > 0
    BY <1>1 DEF TermPositive
  <2> QED BY <2>1, <2>2 DEF Entry
<1>4. log[n] \in Log /\ log'[n] = Append(log[n], e)
  BY <1>1 DEF TypeOK, Log
<1>5. e.term = current_term[n]
  OBVIOUS
<1> HIDE DEF e
<1>6. /\ PrefixOf(log[n], log'[n]) /\ Len(log'[n]) = Len(log[n]) + 1
      /\ log'[n][Len(log'[n])].term = current_term[n]
  BY <1>3, <1>4, <1>5, AppendEffect
<1>7. InFlight' \subseteq InFlight \cup {Replicate(n, p) : p \in free}
  BY <1>2, SendEffect DEF TypeOK
<1>8. Harmless({Replicate(n, p) : p \in free})
  BY <1>1, LeaderHarmless DEF Peers
<1>9. NoNewVotes /\ NoNewSuccess /\ RequestsFromLeaders
  BY <1>7, <1>8, HarmlessEffect
<1>10. /\ wal'[n].term = current_term[n]
       /\ \A k \in Server \ {n} : wal'[k] = wal[k] /\ log'[k] = log[k]
  BY <1>1 DEF Persist, TypeOK
<1>11. h[current_term[n]] = log[n]
  BY <1>1 DEF Story, Written
<1>12. Appends(h, n)
  BY <1>1, <1>6, <1>10, <1>11 DEF Appends
<1> HIDE DEF LogInv
<1> QED BY <1>9, <1>12, AppendsStory

\* WinElection goes on with the story: the history of its term begins.
LEMMA WinElectionStory ==
  ASSUME LogInv, LogInv', CandidaciesKnown, TermsRise, NEW h, NEW a, Story(h, a),
         NEW m \in Received("request_vote_reply"), WinElection(m)
  PROVE  \E g, b : /\ CandidaciesKnown' /\ Story(g, b)'
                  /\ Extends(h, a, g, b) /\ Adds(h, a, g, b)
<1> DEFINE n == m.dst
           T == current_term[n]
           e == [term |-> T, command |-> NoOp]
           lg == Append(log[n], e)
           next == Len(log[n]) + 1
           x == [term |-> T, leader |-> n, voters |-> Tally(n, m)]
           S == {BuildAppendEntries(n, p, T, lg, next, commit_index[n]) : p \in Peers(n)}
<1> USE DEF LogInv, ElectionInv, TypeInv
<1>1. n \in Server /\ m.src \in Server
  BY ReceivedFields DEF Received, TypeOK
<1>2. /\ role[n] = "candidate" /\ m.term = T
      /\ role' = [role EXCEPT ![n] = "leader"]
      /\ granted' = [granted EXCEPT ![n] = {}]
      /\ match_index' = [match_index EXCEPT ![n] = [p \in Server |-> 0]]
      /\ log' = [log EXCEPT ![n] = lg]
      /\ elected' = elected \cup {x} /\ Answer(m, S)
      /\ UNCHANGED current_term /\ Persist(n)
  BY DEF WinElection
<1>3. T \in Nat \ {0} /\ log[n] \in Log /\ Len(log[n]) \in Nat
  BY <1>1, <1>2, LenProperties DEF TypeOK, TermPositive, Log
<1>4. e \in Entry /\ e.term = T
  BY <1>3 DEF Entry
<1>5. log'[n] = lg
  BY <1>1, <1>2 DEF TypeOK
<1>6. /\ PrefixOf(log[n], log'[n]) /\ Len(log'[n]) = Len(log[n]) + 1
      /\ log'[n][Len(log'[n])].term = T
  <2> HIDE DEF e
  <2> QED BY <1>3, <1>4, <1>5, AppendEffect
<1>7. /\ role'[n] = "leader" /\ wal'[n].term = T /\ current_term'[n] = T
      /\ \A p \in Server : match_index'[n][p] = 0
      /\ \A k \in Server \ {n} :
            /\ log'[k] = log[k] /\ role'[k] = role[k] /\ granted'[k] = granted[k]
            /\ match_index'[k] = match_index[k] /\ wal'[k] = wal[k]
  BY <1>1, <1>2 DEF Persist, TypeOK
<1>8. Harmless(S)
  <2> SUFFICES ASSUME NEW p \in Peers(n)
               PROVE  LET q == BuildAppendEntries(n, p, T, lg, next, commit_index[n])
                      IN  /\ q.type = "append_entries" /\ q.term = T
                          /\ SliceOf(q, log'[n])
    BY <1>1, <1>7 DEF Harmless
  <2>1. log'[n] \in Log
    BY <1>1 DEF TypeOK, Log
  <2>2. next \in Nat \ {0}
    BY <1>3
  <2> HIDE DEF next, lg
  <2> QED BY <1>5, <2>1, <2>2, BuiltFromLog DEF BuildAppendEntries
<1> HIDE DEF S, lg, next
<1>9. InFlight' \subseteq InFlight \cup S
  BY <1>2, AnswerEffect DEF TypeOK
<1>10. NoNewVotes /\ NoNewSuccess /\ RequestsFromLeaders
  BY <1>8, <1>9, HarmlessEffect
<1>11. \A v \in Tally(n, m) : v \in Server /\ Promised(v, T, n)
  <2>1. Tally(n, m) \subseteq Server
    BY <1>1 DEF Tally, TypeOK
  <2> QED BY <1>2, <2>1, TallyIsPromised
<1>12. \A f \in elected : f.term # T
  <2> SUFFICES ASSUME NEW f \in elected, f.term = T PROVE FALSE
    OBVIOUS
  <2>1. ElectionSafety'
    <3>1. ElectionInv'
      OBVIOUS
    <3> HIDE DEF ElectionInv
    <3> QED BY <3>1, OneVoteMeansOneLeader, PTL
  <2>2. f \in elected' /\ x \in elected'
    BY <1>2
  <2>3. f.leader = n
    BY <2>1, <2>2 DEF ElectionSafety
  <2> QED BY <1>1, <1>2, <2>3 DEF RolesAreEarned
<1>13. h[T] = <<>>
  <2>1. h[T] \in Log /\ ~ (Len(h[T]) > 0)
    BY <1>3, <1>12 DEF Story, Written
  <2> QED BY <2>1, EmptySeq, LenProperties DEF Log
<1>14. /\ elected' = elected \cup {x} /\ x.term = T /\ x.leader = n
       /\ x.voters = Tally(n, m)
  BY <1>2
<1> HIDE DEF x
<1>15. Appends(h, n)
  BY <1>2, <1>6, <1>7, <1>11, <1>12, <1>13, <1>14 DEF Appends
<1> HIDE DEF LogInv
<1> QED BY <1>1, <1>10, <1>15, AppendsStory
-----------------------------------------------------------------------------
(***************************************************************************)
(* Every step goes on with the story.                                      *)
(***************************************************************************)
\* What is persisted is no older than what was.
LEMMA PersistRises ==
  ASSUME TypeInv, TypeInv', WalBehind, NEW n \in Server, Persist(n),
         current_term'[n] >= current_term[n]
  PROVE  TermsRise
<1>1. /\ wal'[n].term = current_term'[n]
      /\ \A k \in Server \ {n} : wal'[k] = wal[k]
  BY DEF Persist, TypeInv, TypeOK
<1>2. /\ \A k \in Server : wal[k].term \in Nat
      /\ current_term[n] \in Nat /\ current_term'[n] \in Nat
      /\ wal[n].term <= current_term[n]
  BY DEF TypeInv, TypeOK, WalRecord, WalBehind
<1> QED BY <1>1, <1>2 DEF TermsRise

\* Nor is a record of the same term or a later one.
LEMMA RecordRises ==
  ASSUME TypeInv, NEW n \in Server, NEW record, wal' = [wal EXCEPT ![n] = record],
         record.term >= wal[n].term
  PROVE  TermsRise
<1>1. wal'[n] = record /\ \A k \in Server \ {n} : wal'[k] = wal[k]
  BY DEF TypeInv, TypeOK
<1>2. \A k \in Server : wal[k].term \in Nat
  BY DEF TypeInv, TypeOK, WalRecord
<1> QED BY <1>1, <1>2 DEF TermsRise

\* Nor is what is not written.
LEMMA UnwrittenRises ==
  ASSUME TypeInv, UNCHANGED wal
  PROVE  TermsRise
BY DEF TermsRise, TypeInv, TypeOK, WalRecord

\* No WAL ever goes back to an older term.
LEMMA NextRises ==
  ASSUME ElectionInv, TypeInv', [Next]_vars
  PROVE  TermsRise
<1> USE DEF ElectionInv
<1>0. \A m \in InFlight : m.dst \in Server /\ m.term \in Nat
  BY ReceivedFields DEF TypeInv, TypeOK
<1>1. ASSUME NEW n \in Server, Persist(n), current_term' = current_term
      PROVE  TermsRise
  <2>1. current_term[n] \in Nat
    BY DEF TypeInv, TypeOK
  <2> QED BY <1>1, <2>1, PersistRises
<1>2. CASE \E n \in Server : StartElection(n)
  <2>1. PICK n \in Server : StartElection(n)
    BY <1>2
  <2>2. current_term[n] \in Nat /\ current_term'[n] = current_term[n] + 1
    BY <2>1 DEF StartElection, TypeInv, TypeOK
  <2>3. current_term'[n] >= current_term[n] /\ Persist(n)
    BY <2>1, <2>2 DEF StartElection
  <2> QED BY <2>3, PersistRises
<1>3. CASE \E m \in Received("request_vote") : HandleRequestVote(m)
  <2>1. PICK m \in Received("request_vote") : HandleRequestVote(m)
    BY <1>3
  <2>2. m.dst \in Server /\ m.term \in Nat /\ current_term[m.dst] \in Nat
    BY <1>0 DEF Received, TypeInv, TypeOK
  <2>3. CASE m.term > current_term[m.dst]
    <3>1. current_term' = [current_term EXCEPT ![m.dst] = m.term]
      BY <2>1, <2>3 DEF HandleRequestVote
    <3>2. current_term'[m.dst] >= current_term[m.dst]
      BY <2>2, <2>3, <3>1 DEF TypeInv, TypeOK
    <3> QED BY <2>1, <2>2, <3>2, PersistRises DEF HandleRequestVote
  <2>4. CASE ~ (m.term > current_term[m.dst])
    BY <1>1, <2>1, <2>2, <2>4 DEF HandleRequestVote
  <2> QED BY <2>3, <2>4
<1>4. CASE \E m \in Received("request_vote_reply") : HandleVoteReply(m)
  <2>1. PICK m \in Received("request_vote_reply") : HandleVoteReply(m)
    BY <1>4
  <2>2. CASE StepDownOnReply(m) \/ IgnoreVote(m) \/ CountVote(m)
    BY <2>2, UnwrittenRises DEF StepDownOnReply, IgnoreVote, CountVote
  <2>3. CASE WinElection(m)
    <3>1. m.dst \in Server
      BY <1>0 DEF Received
    <3> QED BY <1>1, <2>3, <3>1 DEF WinElection
  <2> QED BY <2>1, <2>2, <2>3 DEF HandleVoteReply
<1>5. CASE \E m \in Received("append_entries") : HandleAppendEntries(m)
  <2>1. PICK m \in Received("append_entries") : HandleAppendEntries(m)
    BY <1>5
  <2>2. m.dst \in Server /\ m.term \in Nat /\ current_term[m.dst] \in Nat
    BY <1>0 DEF Received, TypeInv, TypeOK
  <2>3. CASE RejectStaleAppend(m)
    BY <1>1, <2>2, <2>3 DEF RejectStaleAppend, stateVars
  <2>4. CASE RejectMismatch(m) \/ AcceptAppend(m)
    <3>1. /\ current_term' = [current_term EXCEPT ![m.dst] = m.term]
          /\ m.term >= current_term[m.dst] /\ Persist(m.dst)
      BY <2>4 DEF RejectMismatch, AcceptAppend, Accepts, FollowLeader
    <3>2. current_term'[m.dst] = m.term
      BY <2>2, <3>1 DEF TypeInv, TypeOK
    <3> QED BY <2>2, <3>1, <3>2, PersistRises
  <2>5. CASE TornAppend(m)
    <3> DEFINE n == m.dst
               lg == AppendNewEntries(log[n], m.prev_log_index, m.entries)
               kept == KeptLength(log[n], m.prev_log_index, m.entries)
    <3>1. PICK written \in kept..Len(lg) :
             Recover(n, SubSeq(lg, 1, written),
                     IF written > kept THEN Journalled(n, SubSeq(lg, 1, written))
                                       ELSE wal[n])
      BY <2>5 DEF TornAppend
    <3>2. lg \in Log /\ kept \in Nat /\ kept <= Len(lg)
      BY <2>5, AcceptedMerge DEF TornAppend
    <3> DEFINE torn == SubSeq(lg, 1, written)
               record == IF written > kept THEN Journalled(n, torn) ELSE wal[n]
    <3>3. torn \in Log
      BY <3>2, PrefixType
    <3>4. Journalled(n, torn).term >= wal[n].term /\ wal[n].term \in Nat
      BY <2>2, <3>3, JournalledType DEF TypeInv, TypeOK, WalRecord
    <3>5. wal' = [wal EXCEPT ![n] = record]
      BY <3>1 DEF Recover
    <3> HIDE DEF lg, kept, torn
    <3>6. record.term >= wal[n].term
      BY <3>4
    <3> HIDE DEF record
    <3> QED BY <2>2, <3>5, <3>6, RecordRises
  <2> QED BY <2>1, <2>3, <2>4, <2>5 DEF HandleAppendEntries
<1>6. CASE \E m \in Received("append_entries_reply") : HandleAppendReply(m)
  <2>1. PICK m \in Received("append_entries_reply") : HandleAppendReply(m)
    BY <1>6
  <2>2. m.dst \in Server
    BY <1>0 DEF Received
  <2>3. CASE StepDownOnReply(m) \/ IgnoreAppendReply(m)
    BY <2>3, UnwrittenRises DEF StepDownOnReply, IgnoreAppendReply
  <2>4. CASE AppendRefused(m)
    BY <1>1, <2>2, <2>4 DEF AppendRefused, stateVars
  <2>5. CASE AppendAcknowledged(m)
    <3>1. current_term' = current_term
      BY <2>5 DEF AppendAcknowledged
    <3> DEFINE r == [term |-> current_term[m.dst], voted_for |-> voted_for[m.dst],
                     commit |-> commit_index[m.dst]]
    <3>2. Persist(m.dst) \/ UNCHANGED wal \/ wal' = [wal EXCEPT ![m.dst] = r]
      BY <2>5 DEF AppendAcknowledged
    <3>3. CASE Persist(m.dst)
      BY <1>1, <2>2, <3>1, <3>3
    <3>4. CASE UNCHANGED wal
      BY <3>4, UnwrittenRises
    <3>5. CASE wal' = [wal EXCEPT ![m.dst] = r]
      <4>1. r.term >= wal[m.dst].term
        BY <2>2 DEF TypeInv, TypeOK, WalRecord, WalBehind
      <4> HIDE DEF r
      <4> QED BY <2>2, <3>5, <4>1, RecordRises
    <3> QED BY <3>2, <3>3, <3>4, <3>5
  <2> QED BY <2>1, <2>3, <2>4, <2>5 DEF HandleAppendReply
<1>7. CASE \E n \in Server, c \in Command : ClientSubmit(n, c)
  BY <1>1, <1>7 DEF ClientSubmit
<1>8. CASE \E n \in Server : BroadcastHeartbeat(n)
  BY <1>1, <1>8 DEF BroadcastHeartbeat, stateVars
<1>9. CASE \E n \in Server : AnswerClient(n)
  BY <1>1, <1>9 DEF AnswerClient, stateVars
<1>10. CASE \E n \in Server : Restart(n)
  <2>1. PICK n \in Server : wal' = [wal EXCEPT ![n] = wal[n]]
    BY <1>10 DEF Restart, Recover
  <2>2. wal' = wal
    BY <2>1 DEF TypeInv, TypeOK
  <2> QED BY <2>2, UnwrittenRises
<1>11. CASE \E m \in InFlight : Lose(m)
  BY <1>11, UnwrittenRises DEF Lose
<1>12. CASE UNCHANGED vars
  BY <1>12, UnwrittenRises DEF vars
<1> QED BY <1>2, <1>3, <1>4, <1>5, <1>6, <1>7, <1>8, <1>9, <1>10, <1>11, <1>12 DEF Next

\* A step that is no leader's append leaves the histories and what was
\* acknowledged, or adds to that.
LEMMA SameHistories ==
  ASSUME NEW h, Written(h), NEW a, NEW b, a \subseteq b
  PROVE  Extends(h, a, h, b)
BY PrefixReflexive DEF Written, Extends

\* What AcceptAppend adds to the story is stored.
LEMMA AcceptAppendAdds ==
  ASSUME LogInv, LogInv', CandidaciesKnown, TermsRise, NEW h, NEW a, Story(h, a),
         NEW m \in Received("append_entries"), AcceptAppend(m)
  PROVE  \E g, b : /\ CandidaciesKnown' /\ Story(g, b)'
                   /\ Extends(h, a, g, b) /\ Adds(h, a, g, b)
<1> DEFINE n == m.dst
           lg == AppendNewEntries(log[n], m.prev_log_index, m.entries)
           last == m.prev_log_index + Len(m.entries)
           b == a \cup Acknowledges(m)
<1>1. CandidaciesKnown' /\ Story(h, b)'
  BY AcceptAppendStory
<1>2. Extends(h, a, h, b)
  BY SameHistories DEF Story
<1>3. Accepts(n, m) /\ log' = [log EXCEPT ![n] = lg] /\ elected' = elected
  BY DEF AcceptAppend
<1>4. /\ n \in Server /\ m.term \in Nat
      /\ m.prev_log_index \in Nat /\ m.entries \in Seq(Entry)
      /\ log[n] \in Log /\ h[m.term] \in Log /\ SliceOf(m, h[m.term])
      /\ HasEntry(log[n], m.prev_log_index, m.prev_log_term)
      /\ Traced(log[n], h) /\ Traced(h[m.term], h)
  BY <1>3, AcceptedRequest DEF Story, LogInv
<1>5. lg \in Log /\ log'[n] = lg
  BY <1>3, <1>4, AcceptedMerge DEF LogInv, ElectionInv, TypeInv, TypeOK
<1>6. \A i \in 1..last : i <= Len(lg) /\ lg[i] = h[m.term][i]
  BY <1>4, MergeCovers
<1>7. Len(lg) \in Nat
  BY <1>5, LenProperties DEF Log
<1> HIDE DEF lg
<1>8. ASSUME NEW v \in Server, NEW t \in Nat, NEW i \in Nat,
             <<v, t, i>> \in b, <<v, t, i>> \notin a
      PROVE  Holds(log'[v], h[t][i].term, i)
  <2>1. v = n /\ t = m.term /\ i \in 1..last
    BY <1>8 DEF Acknowledges
  <2>2. i \in 1..Len(lg) /\ lg[i] = h[t][i]
    BY <1>6, <1>7, <2>1
  <2> QED BY <1>5, <2>1, <2>2 DEF Holds
<1>9. Adds(h, a, h, b)
  BY <1>3, <1>8 DEF Adds
<1> QED BY <1>1, <1>2, <1>9

\* Every step goes on with the story.
LEMMA NextStory ==
  ASSUME LogInv, LogInv', CandidaciesKnown, NEW h, NEW a, Story(h, a), [Next]_vars
  PROVE  \E g, b : /\ CandidaciesKnown' /\ Story(g, b)'
                   /\ Extends(h, a, g, b) /\ Adds(h, a, g, b)
<1> DEFINE Goal == \E g, b : /\ CandidaciesKnown' /\ Story(g, b)'
                             /\ Extends(h, a, g, b) /\ Adds(h, a, g, b)
<1>0. TermsRise
  BY NextRises DEF LogInv, ElectionInv
<1>1. ASSUME CandidaciesKnown', Story(h, a)', elected' = elected PROVE Goal
  <2>1. Extends(h, a, h, a) /\ Adds(h, a, h, a)
    BY <1>1, SameHistories DEF Story, Adds
  <2> QED BY <1>1, <2>1
<1> SUFFICES ASSUME ~ (CandidaciesKnown' /\ Story(h, a)' /\ elected' = elected)
             PROVE  Goal
  BY <1>1
<1>2. CASE \E n \in Server : StartElection(n)
  BY <1>0, <1>2, StartElectionStory DEF StartElection
<1>3. CASE \E m \in Received("request_vote") : HandleRequestVote(m)
  BY <1>0, <1>3, HandleRequestVoteStory DEF HandleRequestVote
<1>4. CASE \E m \in Received("request_vote_reply") : HandleVoteReply(m)
  <2>1. PICK m \in Received("request_vote_reply") : HandleVoteReply(m)
    BY <1>4
  <2>2. CASE StepDownOnReply(m)
    BY <1>0, <2>2, StepDownOnReplyStory DEF Received, StepDownOnReply
  <2>3. CASE IgnoreVote(m)
    BY <1>0, <2>3, DiscardOnlyStory DEF IgnoreVote
  <2>4. CASE CountVote(m)
    BY <1>0, <2>4, CountVoteStory DEF CountVote
  <2>5. CASE WinElection(m)
    BY <1>0, <2>5, WinElectionStory
  <2> QED BY <2>1, <2>2, <2>3, <2>4, <2>5 DEF HandleVoteReply
<1>5. CASE \E m \in Received("append_entries") : HandleAppendEntries(m)
  <2>1. PICK m \in Received("append_entries") : HandleAppendEntries(m)
    BY <1>5
  <2>2. CASE RejectStaleAppend(m)
    BY <1>0, <2>2, RejectStaleAppendStory DEF RejectStaleAppend
  <2>3. CASE RejectMismatch(m)
    BY <1>0, <2>3, RejectMismatchStory DEF RejectMismatch
  <2>4. CASE AcceptAppend(m)
    BY <1>0, <2>4, AcceptAppendAdds
  <2>5. CASE TornAppend(m)
    BY <1>0, <2>5, TornAppendStory DEF TornAppend, Recover
  <2> QED BY <2>1, <2>2, <2>3, <2>4, <2>5 DEF HandleAppendEntries
<1>6. CASE \E m \in Received("append_entries_reply") : HandleAppendReply(m)
  <2>1. PICK m \in Received("append_entries_reply") : HandleAppendReply(m)
    BY <1>6
  <2>2. CASE StepDownOnReply(m)
    BY <1>0, <2>2, StepDownOnReplyStory DEF Received, StepDownOnReply
  <2>3. CASE IgnoreAppendReply(m)
    BY <1>0, <2>3, DiscardOnlyStory DEF IgnoreAppendReply
  <2>4. CASE AppendAcknowledged(m)
    BY <1>0, <2>4, AppendAcknowledgedStory DEF AppendAcknowledged
  <2>5. CASE AppendRefused(m)
    BY <1>0, <2>5, AppendRefusedStory DEF AppendRefused
  <2> QED BY <2>1, <2>2, <2>3, <2>4, <2>5 DEF HandleAppendReply
<1>7. CASE \E n \in Server, c \in Command : ClientSubmit(n, c)
  BY <1>0, <1>7, ClientSubmitStory
<1>8. CASE \E n \in Server : BroadcastHeartbeat(n)
  BY <1>0, <1>8, BroadcastHeartbeatStory DEF BroadcastHeartbeat
<1>9. CASE \E n \in Server : AnswerClient(n)
  BY <1>0, <1>9, SilentStory DEF AnswerClient
<1>10. CASE \E n \in Server : Restart(n)
  BY <1>0, <1>10, RestartStory DEF Restart, Recover
<1>11. CASE \E m \in InFlight : Lose(m)
  BY <1>0, <1>11, DiscardOnlyStory DEF Lose
<1>12. CASE UNCHANGED vars
  BY <1>0, <1>12, SilentStory DEF vars
<1> QED BY <1>2, <1>3, <1>4, <1>5, <1>6, <1>7, <1>8, <1>9, <1>10, <1>11, <1>12 DEF Next

\* The invariant: that of log matching, and a story that explains the state.
StoryInv == LogInv /\ CandidaciesKnown /\ \E h, a : Story(h, a)

\* At the start there is nothing to tell.
LEMMA InitStory == Init => LogInv /\ CandidaciesKnown /\ Story([t \in Nat |-> <<>>], {})
<1> SUFFICES ASSUME Init
             PROVE  LogInv /\ CandidaciesKnown /\ Story([t \in Nat |-> <<>>], {})
  OBVIOUS
<1> DEFINE h == [t \in Nat |-> <<>>]
<1>1. LogInv
  BY InitLogs
<1>2. InFlight = {} /\ elected = {} /\ \A type : Received(type) = {}
  BY DEF Init, InFlight, Received, EmptyBag, SetToBag, BagToSet
<1>3. <<>> \in Log /\ Len(<<>>) = 0 /\ \A i : i \notin 1..Len(<<>>)
  BY EmptySeq DEF Log
<1>4. /\ \A n \in Server : log[n] = <<>> /\ role[n] = "follower"
      /\ \A t \in Nat : h[t] = <<>>
      /\ h \in [Nat -> Log]
  BY <1>3 DEF Init
<1> HIDE DEF h
<1>5. CandidaciesKnown
  BY <1>2 DEF CandidaciesKnown
<1>6. Traced(<<>>, h)
  BY <1>3 DEF Traced
<1>7. Written(h)
  BY <1>2, <1>3, <1>4, <1>6 DEF Written
<1>8. AcksKnown(h, {})
  BY <1>2, <1>4 DEF AcksKnown
<1>9. /\ AcksHeld(h, {}) /\ VotesCompared(h, {}) /\ VotersBlock(h, {})
  BY <1>2 DEF AcksHeld, VotesCompared, VotersBlock, Lost
<1> QED BY <1>1, <1>5, <1>7, <1>8, <1>9 DEF Story, h

\* Every step keeps the invariant.
LEMMA NextStoryInv == StoryInv /\ [Next]_vars => StoryInv'
<1> SUFFICES ASSUME StoryInv, [Next]_vars PROVE StoryInv'
  OBVIOUS
<1>1. LogInv /\ LogInv' /\ CandidaciesKnown
  BY NextLogs DEF StoryInv
<1>2. PICK h, a : Story(h, a)
  BY DEF StoryInv
<1>3. \E g, b : CandidaciesKnown' /\ Story(g, b)' /\ Extends(h, a, g, b)
  BY <1>1, <1>2, NextStory
<1> QED BY <1>1, <1>3 DEF StoryInv

\* Every behaviour has its story.
LEMMA StoryInvariant == Spec => []StoryInv
<1>1. Init => StoryInv
  BY InitStory DEF StoryInv
<1> QED BY <1>1, NextStoryInv, PTL DEF Spec

-----------------------------------------------------------------------------
(***************************************************************************)
(* What is committed stays committed, everywhere and for good.             *)
(*                                                                         *)
(* An entry of a leader's own term that a majority acknowledged is chosen: *)
(* no later leader lacks it, and no server that a majority would vote for  *)
(* does.  A leader commits what is chosen and what comes before it; a      *)
(* request tells a commit index of its leader.  A follower takes the lower *)
(* of that index and the length of its own log, which may reach past what  *)
(* the request brought: that is safe as long as no request leaves a        *)
(* committed entry behind (CommitWithinBatch), which the batches of the    *)
(* code grant to logs of at most a batch (OneBatchIsSafe).                 *)
(***************************************************************************)

\* A majority acknowledged the entry of the leader's own term.
Chosen(h, a, t, i) ==
    Holds(h[t], t, i) /\ IsMajority({v \in Server : <<v, t, i>> \in a})

-----------------------------------------------------------------------------
(***************************************************************************)
(* Counting.                                                               *)
(***************************************************************************)
\* Two logs with the same beginning, as the properties say it.
LEMMA SamePrefix ==
  ASSUME NEW K \in Log, NEW L \in Log, NEW k \in Nat, k <= Len(K), k <= Len(L),
         \A j \in 1..k : K[j] = L[j]
  PROVE  SubSeq(K, 1, k) = SubSeq(L, 1, k)
<1> DEFINE s == SubSeq(K, 1, k)
           t == SubSeq(L, 1, k)
<1>1. Len(K) \in Nat /\ Len(L) \in Nat /\ k \in 0..Len(K) /\ k \in 0..Len(L)
  BY LenProperties DEF Log
<1>2. s \in Seq(Entry) /\ Len(s) = k /\ \A j \in 1..k : s[j] = K[j]
  BY <1>1, PrefixCut, PrefixType DEF PrefixOf, Log
<1>3. t \in Seq(Entry) /\ Len(t) = k /\ \A j \in 1..k : t[j] = L[j]
  BY <1>1, PrefixCut, PrefixType DEF PrefixOf, Log
<1> HIDE DEF s, t
<1>4. s = t
  BY <1>2, <1>3, SeqEqual
<1> QED BY <1>4 DEF s, t

\* Whoever contains a majority is one.
LEMMA MajorityGrows ==
  ASSUME NEW S, NEW T \in SUBSET Server, S \subseteq T, IsMajority(S)
  PROVE  IsMajority(T)
<1>1. IsFiniteSet(T)
  BY ServerAssumption, FS_Subset
<1>2. /\ Cardinality(S) \in Nat /\ Cardinality(T) \in Nat
      /\ Cardinality(S) <= Cardinality(T) /\ Cardinality(Server) \in Nat
  BY <1>1, ServerAssumption, FS_Subset, FS_CardinalityType
<1> QED BY <1>2 DEF IsMajority, Majority

\* No later leader lacks what was chosen: one of the voters of such a leader
\* would have acknowledged it.
LEMMA ChosenStands ==
  ASSUME ElectionInv, NEW h, NEW a, Story(h, a), NEW t \in Nat, NEW i \in Nat,
         Chosen(h, a, t, i)
  PROVE  ~ Lost(h, t, i)
<1> SUFFICES ASSUME Lost(h, t, i) PROVE FALSE
  OBVIOUS
<1>1. PICK e \in elected : \A v \in e.voters : <<v, t, i>> \notin a
  BY DEF Story, VotersBlock, Chosen
<1>2. e.voters \in SUBSET Server /\ IsMajority(e.voters)
  BY DEF ElectionInv, TypeInv, TypeOK, VotersAreMajority
<1> DEFINE S == {v \in Server : <<v, t, i>> \in a}
<1>3. IsMajority(S) /\ S \in SUBSET Server
  BY DEF Chosen
<1>4. PICK v \in Server : v \in e.voters /\ v \in S
  BY <1>2, <1>3, MajoritiesIntersect
<1> QED BY <1>1, <1>4

\* What advance_commit_index finds, when it moves: an entry of the leader's own
\* term that a majority stores.
LEMMA AdvanceMeans ==
  ASSUME TypeInv, NEW n \in Server, NEW match \in [Server -> Nat],
         NEW k, k = AdvanceCommitIndex(n, match), k # commit_index[n]
  PROVE  /\ k \in 1..Len(log[n]) /\ k > commit_index[n]
         /\ log[n][k].term = current_term[n]
         /\ StoredByMajority(n, match, k)
<1> DEFINE stored == {i \in 0..Len(log[n]) : StoredByMajority(n, match, i)}
<1> USE DEF TypeInv, TypeOK
<1>1. Len(log[n]) \in Nat /\ commit_index[n] \in Nat
  BY LenProperties
<1>2. 0 \in stored
  <2>1. {n} \cup {p \in Peers(n) : match[p] >= 0} = Server
    BY DEF Peers
  <2>2. Cardinality(Server) \in Nat /\ Cardinality(Server) > 1
    BY ServerAssumption, FS_CardinalityType
  <2>3. IsMajority(Server)
    BY <2>2 DEF IsMajority, Majority
  <2>4. StoredByMajority(n, match, 0)
    BY <2>1, <2>3, Zenon DEF StoredByMajority
  <2> QED BY <1>1, <2>4
<1>3. stored \in SUBSET Nat /\ \A x \in stored : x <= Len(log[n])
  BY <1>1
<1> HIDE DEF stored
<1> DEFINE candidate == Max(stored)
<1>4. candidate \in stored
  BY <1>1, <1>2, <1>3, MaxIsGreatest
<1>5. AdvanceCommitIndex(n, match)
        = IF candidate > commit_index[n]
              /\ TermAt(log[n], candidate) = current_term[n]
          THEN candidate ELSE commit_index[n]
  BY Zenon DEF AdvanceCommitIndex, stored
<1> HIDE DEF candidate
<1>6. /\ k = candidate /\ candidate > commit_index[n]
      /\ TermAt(log[n], candidate) = current_term[n]
  BY <1>5
<1>7. k \in 0..Len(log[n]) /\ StoredByMajority(n, match, k)
  BY <1>4, <1>6 DEF stored
<1>8. k # 0
  BY <1>1, <1>6, <1>7
<1> QED BY <1>1, <1>6, <1>7, <1>8 DEF TermAt

\* What a leader commits by counting is chosen.
LEMMA CountedIsChosen ==
  ASSUME LogInv, LogInv', CandidaciesKnown, TermsRise, NEW h, NEW a, Story(h, a),
         NEW m \in Received("append_entries_reply"), AppendAcknowledged(m),
         NEW n, n = m.dst, commit_index'[n] # commit_index[n]
  PROVE  /\ n \in Server /\ current_term[n] \in Nat
         /\ commit_index'[n] \in 1..Len(log[n])
         /\ commit_index'[n] > commit_index[n]
         /\ h[current_term[n]] = log[n]
         /\ Chosen(h, a, current_term[n], commit_index'[n])
<1> DEFINE T == current_term[n]
           k == commit_index'[n]
           match == MatchAfter(n, m)
<1>1. n \in Server /\ T \in Nat /\ commit_index \in [Server -> Nat]
      /\ match_index \in [Server -> [Server -> Nat]]
  BY ReceivedFields DEF Received, LogInv, ElectionInv, TypeInv, TypeOK
<1>2. /\ role[n] = "leader" /\ role' = role
      /\ current_term' = current_term /\ log' = log
      /\ match_index' = [match_index EXCEPT ![n] = match]
      /\ commit_index' = [commit_index EXCEPT ![n] = AdvanceCommitIndex(n, match)]
  BY DEF AppendAcknowledged
<1>3. match \in [Server -> Nat]
  BY <1>2, BookkeepingType DEF LogInv, ElectionInv
<1>4. k = AdvanceCommitIndex(n, match) /\ match_index'[n] = match
  BY <1>1, <1>2
<1> HIDE DEF match, k
<1>5. /\ k \in 1..Len(log[n]) /\ k > commit_index[n] /\ log[n][k].term = T
      /\ StoredByMajority(n, match, k)
  BY <1>1, <1>3, <1>4, AdvanceMeans DEF LogInv, ElectionInv, k
<1>6. AcksKnown(h, a)'
  BY AppendAcknowledgedStory DEF Story
<1>7. /\ \A i \in 1..Len(log[n]) : <<n, T, i>> \in a
      /\ \A p \in Server : \A i \in 1..match[p] : <<p, T, i>> \in a
  BY <1>1, <1>2, <1>4, <1>6 DEF AcksKnown
<1>8. {n} \cup {p \in Peers(n) : match[p] >= k} \subseteq {v \in Server : <<v, T, k>> \in a}
  <2>1. <<n, T, k>> \in a
    BY <1>5, <1>7
  <2>2. ASSUME NEW p \in Server, match[p] >= k PROVE <<p, T, k>> \in a
    <3>1. k \in 1..match[p]
      BY <1>3, <1>5, <2>2
    <3> QED BY <1>7, <3>1
  <2> QED BY <1>1, <2>1, <2>2 DEF Peers
<1>9. IsMajority({v \in Server : <<v, T, k>> \in a})
  <2>1. IsMajority({n} \cup {p \in Peers(n) : match[p] >= k})
    BY <1>5, Zenon DEF StoredByMajority
  <2>2. {v \in Server : <<v, T, k>> \in a} \in SUBSET Server
    OBVIOUS
  <2> QED BY <1>8, <2>1, <2>2, MajorityGrows
<1>10. h[T] = log[n]
  BY <1>1, <1>2 DEF Story, Written
<1>11. Holds(h[T], T, k)
  BY <1>5, <1>10 DEF Holds
<1> QED BY <1>1, <1>5, <1>9, <1>10, <1>11 DEF Chosen, k

\* A server that leads on raises its commit index by counting replies only.
LEMMA LeadersCount ==
  ASSUME TypeInv, [Next]_vars, NEW n \in Server, role[n] = "leader",
         role'[n] = "leader", commit_index'[n] # commit_index[n]
  PROVE  \E m \in Received("append_entries_reply") : n = m.dst /\ AppendAcknowledged(m)
<1>1. ASSUME NEW k \in Server, BecomeFollower(k),
             \A j \in Server \ {k} : commit_index'[j] = commit_index[j]
      PROVE  FALSE
  <2>1. role'[k] = "follower"
    BY <1>1 DEF BecomeFollower, TypeInv, TypeOK
  <2> QED BY <1>1, <2>1
<1>2. \A m \in InFlight : m.dst \in Server
  BY ReceivedFields DEF TypeInv, TypeOK
<1>3. commit_index' # commit_index
  OBVIOUS
<1>4. CASE \E m \in Received("append_entries") : HandleAppendEntries(m)
  <2>1. PICK m \in Received("append_entries") : HandleAppendEntries(m)
    BY <1>4
  <2>2. m.dst \in Server
    BY <1>2 DEF Received
  <2>3. CASE AcceptAppend(m)
    <3>1. BecomeFollower(m.dst)
      BY <2>3 DEF AcceptAppend, FollowLeader
    <3>2. \A j \in Server \ {m.dst} : commit_index'[j] = commit_index[j]
      BY <2>3 DEF AcceptAppend, TypeInv, TypeOK
    <3> QED BY <1>1, <2>2, <3>1, <3>2
  <2>4. CASE TornAppend(m)
    <3>1. PICK lg, record : Recover(m.dst, lg, record)
      BY <2>4 DEF TornAppend
    <3>2. \A j \in Server \ {m.dst} : commit_index'[j] = commit_index[j]
      BY <3>1 DEF Recover, TypeInv, TypeOK
    <3> QED BY <1>1, <2>2, <3>1, <3>2 DEF Recover
  <2> QED BY <1>3, <2>1, <2>3, <2>4
          DEF HandleAppendEntries, RejectStaleAppend, RejectMismatch, stateVars
<1>5. CASE \E k \in Server : Restart(k)
  <2>1. PICK k \in Server : Restart(k)
    BY <1>5
  <2>2. \A j \in Server \ {k} : commit_index'[j] = commit_index[j]
    BY <2>1 DEF Restart, Recover, TypeInv, TypeOK
  <2> QED BY <1>1, <2>1, <2>2 DEF Restart, Recover
<1>6. CASE \E m \in Received("append_entries_reply") : HandleAppendReply(m)
  <2>1. PICK m \in Received("append_entries_reply") : HandleAppendReply(m)
    BY <1>6
  <2>2. AppendAcknowledged(m)
    BY <1>3, <2>1
       DEF HandleAppendReply, StepDownOnReply, IgnoreAppendReply, AppendRefused, stateVars
  <2>3. n = m.dst
    BY <2>2 DEF AppendAcknowledged, TypeInv, TypeOK
  <2> QED BY <2>2, <2>3
<1>7. CASE \E m \in Received("request_vote_reply") : HandleVoteReply(m)
  BY <1>3, <1>7 DEF HandleVoteReply, StepDownOnReply, IgnoreVote, CountVote,
                    WinElection, stateVars
<1>8. CASE \/ \E k \in Server : StartElection(k)
           \/ \E m \in Received("request_vote") : HandleRequestVote(m)
           \/ \E m \in InFlight : Lose(m)
  BY <1>3, <1>8 DEF StartElection, HandleRequestVote, Lose, stateVars
<1>9. CASE \/ \E k \in Server, c \in Command : ClientSubmit(k, c)
           \/ \E k \in Server : BroadcastHeartbeat(k)
           \/ \E k \in Server : AnswerClient(k)
  BY <1>3, <1>9 DEF ClientSubmit, BroadcastHeartbeat, AnswerClient, stateVars
<1>10. CASE UNCHANGED vars
  BY <1>3, <1>10 DEF vars, stateVars
<1> QED BY <1>4, <1>5, <1>6, <1>7, <1>8, <1>9, <1>10 DEF Next

\* Every server that a majority would vote for holds what was chosen, and so has
\* all the leader of that term had before it.
LEMMA PersuadableHolds ==
  ASSUME ElectionInv, NEW h, NEW a, Story(h, a), NEW t \in Nat, NEW i \in Nat,
         Chosen(h, a, t, i), NEW p \in Server, IsMajority(Persuadable(p))
  PROVE  Holds(log[p], t, i)
<1> DEFINE S == {v \in Server : <<v, t, i>> \in a}
<1>1. S \in SUBSET Server /\ IsMajority(S)
  BY DEF Chosen
<1>2. Persuadable(p) \in SUBSET Server
  BY DEF Persuadable
<1> HIDE DEF S
<1>3. PICK v \in Server : v \in S /\ v \in Persuadable(p)
  BY <1>1, <1>2, MajoritiesIntersect
<1>4. /\ <<v, t, i>> \in a /\ Holds(h[t], t, i)
      /\ CandidateIsUpToDate(log[v], LastTerm(log[p]), Len(log[p]))
  BY <1>3 DEF S, Persuadable, Chosen
<1>5. ~ Lost(h, t, i)
  BY ChosenStands
<1> QED BY <1>4, <1>5, UpToDateOrLost DEF Story, ElectionInv, TypeInv

\* What a leader commits by counting replies every server holds that a majority
\* could still elect, at that very step (raft/replication.py
\* advance_commit_index: a majority stores it, and it is of the leader's term).
THEOREM CountedIsSafe == Spec => CountedIsDecided
<1> DEFINE Counts(n, p) ==
             /\ role[n] = "leader" /\ role'[n] = "leader"
             /\ commit_index'[n] > commit_index[n]
             /\ IsMajority(Persuadable(p))
             => /\ commit_index'[n] <= Len(log[p])
                /\ SubSeq(log[p], 1, commit_index'[n])
                     = SubSeq(log[n], 1, commit_index'[n])
           Step == \A n, p \in Server : Counts(n, p)
<1>1. StoryInv /\ [Next]_vars => Step
  <2> SUFFICES ASSUME StoryInv, [Next]_vars, NEW n \in Server, NEW p \in Server,
                      role[n] = "leader", role'[n] = "leader",
                      commit_index'[n] > commit_index[n],
                      IsMajority(Persuadable(p))
               PROVE  /\ commit_index'[n] <= Len(log[p])
                      /\ SubSeq(log[p], 1, commit_index'[n])
                           = SubSeq(log[n], 1, commit_index'[n])
    OBVIOUS
  <2> DEFINE T == current_term[n]
             k == commit_index'[n]
  <2>1. LogInv /\ LogInv' /\ CandidaciesKnown /\ ElectionInv /\ TypeInv /\ TypeInv'
    BY NextLogs DEF StoryInv, LogInv, ElectionInv
  <2>2. PICK h, a : Story(h, a)
    BY DEF StoryInv
  <2>3. TermsRise
    BY <2>1, NextRises
  <2>4. commit_index'[n] # commit_index[n]
    BY <2>1 DEF TypeInv, TypeOK
  <2>5. PICK m \in Received("append_entries_reply") : n = m.dst /\ AppendAcknowledged(m)
    BY <2>1, <2>4, LeadersCount
  <2>6. /\ T \in Nat /\ k \in 1..Len(log[n]) /\ h[T] = log[n] /\ Chosen(h, a, T, k)
    BY <2>1, <2>2, <2>3, <2>4, <2>5, CountedIsChosen
  <2> HIDE DEF T, k
  <2>7. /\ log[n] \in Log /\ log[p] \in Log /\ Len(log[n]) \in Nat
        /\ Len(log[p]) \in Nat /\ k \in Nat /\ k <= Len(log[n])
    BY <2>1, <2>6, LenProperties DEF TypeInv, TypeOK, Log
  <2>8. Holds(log[p], T, k)
    BY <2>1, <2>2, <2>6, <2>7, PersuadableHolds
  <2>9. Traced(log[p], h)
    BY <2>2 DEF Story, Written
  <2>10. k \in 1..Len(log[p]) /\ \A j \in 1..k : log[p][j] = log[n][j]
    BY <2>6, <2>7, <2>8, <2>9, HeldIsTraced
  <2>11. k <= Len(log[p]) /\ SubSeq(log[p], 1, k) = SubSeq(log[n], 1, k)
    BY <2>7, <2>10, SamePrefix
  <2> QED BY <2>11 DEF k
<1>2. Step <=> \A n, p \in Server : Counts(n, p)
  OBVIOUS
<1> QED BY <1>1, StoryInvariant, PTL DEF Spec, CountedIsDecided
-----------------------------------------------------------------------------
(***************************************************************************)
(* Commit indices.                                                         *)
(***************************************************************************)
\* The first k entries of L are what the leader of a term up to T had, and in
\* that term they were chosen.
Decided(h, a, k, L, T) ==
    /\ k <= Len(L)
    /\ k > 0 => \E t, i \in Nat :
          /\ t <= T /\ k <= i /\ Chosen(h, a, t, i)
          /\ \A j \in 1..k : L[j] = h[t][j]

\* What a server commits is decided, and so is what its WAL commits by the term
\* its WAL holds, which is all a crash leaves of the other.
NodeDecided(h, a, n) ==
    /\ Decided(h, a, commit_index[n], log[n], current_term[n])
    /\ Decided(h, a, wal[n].commit, log[n], wal[n].term)
    /\ wal[n].commit <= commit_index[n]

\* What a request says is committed is decided in its leader's log.
Commits(h, a) ==
    /\ \A n \in Server : NodeDecided(h, a, n)
    /\ \A m \in Received("append_entries") :
          Decided(h, a, m.leader_commit, h[m.term], m.term)

\* What was chosen is chosen for good.
LEMMA ChosenGrows ==
  ASSUME NEW h \in [Nat -> Log], NEW g \in [Nat -> Log], NEW a, NEW b,
         Extends(h, a, g, b), NEW t \in Nat, NEW i \in Nat, Chosen(h, a, t, i)
  PROVE  Chosen(g, b, t, i)
<1>1. Holds(g[t], t, i)
  BY HoldsGrows DEF Extends, Chosen
<1> DEFINE S == {v \in Server : <<v, t, i>> \in a}
           R == {v \in Server : <<v, t, i>> \in b}
<1>2. S \subseteq R /\ R \in SUBSET Server
  BY DEF Extends
<1>3. IsMajority(S)
  BY DEF Chosen
<1> HIDE DEF S, R
<1>4. IsMajority(R)
  BY <1>2, <1>3, MajorityGrows
<1> QED BY <1>1, <1>4 DEF Chosen, R

\* What is decided of a log is decided of every log with the same beginning, in
\* every later term.
LEMMA DecidedGrows ==
  ASSUME NEW h \in [Nat -> Log], NEW g \in [Nat -> Log], NEW a, NEW b,
         Extends(h, a, g, b), NEW k \in Nat, NEW L \in Log, NEW T \in Nat,
         Decided(h, a, k, L, T), NEW M \in Log, NEW S \in Nat, T <= S,
         k <= Len(M), \A j \in 1..k : M[j] = L[j]
  PROVE  Decided(g, b, k, M, S)
<1> SUFFICES ASSUME k > 0
             PROVE  \E t, i \in Nat :
                       /\ t <= S /\ k <= i /\ Chosen(g, b, t, i)
                       /\ \A j \in 1..k : M[j] = g[t][j]
  BY DEF Decided
<1>1. PICK t \in Nat, i \in Nat :
         t <= T /\ k <= i /\ Chosen(h, a, t, i) /\ \A j \in 1..k : L[j] = h[t][j]
  BY DEF Decided
<1>2. Chosen(g, b, t, i)
  BY <1>1, ChosenGrows
<1>3. \A j \in 1..k : j \in 1..Len(h[t])
  <2>1. i \in 1..Len(h[t]) /\ Len(h[t]) \in Nat
    BY <1>1, LenProperties DEF Chosen, Holds, Log
  <2> QED BY <1>1, <2>1
<1>4. \A j \in 1..k : h[t][j] = g[t][j]
  BY <1>3 DEF Extends, PrefixOf
<1>5. \A j \in 1..k : M[j] = g[t][j]
  BY <1>1, <1>4
<1>6. t <= S
  BY <1>1
<1> QED BY <1>1, <1>2, <1>5, <1>6

\* Every later leader has what was chosen, and all the entries before.
LEMMA LeaderHasChosen ==
  ASSUME ElectionInv, NEW h, NEW a, Story(h, a), NEW t \in Nat, NEW i \in Nat,
         Chosen(h, a, t, i), NEW s \in Nat, t <= s, \E e \in elected : e.term = s
  PROVE  /\ Holds(h[s], t, i) /\ i <= Len(h[s])
         /\ \A j \in 1..i : h[s][j] = h[t][j]
<1>1. ~ Lost(h, t, i)
  BY ChosenStands
<1>2. Holds(h[s], t, i)
  BY <1>1 DEF Lost, Lacks, Chosen
<1>3. h[s] \in Log /\ Traced(h[s], h)
  BY DEF Story, Written
<1>4. Len(h[s]) \in Nat
  BY <1>3, LenProperties DEF Log
<1>5. i \in 1..Len(h[s]) /\ \A j \in 1..i : h[s][j] = h[t][j]
  <2> DEFINE L == h[s]
  <2>1. L \in Log /\ Traced(L, h) /\ Holds(L, t, i)
    BY <1>2, <1>3
  <2> HIDE DEF L
  <2>2. i \in 1..Len(L) /\ \A j \in 1..i : L[j] = h[t][j]
    BY <2>1, HeldIsTraced
  <2> QED BY <2>2 DEF L
<1> QED BY <1>2, <1>4, <1>5

\* A log of which something is decided is a beginning of every later leader's.
LEMMA LeaderHasDecided ==
  ASSUME ElectionInv, NEW h, NEW a, Story(h, a), NEW k \in Nat, NEW L \in Log,
         NEW T \in Nat, Decided(h, a, k, L, T), NEW s \in Nat, T <= s,
         \E e \in elected : e.term = s
  PROVE  k <= Len(h[s]) /\ \A j \in 1..k : L[j] = h[s][j]
<1>1. h[s] \in Log /\ Len(h[s]) \in Nat
  BY LenProperties DEF Story, Written, Log
<1>2. CASE k = 0
  BY <1>1, <1>2
<1>3. CASE k > 0
  <2>1. PICK t \in Nat, i \in Nat :
           t <= T /\ k <= i /\ Chosen(h, a, t, i) /\ \A j \in 1..k : L[j] = h[t][j]
    BY <1>3 DEF Decided
  <2>2. t <= s
    BY <2>1
  <2>3. i <= Len(h[s]) /\ \A j \in 1..i : h[s][j] = h[t][j]
    BY <2>1, <2>2, LeaderHasChosen
  <2>4. k <= Len(h[s]) /\ \A j \in 1..k : j \in 1..i
    BY <1>1, <2>1, <2>3
  <2> QED BY <2>1, <2>3, <2>4
<1> QED BY <1>2, <1>3

\* Two logs agree on what is decided of both.
LEMMA DecidedAgree ==
  ASSUME ElectionInv, NEW h, NEW a, Story(h, a),
         NEW k \in Nat, NEW K \in Log, NEW S \in Nat, Decided(h, a, k, K, S),
         NEW l \in Nat, NEW L \in Log, NEW T \in Nat, Decided(h, a, l, L, T)
  PROVE  \A j \in 1..k : j <= l => K[j] = L[j]
<1> SUFFICES ASSUME NEW j \in 1..k, j <= l PROVE K[j] = L[j]
  OBVIOUS
<1>0. k > 0 /\ l > 0
  OBVIOUS
<1>1. PICK t \in Nat, i \in Nat :
         k <= i /\ Chosen(h, a, t, i) /\ \A x \in 1..k : K[x] = h[t][x]
  BY <1>0 DEF Decided
<1>2. PICK s \in Nat, r \in Nat :
         l <= r /\ Chosen(h, a, s, r) /\ \A x \in 1..l : L[x] = h[s][x]
  BY <1>0 DEF Decided
<1>3. j \in 1..i /\ j \in 1..r /\ j \in 1..l
  BY <1>1, <1>2
<1>4. (\E e \in elected : e.term = t) /\ (\E e \in elected : e.term = s)
  <2>1. /\ h[t] \in Log /\ h[s] \in Log /\ i \in 1..Len(h[t]) /\ r \in 1..Len(h[s])
    BY <1>1, <1>2 DEF Chosen, Holds, Story, Written
  <2>2. Len(h[t]) > 0 /\ Len(h[s]) > 0
    BY <2>1, LenProperties DEF Log
  <2> QED BY <2>2 DEF Story, Written
<1>5. CASE t <= s
  <2>1. h[s][j] = h[t][j]
    BY <1>1, <1>3, <1>4, <1>5, LeaderHasChosen
  <2> QED BY <1>1, <1>2, <1>3, <2>1
<1>6. CASE s <= t
  <2>1. h[t][j] = h[s][j]
    BY <1>2, <1>3, <1>4, <1>6, LeaderHasChosen
  <2> QED BY <1>1, <1>2, <1>3, <2>1
<1> QED BY <1>5, <1>6
-----------------------------------------------------------------------------
(***************************************************************************)
(* Steps.                                                                  *)
(***************************************************************************)
\* A server goes on with its log and its commit index, and its WAL as it was or
\* with its scalars of now.
NodeKept(n) ==
    /\ PrefixOf(log[n], log'[n])
    /\ current_term'[n] >= current_term[n]
    /\ commit_index'[n] = commit_index[n]
    /\ \/ wal'[n] = wal[n]
       \/ wal'[n].term = current_term'[n] /\ wal'[n].commit = commit_index[n]

\* It brings L to its end, or as much of it as a request can.
Brings(m, L) ==
    /\ m.prev_log_index + Len(m.entries) <= Len(L)
    /\ Len(m.entries) < MaxBatch => m.prev_log_index + Len(m.entries) = Len(L)

\* A new request tells what its leader had committed when the step began.
RequestsTellCommits ==
    \A m \in Received("append_entries")' :
        \/ m \in Received("append_entries")
        \/ \E k \in Server :
              /\ role'[k] = "leader" /\ m.term = current_term'[k]
              /\ m.leader_commit = commit_index[k] /\ Brings(m, log'[k])
              /\ PrefixOf(log[k], log'[k]) /\ current_term'[k] >= current_term[k]

\* No step takes back what is committed, nor what the WAL says of it.
NodeSafe(n) ==
    /\ commit_index[n] <= Len(log'[n])
    /\ \A j \in 1..commit_index[n] : log'[n][j] = log[n][j]
    /\ wal'[n].commit >= wal[n].commit

\* Every server has committed what is decided, and no less than before.
CommitStep(g, b) == \A n \in Server : NodeDecided(g, b, n)' /\ NodeSafe(n)

\* What the steps that leave a server its log and commit index do to it.
LEMMA KeptIsDecided ==
  ASSUME TypeInv, TypeInv', NEW h \in [Nat -> Log], NEW g \in [Nat -> Log], NEW a, NEW b,
         Extends(h, a, g, b), NEW n \in Server, NodeDecided(h, a, n), NodeKept(n)
  PROVE  NodeDecided(g, b, n)' /\ NodeSafe(n)
<1> DEFINE k == commit_index[n]
           w == wal[n].commit
<1>1. /\ log[n] \in Log /\ log'[n] \in Log /\ k \in Nat /\ w \in Nat
      /\ current_term[n] \in Nat /\ current_term'[n] \in Nat
      /\ wal[n].term \in Nat
  BY DEF TypeInv, TypeOK, WalRecord, Log
<1>2. Len(log[n]) \in Nat /\ Len(log'[n]) \in Nat
  BY <1>1, LenProperties DEF Log
<1>3. k <= Len(log[n]) /\ w <= k
  BY DEF NodeDecided, Decided
<1>4. k <= Len(log'[n]) /\ \A j \in 1..k : log'[n][j] = log[n][j]
  BY <1>1, <1>2, <1>3 DEF NodeKept, PrefixOf
<1>5. w <= Len(log'[n]) /\ \A j \in 1..w : log'[n][j] = log[n][j]
  BY <1>1, <1>2, <1>3, <1>4
<1>6. Decided(g, b, k, log'[n], current_term'[n])
  <2> DEFINE L == log[n]
             M == log'[n]
             T == current_term[n]
             S == current_term'[n]
  <2>1. Decided(h, a, k, L, T) /\ T <= S
    BY <1>1 DEF NodeDecided, NodeKept
  <2>2. k \in Nat /\ L \in Log /\ M \in Log /\ T \in Nat /\ S \in Nat
    BY <1>1
  <2>3. k <= Len(M) /\ \A j \in 1..k : M[j] = L[j]
    BY <1>4
  <2> HIDE DEF k, L, M, T, S
  <2>4. Decided(g, b, k, M, S)
    BY <2>1, <2>2, <2>3, DecidedGrows
  <2> QED BY <2>4 DEF k, M, S
<1>7. Decided(g, b, w, log'[n], wal[n].term)
  <2> DEFINE L == log[n]
             M == log'[n]
             T == wal[n].term
  <2>1. Decided(h, a, w, L, T) /\ T <= T
    BY <1>1 DEF NodeDecided
  <2>2. w \in Nat /\ L \in Log /\ M \in Log /\ T \in Nat
    BY <1>1
  <2>3. w <= Len(M) /\ \A j \in 1..w : M[j] = L[j]
    BY <1>5
  <2> HIDE DEF w, L, M, T
  <2>4. Decided(g, b, w, M, T)
    BY <2>1, <2>2, <2>3, DecidedGrows
  <2> QED BY <2>4 DEF w, M, T
<1>8. CASE wal'[n] = wal[n]
  BY <1>3, <1>4, <1>6, <1>7, <1>8, <1>1 DEF NodeKept, NodeDecided, NodeSafe
<1>9. CASE wal'[n].term = current_term'[n] /\ wal'[n].commit = commit_index[n]
  BY <1>1, <1>3, <1>4, <1>6, <1>9 DEF NodeKept, NodeDecided, NodeSafe
<1> QED BY <1>8, <1>9 DEF NodeKept

\* What the requests say stays decided.
LEMMA RequestsAreDecided ==
  ASSUME TypeInv, TypeInv', NEW h \in [Nat -> Log], NEW a, NEW g, NEW b,
         Extends(h, a, g, b), Commits(h, a), Written(g)', RequestsTellCommits,
         NEW m \in Received("append_entries")'
  PROVE  Decided(g, b, m.leader_commit, g[m.term], m.term)
<1>1. /\ m.term \in Nat /\ m.leader_commit \in Nat
  BY ReceivedFields DEF TypeInv, TypeOK, Received, Message, InFlight
<1>2. g \in [Nat -> Log] /\ g[m.term] \in Log /\ h[m.term] \in Log
  BY <1>1 DEF Written
<1>3. CASE m \in Received("append_entries")
  <2>1. Decided(h, a, m.leader_commit, h[m.term], m.term)
    BY <1>3 DEF Commits
  <2>2. PrefixOf(h[m.term], g[m.term]) /\ Len(h[m.term]) \in Nat /\ Len(g[m.term]) \in Nat
    BY <1>1, <1>2, LenProperties DEF Extends, Log
  <2>3. m.leader_commit <= Len(h[m.term])
    BY <2>1 DEF Decided
  <2>4. /\ m.leader_commit <= Len(g[m.term])
        /\ \A j \in 1..m.leader_commit : g[m.term][j] = h[m.term][j]
    BY <1>1, <2>2, <2>3 DEF PrefixOf
  <2> DEFINE L == h[m.term]
             M == g[m.term]
  <2> HIDE DEF L, M
  <2>5. L \in Log /\ M \in Log /\ Decided(h, a, m.leader_commit, L, m.term)
    BY <1>2, <2>1 DEF L, M
  <2>6. m.leader_commit <= Len(M) /\ \A j \in 1..m.leader_commit : M[j] = L[j]
    BY <2>4 DEF L, M
  <2>7. m.term <= m.term
    BY <1>1
  <2>8. Decided(g, b, m.leader_commit, M, m.term)
    BY <1>1, <1>2, <2>5, <2>6, <2>7, DecidedGrows
  <2> QED BY <2>8 DEF M
<1>4. ASSUME NEW k \in Server, role'[k] = "leader", m.term = current_term'[k],
             m.leader_commit = commit_index[k], PrefixOf(log[k], log'[k]),
             current_term'[k] >= current_term[k]
      PROVE  Decided(g, b, m.leader_commit, g[m.term], m.term)
  <2>1. log'[k] = g[m.term]
    BY <1>4 DEF Written
  <2>2. Decided(h, a, commit_index[k], log[k], current_term[k])
    BY DEF Commits, NodeDecided
  <2>3. /\ log[k] \in Log /\ log'[k] \in Log /\ commit_index[k] \in Nat
        /\ current_term[k] \in Nat /\ current_term'[k] \in Nat
        /\ Len(log[k]) \in Nat /\ Len(log'[k]) \in Nat
    BY LenProperties DEF TypeInv, TypeOK, Log
  <2>4. /\ commit_index[k] <= Len(log'[k])
        /\ \A j \in 1..commit_index[k] : log'[k][j] = log[k][j]
    BY <1>4, <2>2, <2>3 DEF PrefixOf, Decided
  <2>5. Decided(g, b, commit_index[k], log'[k], current_term'[k])
    <3> DEFINE c == commit_index[k]
               L == log[k]
               M == log'[k]
               T == current_term[k]
               S == current_term'[k]
    <3>1. Decided(h, a, c, L, T) /\ T <= S
      BY <1>4, <2>2, <2>3
    <3>2. c \in Nat /\ L \in Log /\ M \in Log /\ T \in Nat /\ S \in Nat
      BY <2>3
    <3>3. c <= Len(M) /\ \A j \in 1..c : M[j] = L[j]
      BY <2>4
    <3> HIDE DEF c, L, M, T, S
    <3>4. Decided(g, b, c, M, S)
      BY <1>2, <3>1, <3>2, <3>3, DecidedGrows
    <3> QED BY <3>4 DEF c, M, S
  <2> QED BY <1>4, <2>1, <2>5
<1> QED BY <1>3, <1>4 DEF RequestsTellCommits

\* A merge, and what a crash leaves of it, keeps what the follower committed: the
\* leader that asks for it has that too.
LEMMA MergeKeepsDecided ==
  ASSUME ElectionInv, NEW h, NEW a, Story(h, a),
         NEW m \in Received("append_entries"), Accepts(m.dst, m),
         NEW k \in Nat, Decided(h, a, k, log[m.dst], current_term[m.dst]),
         NEW r \in Log,
         PrefixOf(r, AppendNewEntries(log[m.dst], m.prev_log_index, m.entries)),
         KeptLength(log[m.dst], m.prev_log_index, m.entries) <= Len(r)
  PROVE  /\ k <= Len(r) /\ k <= Len(log[m.dst])
         /\ \A j \in 1..k : r[j] = log[m.dst][j]
<1> DEFINE lg == log[m.dst]
           L == h[m.term]
           prev == m.prev_log_index
           batch == m.entries
<1>0. Written(h)
  BY DEF Story
<1>1. /\ m.dst \in Server /\ m.term \in Nat /\ prev \in Nat /\ batch \in Seq(Entry)
      /\ lg \in Log /\ L \in Log /\ SliceOf(m, L)
      /\ \E e \in elected : e.term = m.term
      /\ HasEntry(lg, prev, m.prev_log_term)
      /\ m.term >= current_term[m.dst]
  BY <1>0, AcceptedRequest
<1>2. current_term[m.dst] \in Nat /\ current_term[m.dst] <= m.term
  BY <1>1 DEF ElectionInv, TypeInv, TypeOK
<1>3. k <= Len(L) /\ \A j \in 1..k : lg[j] = L[j]
  <2> DEFINE T == current_term[m.dst]
             s == m.term
  <2>1. Decided(h, a, k, lg, T) /\ T \in Nat /\ s \in Nat /\ T <= s
        /\ lg \in Log /\ \E e \in elected : e.term = s
    BY <1>1, <1>2
  <2> HIDE DEF T, s, lg
  <2>2. k <= Len(h[s]) /\ \A j \in 1..k : lg[j] = h[s][j]
    BY <2>1, LeaderHasDecided
  <2> QED BY <2>2 DEF s
<1>4. k <= Len(lg)
  BY DEF Decided
<1>5. prev \in 0..Len(lg)
  BY <1>1 DEF HasEntry
<1> HIDE DEF lg, L
<1>6. k <= KeptLength(lg, prev, batch)
  BY <1>1, <1>3, <1>4, MergeKeeps
<1>7. PrefixOf(r, AppendNewEntries(lg, prev, batch)) /\ KeptLength(lg, prev, batch) <= Len(r)
  BY DEF lg
<1> HIDE DEF prev, batch
<1>8. k <= Len(r) /\ k <= Len(lg) /\ \A j \in 1..k : r[j] = lg[j]
  BY <1>1, <1>5, <1>6, <1>7, KeptStays
<1> QED BY <1>8 DEF lg

\* A step that changes one server.
LEMMA OneChanges ==
  ASSUME TypeInv, TypeInv', NEW h \in [Nat -> Log], NEW g \in [Nat -> Log], NEW a, NEW b,
         Extends(h, a, g, b), Commits(h, a), NEW n \in Server,
         NodeDecided(g, b, n)' /\ NodeSafe(n),
         \A k \in Server \ {n} :
            /\ log'[k] = log[k] /\ current_term'[k] = current_term[k]
            /\ commit_index'[k] = commit_index[k] /\ wal'[k] = wal[k]
  PROVE  CommitStep(g, b)
<1> SUFFICES ASSUME NEW k \in Server \ {n}
             PROVE  NodeDecided(g, b, k)' /\ NodeSafe(k)
  BY DEF CommitStep
<1>1. log[k] \in Log /\ current_term[k] \in Nat
  BY DEF TypeInv, TypeOK, Log
<1>2. NodeKept(k)
  BY <1>1, PrefixReflexive DEF NodeKept
<1> QED BY <1>2, KeptIsDecided DEF Commits

\* Every entry a merge takes over a leader's commit index is the leader's.
LEMMA MergeReaches ==
  ASSUME ElectionInv, NEW h, Written(h),
         NEW m \in Received("append_entries"), Accepts(m.dst, m),
         NEW k \in Nat, k <= m.prev_log_index + Len(m.entries),
         NEW lg, lg = AppendNewEntries(log[m.dst], m.prev_log_index, m.entries)
  PROVE  /\ k > 0 => k <= Len(lg)
         /\ \A j \in 1..k : lg[j] = h[m.term][j]
<1> DEFINE K == log[m.dst]
           L == h[m.term]
           end == m.prev_log_index + Len(m.entries)
<1>1. /\ m.prev_log_index \in Nat /\ m.entries \in Seq(Entry)
      /\ K \in Log /\ L \in Log /\ SliceOf(m, L)
      /\ HasEntry(K, m.prev_log_index, m.prev_log_term)
      /\ Traced(K, h) /\ Traced(L, h)
  BY AcceptedRequest
<1>2. end \in Nat /\ k <= end
  BY <1>1, LenProperties
<1> HIDE DEF end
<1>3. \A j \in 1..k : j \in 1..end
  BY <1>2
<1> HIDE DEF K, L
<1>4. \A j \in 1..end : j <= Len(lg) /\ lg[j] = L[j]
  BY <1>1, MergeCovers DEF end, K
<1>5. k > 0 => k \in 1..k
  OBVIOUS
<1> QED BY <1>3, <1>4, <1>5 DEF L

\* No request says more is committed than it brings.  The code does not see to
\* it: a request carries at most MAX_BATCH entries and the leader's whole commit
\* index, and handle_append_entries bounds that index by the follower's log and
\* not by what the request brought (rpc.py:139).
CommitWithinBatch ==
    \A m \in Received("append_entries") :
        m.leader_commit <= m.prev_log_index + Len(m.entries)

\* AcceptAppend commits what is decided.
LEMMA AcceptAppendCommits ==
  ASSUME LogInv, LogInv', NEW h, NEW a, Story(h, a), Commits(h, a), CommitWithinBatch,
         NEW g \in [Nat -> Log], NEW b, Extends(h, a, g, b),
         NEW m \in Received("append_entries"), AcceptAppend(m)
  PROVE  CommitStep(g, b) /\ RequestsTellCommits
<1> DEFINE n == m.dst
           prev == m.prev_log_index
           K == log[n]
           lg == AppendNewEntries(K, prev, m.entries)
           S == {AppendEntriesReply(n, m.src, m.term, TRUE, AckedIndex(m, lg))}
           c == commit_index[n]
           d == Min({m.leader_commit, Len(lg)})
           w == wal[n].commit
<1>0. /\ TypeOK /\ TypeOK' /\ TypeInv /\ TypeInv' /\ ElectionInv /\ Written(h)
      /\ h \in [Nat -> Log]
  BY DEF LogInv, ElectionInv, TypeInv, Story, Written
<1>1. /\ n \in Server /\ m.term \in Nat /\ m.leader_commit \in Nat
      /\ prev \in Nat /\ m.entries \in Seq(Entry)
  BY <1>0, ReceivedFields DEF Received, TypeOK
<1>2. /\ Accepts(n, m) /\ m.term >= current_term[n]
      /\ current_term' = [current_term EXCEPT ![n] = m.term]
      /\ log' = [log EXCEPT ![n] = lg]
      /\ commit_index' = [commit_index EXCEPT ![n] = CommitAfterAppend(n, m, lg)]
      /\ Persist(n) /\ Answer(m, S)
  BY DEF AcceptAppend, FollowLeader, Accepts
<1>3. /\ current_term[n] \in Nat /\ c \in Nat /\ w \in Nat
      /\ K \in Log
  BY <1>0, <1>1 DEF TypeOK, WalRecord, Log
<1>4. /\ log'[n] = lg /\ current_term'[n] = m.term
      /\ commit_index'[n] = CommitAfterAppend(n, m, lg)
      /\ wal'[n].term = current_term'[n] /\ wal'[n].commit = commit_index'[n]
      /\ \A k \in Server \ {n} :
            /\ log'[k] = log[k] /\ current_term'[k] = current_term[k]
            /\ commit_index'[k] = commit_index[k] /\ wal'[k] = wal[k]
  BY <1>0, <1>1, <1>2 DEF Persist, TypeOK
<1>5. lg \in Log /\ Len(lg) \in Nat /\ KeptLength(K, prev, m.entries) <= Len(lg)
  BY <1>0, <1>2, AcceptedMerge, LenProperties DEF Log
<1>6. RequestsTellCommits
  <2>1. \A x \in S : x.type # "append_entries"
    BY DEF AppendEntriesReply
  <2> HIDE DEF S
  <2>2. InFlight' \subseteq InFlight \cup S
    BY <1>0, <1>2, AnswerEffect DEF TypeOK
  <2> QED BY <2>1, <2>2 DEF RequestsTellCommits, Received
<1> HIDE DEF lg, K
<1>7. Decided(h, a, c, log[n], current_term[n]) /\ w <= c
  BY <1>1 DEF Commits, NodeDecided
<1>8. c <= Len(lg) /\ \A j \in 1..c : lg[j] = log[n][j]
  <2>1. PrefixOf(lg, AppendNewEntries(log[n], prev, m.entries))
    BY <1>5, PrefixReflexive DEF lg, K
  <2>2. KeptLength(log[n], prev, m.entries) <= Len(lg)
    BY <1>5 DEF K
  <2> QED BY <1>0, <1>2, <1>3, <1>5, <1>7, <2>1, <2>2, MergeKeepsDecided
<1>9. Decided(g, b, c, lg, m.term)
  <2> DEFINE L == log[n]
             T == current_term[n]
             s == m.term
  <2>1. Decided(h, a, c, L, T) /\ L \in Log /\ T \in Nat /\ s \in Nat /\ T <= s
    BY <1>1, <1>2, <1>3, <1>7 DEF K
  <2>2. c <= Len(lg) /\ \A j \in 1..c : lg[j] = L[j]
    BY <1>8
  <2> HIDE DEF c, L, T, s
  <2>3. c \in Nat
    BY <1>3 DEF c
  <2>4. Decided(g, b, c, lg, s)
    BY <1>0, <1>5, <2>1, <2>2, <2>3, DecidedGrows
  <2> QED BY <2>4 DEF s
<1>10. d = m.leader_commit /\ m.leader_commit <= Len(lg)
       /\ \A j \in 1..m.leader_commit : lg[j] = h[m.term][j]
  <2>1. m.leader_commit <= prev + Len(m.entries)
    BY DEF CommitWithinBatch
  <2>2. /\ m.leader_commit > 0 => m.leader_commit <= Len(lg)
        /\ \A j \in 1..m.leader_commit : lg[j] = h[m.term][j]
    BY <1>0, <1>1, <1>2, <2>1, MergeReaches DEF lg, K
  <2>3. m.leader_commit <= Len(lg)
    BY <1>1, <1>5, <2>2
  <2> QED BY <1>1, <1>5, <2>2, <2>3, MinOfTwo
<1>11. Decided(g, b, d, lg, m.term)
  <2> DEFINE l == m.leader_commit
             L == h[m.term]
             s == m.term
  <2>1. Decided(h, a, l, L, s) /\ L \in Log /\ s \in Nat /\ s <= s /\ l \in Nat
    BY <1>0, <1>1 DEF Commits
  <2>2. l <= Len(lg) /\ \A j \in 1..l : lg[j] = L[j]
    BY <1>10
  <2> HIDE DEF l, L, s
  <2>3. Decided(g, b, l, lg, s)
    BY <1>0, <1>5, <2>1, <2>2, DecidedGrows
  <2> QED BY <1>10, <2>3 DEF l, s
<1>12. /\ commit_index'[n] = c \/ commit_index'[n] = d
       /\ commit_index'[n] >= c /\ commit_index'[n] \in Nat
  <2>1. d \in Nat
    BY <1>1, <1>10
  <2> HIDE DEF c, d
  <2>2. c \in Nat
    BY <1>3 DEF c
  <2>3. commit_index'[n] = Max({c, d})
    BY <1>4 DEF CommitAfterAppend, c, d
  <2> QED BY <2>1, <2>2, <2>3, MaxOfTwo
<1>13. NodeDecided(g, b, n)'
  <2>1. Decided(g, b, commit_index'[n], log'[n], current_term'[n])
    BY <1>4, <1>9, <1>11, <1>12
  <2> QED BY <1>4, <1>12, <2>1 DEF NodeDecided
<1>14. NodeSafe(n)
  <2>1. wal'[n].commit >= w
    BY <1>3, <1>4, <1>7, <1>12
  <2> QED BY <1>4, <1>8, <2>1 DEF NodeSafe
<1>15. CommitStep(g, b)
  BY <1>0, <1>1, <1>4, <1>13, <1>14, OneChanges
<1> QED BY <1>6, <1>15

\* A server that comes back has committed what its WAL says.
LEMMA RecoveredCommits ==
  ASSUME TypeInv, TypeInv', NEW h \in [Nat -> Log], NEW a, Commits(h, a),
         NEW g \in [Nat -> Log], NEW b, Extends(h, a, g, b),
         NEW n \in Server, NEW lg \in Log, NEW record \in WalRecord,
         Recover(n, lg, record), record.term >= wal[n].term,
         record.commit = wal[n].commit, commit_index[n] <= Len(lg),
         \A j \in 1..commit_index[n] : lg[j] = log[n][j]
  PROVE  CommitStep(g, b)
<1> DEFINE c == commit_index[n]
           w == wal[n].commit
           L == log[n]
           T == wal[n].term
           s == record.term
<1>1. /\ log' = [log EXCEPT ![n] = lg] /\ wal' = [wal EXCEPT ![n] = record]
      /\ current_term' = [current_term EXCEPT ![n] = s]
      /\ commit_index' = [commit_index EXCEPT ![n] = Min({record.commit, Len(lg)})]
  BY DEF Recover
<1>2. /\ log'[n] = lg /\ wal'[n] = record /\ current_term'[n] = s
      /\ commit_index'[n] = Min({w, Len(lg)})
      /\ \A k \in Server \ {n} :
            /\ log'[k] = log[k] /\ current_term'[k] = current_term[k]
            /\ commit_index'[k] = commit_index[k] /\ wal'[k] = wal[k]
  BY <1>1 DEF TypeInv, TypeOK
<1>3. c \in Nat /\ w \in Nat /\ L \in Log /\ T \in Nat /\ s \in Nat /\ Len(lg) \in Nat
  BY LenProperties DEF TypeInv, TypeOK, WalRecord, Log
<1>4. Decided(h, a, w, L, T) /\ w <= c
  BY DEF Commits, NodeDecided
<1>5. w <= Len(lg) /\ \A j \in 1..w : lg[j] = L[j]
  BY <1>3, <1>4
<1>6. commit_index'[n] = w
  <2> HIDE DEF w
  <2> QED BY <1>2, <1>3, <1>5, MinOfTwo
<1>7. NodeSafe(n)
  BY <1>2, <1>3 DEF NodeSafe
<1>8. T <= s
  BY <1>3
<1> HIDE DEF c, w, L, T, s
<1>9. Decided(g, b, w, lg, s)
  BY <1>3, <1>4, <1>5, <1>8, DecidedGrows
<1>10. NodeDecided(g, b, n)'
  BY <1>2, <1>3, <1>6, <1>9 DEF NodeDecided, w, s
<1> QED BY <1>2, <1>7, <1>10, OneChanges

\* Restart recovers what is decided.
LEMMA RestartCommits ==
  ASSUME LogInv, LogInv', NEW h \in [Nat -> Log], NEW a, Commits(h, a),
         NEW g \in [Nat -> Log], NEW b, Extends(h, a, g, b),
         NEW n \in Server, Restart(n)
  PROVE  CommitStep(g, b) /\ RequestsTellCommits
<1>1. TypeInv /\ TypeInv' /\ TypeOK
  BY DEF LogInv, ElectionInv, TypeInv
<1>2. Recover(n, log[n], wal[n]) /\ UNCHANGED network
  BY DEF Restart
<1>3. log[n] \in Log /\ wal[n] \in WalRecord /\ wal[n].term \in Nat
  BY <1>1 DEF TypeOK, WalRecord, Log
<1>4. commit_index[n] <= Len(log[n])
  BY DEF Commits, NodeDecided, Decided
<1>5. CommitStep(g, b)
  BY <1>1, <1>2, <1>3, <1>4, RecoveredCommits
<1>6. RequestsTellCommits
  BY <1>2 DEF RequestsTellCommits, Received, InFlight
<1> QED BY <1>5, <1>6

\* A crash in the middle of a merge leaves what is decided.
LEMMA TornAppendCommits ==
  ASSUME LogInv, LogInv', NEW h, NEW a, Story(h, a), Commits(h, a),
         NEW g \in [Nat -> Log], NEW b, Extends(h, a, g, b),
         NEW m \in Received("append_entries"), TornAppend(m)
  PROVE  CommitStep(g, b) /\ RequestsTellCommits
<1> DEFINE n == m.dst
           lg == AppendNewEntries(log[n], m.prev_log_index, m.entries)
           kept == KeptLength(log[n], m.prev_log_index, m.entries)
<1>0. /\ TypeOK /\ TypeInv /\ TypeInv' /\ ElectionInv /\ h \in [Nat -> Log]
  BY DEF LogInv, ElectionInv, TypeInv, Story, Written
<1>1. n \in Server
  BY <1>0, ReceivedFields DEF Received, TypeOK
<1>2. Accepts(n, m) /\ Discard(m)
  BY DEF TornAppend
<1>3. PICK written \in kept..Len(lg) :
         Recover(n, SubSeq(lg, 1, written),
                 IF written > kept THEN Journalled(n, SubSeq(lg, 1, written))
                                   ELSE wal[n])
  BY DEF TornAppend
<1>4. lg \in Log /\ kept \in Nat /\ kept <= Len(lg) /\ Len(lg) \in Nat
  BY <1>0, <1>2, AcceptedMerge, LenProperties DEF Log
<1> DEFINE torn == SubSeq(lg, 1, written)
           record == IF written > kept THEN Journalled(n, torn) ELSE wal[n]
<1>5. written \in 0..Len(lg) /\ written \in Nat /\ written <= Len(lg) /\ kept <= written
  BY <1>4
<1> HIDE DEF lg, kept
<1>6. torn \in Log /\ PrefixOf(torn, lg) /\ Len(torn) = written
  BY <1>4, <1>5, PrefixCut, PrefixType
<1> HIDE DEF torn
<1>7. wal[n] \in WalRecord /\ wal[n].term \in Nat
  BY <1>0, <1>1 DEF TypeOK, WalRecord
<1>8. /\ Journalled(n, torn) \in WalRecord
      /\ Journalled(n, torn).term >= wal[n].term
  BY <1>0, <1>1, <1>6, JournalledType
<1>9. Journalled(n, torn).commit = wal[n].commit
  BY <1>7 DEF Journalled, WalRecord
<1>10. /\ record \in WalRecord /\ record.term >= wal[n].term
       /\ record.commit = wal[n].commit /\ Recover(n, torn, record)
  <2>1. CASE written > kept
    BY <1>3, <1>8, <1>9, <2>1 DEF torn
  <2>2. CASE ~ (written > kept)
    BY <1>3, <1>7, <2>2 DEF torn
  <2> QED BY <2>1, <2>2
<1> HIDE DEF record
<1>11. /\ commit_index[n] \in Nat
       /\ Decided(h, a, commit_index[n], log[n], current_term[n])
  BY <1>0, <1>1 DEF TypeOK, Commits, NodeDecided
<1>12. /\ commit_index[n] <= Len(torn)
       /\ \A j \in 1..commit_index[n] : torn[j] = log[n][j]
  <2>1. /\ PrefixOf(torn, AppendNewEntries(log[n], m.prev_log_index, m.entries))
        /\ KeptLength(log[n], m.prev_log_index, m.entries) <= Len(torn)
    BY <1>5, <1>6 DEF lg, kept
  <2> QED BY <1>0, <1>2, <1>6, <1>11, <2>1, MergeKeepsDecided
<1>13. CommitStep(g, b)
  BY <1>0, <1>1, <1>6, <1>10, <1>12, RecoveredCommits
<1>14. RequestsTellCommits
  <2>1. InFlight' \subseteq InFlight
    BY <1>0, <1>2, DiscardEffect DEF TypeOK
  <2> QED BY <2>1 DEF RequestsTellCommits, Received
<1> QED BY <1>13, <1>14

\* What a leader sends tells its commit index.
LEMMA LeaderTells ==
  ASSUME TypeOK, NEW n \in Server, role'[n] = "leader",
         current_term'[n] = current_term[n], PrefixOf(log[n], log'[n]),
         NEW S, InFlight' \subseteq InFlight \cup S,
         \A x \in S : /\ x.term = current_term[n] /\ x.leader_commit = commit_index[n]
                      /\ Brings(x, log'[n])
  PROVE  RequestsTellCommits
<1>1. current_term'[n] >= current_term[n]
  BY DEF TypeOK
<1> SUFFICES ASSUME NEW m \in Received("append_entries")',
                    m \notin Received("append_entries")
             PROVE  /\ m.term = current_term'[n] /\ m.leader_commit = commit_index[n]
                    /\ Brings(m, log'[n])
  BY <1>1 DEF RequestsTellCommits
<1>2. m \in S
  BY DEF Received
<1> QED BY <1>2

\* A request brings what it can of the log it is built from.
LEMMA BuiltBrings ==
  ASSUME NEW n, NEW p, NEW term, NEW lg \in Log, NEW next \in Nat \ {0}, NEW commit,
         NEW x, x = BuildAppendEntries(n, p, term, lg, next, commit)
  PROVE  x.term = term /\ x.leader_commit = commit /\ Brings(x, lg)
<1> DEFINE c == Max({next - 1, 0})
           k == Min({c, Len(lg)})
           end == Min({Len(lg), k + MaxBatch})
<1>1. MaxBatch \in Nat /\ MaxBatch > 0 /\ Len(lg) \in Nat /\ lg \in Seq(Entry)
  BY BatchAssumption, LenProperties DEF Log
<1>2. k \in Nat /\ k <= Len(lg)
  <2>1. c \in Nat
    BY MaxOfTwo
  <2> HIDE DEF c
  <2> QED BY <1>1, <2>1, MinOfTwo
<1>3. /\ end \in Nat /\ k <= end /\ end <= Len(lg)
      /\ end = Len(lg) \/ end = k + MaxBatch
  <2> HIDE DEF k
  <2> QED BY <1>1, <1>2, MinOfTwo
<1>4. /\ x.term = term /\ x.leader_commit = commit
      /\ x.prev_log_index = k /\ x.entries = SubSeq(lg, k + 1, end)
  BY DEF BuildAppendEntries, Batch
<1> HIDE DEF k, end
<1>5. Len(x.entries) = end - k
  BY <1>1, <1>2, <1>3, <1>4, SubSeqProperties
<1> QED BY <1>1, <1>2, <1>3, <1>4, <1>5 DEF Brings

\* Requests built by Replicate do.
LEMMA ReplicateTells ==
  ASSUME TypeInv', NEW n \in Server, role'[n] = "leader", NEW Q \in SUBSET Server,
         current_term'[n] = current_term[n],
         NEW x \in {Replicate(n, p) : p \in Q}
  PROVE  /\ x.term = current_term[n] /\ x.leader_commit = commit_index[n]
         /\ Brings(x, log'[n])
<1>1. PICK p \in Q : x = Replicate(n, p)
  OBVIOUS
<1>2. log'[n] \in Log /\ next_index'[n][p] \in Nat \ {0}
  BY <1>1 DEF TypeInv, TypeOK, NextIndexPositive, Log
<1> DEFINE lg == log'[n]
           next == next_index'[n][p]
<1>3. x = BuildAppendEntries(n, p, current_term[n], lg, next, commit_index[n])
  BY <1>1 DEF Replicate
<1>4. lg \in Log /\ next \in Nat \ {0}
  BY <1>2
<1> HIDE DEF lg, next
<1> QED BY <1>3, <1>4, BuiltBrings DEF lg

\* Nothing is requested that was not.
LEMMA NobodyTells ==
  ASSUME NEW S, InFlight' \subseteq InFlight \cup S,
         \A x \in S : x.type # "append_entries"
  PROVE  RequestsTellCommits
BY DEF RequestsTellCommits, Received

\* A step that leaves every server its log and its commit index.
LEMMA AllKept ==
  ASSUME TypeInv, TypeInv', NEW h \in [Nat -> Log], NEW a, Commits(h, a),
         NEW g \in [Nat -> Log], NEW b, Extends(h, a, g, b),
         \A n \in Server : NodeKept(n)
  PROVE  CommitStep(g, b)
BY KeptIsDecided DEF CommitStep, Commits

\* AppendAcknowledged commits what is decided: what it counts is chosen.
LEMMA AppendAcknowledgedCommits ==
  ASSUME LogInv, LogInv', CandidaciesKnown, TermsRise, NEW h, NEW a, Story(h, a),
         Commits(h, a), NEW g \in [Nat -> Log], NEW b, Extends(h, a, g, b),
         NEW m \in Received("append_entries_reply"), AppendAcknowledged(m)
  PROVE  CommitStep(g, b) /\ RequestsTellCommits
<1> DEFINE n == m.dst
           L == log[n]
           T == current_term[n]
           c == commit_index[n]
           k == commit_index'[n]
           behind == NextAfterSuccess(n, m)[m.src] <= Len(log[n])
           Q == {q \in {m.src} : behind}
           S == {Replicate(n, p) : p \in Q}
<1>0. /\ TypeOK /\ TypeOK' /\ TypeInv /\ TypeInv' /\ ElectionInv /\ h \in [Nat -> Log]
  BY DEF LogInv, ElectionInv, TypeInv, Story, Written
<1>1. n \in Server
  BY <1>0, ReceivedFields DEF Received, TypeOK
<1>2. /\ role[n] = "leader" /\ UNCHANGED <<current_term, log, role>>
      /\ commit_index' = [commit_index EXCEPT ![n] = AdvanceCommitIndex(n, MatchAfter(n, m))]
      /\ Answer(m, S)
      /\ \/ Persist(n)
         \/ wal' = [wal EXCEPT ![n] = [term |-> current_term[n],
                                       voted_for |-> voted_for[n],
                                       commit |-> commit_index[n]]]
         \/ UNCHANGED wal
  BY DEF AppendAcknowledged
<1> HIDE DEF S, Q, behind
<1>3. /\ log'[n] = L /\ current_term'[n] = T
      /\ \A j \in Server \ {n} :
            /\ log'[j] = log[j] /\ current_term'[j] = current_term[j]
            /\ commit_index'[j] = commit_index[j] /\ wal'[j] = wal[j]
      /\ \/ wal'[n].term = T /\ wal'[n].commit = k
         \/ wal'[n].term = T /\ wal'[n].commit = c
         \/ wal'[n] = wal[n]
  <2>1. /\ log'[n] = L /\ current_term'[n] = T
        /\ \A j \in Server \ {n} :
              /\ log'[j] = log[j] /\ current_term'[j] = current_term[j]
              /\ commit_index'[j] = commit_index[j]
    BY <1>0, <1>2 DEF TypeOK
  <2>2. wal \in [Server -> WalRecord]
    BY <1>0 DEF TypeOK
  <2>3. CASE Persist(n)
    <3>1. wal'[n].term = T /\ wal'[n].commit = k
      BY <1>1, <2>1, <2>2, <2>3 DEF Persist
    <3>2. \A j \in Server \ {n} : wal'[j] = wal[j]
      BY <2>2, <2>3 DEF Persist
    <3> QED BY <2>1, <3>1, <3>2
  <2>4. CASE wal' = [wal EXCEPT ![n] = [term |-> T, voted_for |-> voted_for[n],
                                        commit |-> c]]
    <3>1. wal'[n].term = T /\ wal'[n].commit = c
      BY <1>1, <2>2, <2>4
    <3>2. \A j \in Server \ {n} : wal'[j] = wal[j]
      BY <2>2, <2>4
    <3> QED BY <2>1, <3>1, <3>2
  <2> QED BY <1>2, <2>1, <2>3, <2>4
<1>4. /\ L \in Log /\ Len(L) \in Nat /\ T \in Nat /\ c \in Nat /\ k \in Nat
      /\ wal[n].term \in Nat /\ wal[n].commit \in Nat
  BY <1>0, <1>1, LenProperties DEF TypeOK, WalRecord, Log
<1>5. RequestsTellCommits
  <2>1. InFlight' \subseteq InFlight \cup S
    BY <1>0, <1>2, AnswerEffect DEF TypeOK
  <2>2. Q \in SUBSET Server
    BY <1>0, ReceivedFields DEF Received, TypeOK, Q
  <2>3. role'[n] = "leader" /\ PrefixOf(log[n], log'[n])
    BY <1>2, <1>3, <1>4, PrefixReflexive
  <2>4. \A x \in S : x.term = T /\ x.leader_commit = c /\ Brings(x, log'[n])
    BY <1>0, <1>1, <1>3, <2>2, <2>3, ReplicateTells DEF S
  <2> QED BY <1>0, <1>1, <1>3, <2>1, <2>3, <2>4, LeaderTells
<1>6. /\ Decided(h, a, c, L, T) /\ Decided(h, a, wal[n].commit, L, wal[n].term)
      /\ wal[n].commit <= c
  BY <1>1 DEF Commits, NodeDecided
<1>7. Decided(h, a, k, L, T) /\ k >= c
  <2>1. CASE k = c
    BY <1>4, <1>6, <2>1
  <2>2. CASE k # c
    <3>1. /\ k \in 1..Len(L) /\ k > c /\ h[T] = L /\ Chosen(h, a, T, k)
      BY <2>2, CountedIsChosen
    <3>2. T <= T /\ k <= k /\ k >= c
      BY <1>4, <3>1
    <3>3. \E t, i \in Nat : /\ t <= T /\ k <= i /\ Chosen(h, a, t, i)
                            /\ \A j \in 1..k : L[j] = h[t][j]
      BY <1>4, <3>1, <3>2
    <3> QED BY <1>4, <3>1, <3>2, <3>3 DEF Decided
  <2> QED BY <2>1, <2>2
<1>8. /\ Decided(g, b, k, L, T) /\ Decided(g, b, c, L, T)
      /\ Decided(g, b, wal[n].commit, L, wal[n].term)
  <2>1. ASSUME NEW x \in Nat, NEW t \in Nat, Decided(h, a, x, L, t)
        PROVE  Decided(g, b, x, L, t)
    <3>1. t <= t /\ x <= Len(L)
      BY <2>1 DEF Decided
    <3> HIDE DEF L
    <3> QED BY <1>0, <1>4, <2>1, <3>1, DecidedGrows
  <2> QED BY <1>4, <1>6, <1>7, <2>1
<1>9. c <= Len(L)
  BY <1>6 DEF Decided
<1>10. wal'[n].commit >= wal[n].commit /\ wal'[n].commit <= k
       /\ Decided(g, b, wal'[n].commit, L, wal'[n].term)
  BY <1>3, <1>4, <1>6, <1>7, <1>8
<1>11. NodeDecided(g, b, n)' /\ NodeSafe(n)
  BY <1>3, <1>8, <1>9, <1>10 DEF NodeDecided, NodeSafe
<1>12. CommitStep(g, b)
  BY <1>0, <1>1, <1>3, <1>11, OneChanges
<1> QED BY <1>5, <1>12

\* The steps of one server that writes its scalars and sends.
LEMMA PersistedKept ==
  ASSUME TypeInv, TypeInv', NEW n \in Server, Persist(n), commit_index' = commit_index,
         PrefixOf(log[n], log'[n]), current_term'[n] >= current_term[n],
         \A k \in Server \ {n} : log'[k] = log[k] /\ current_term'[k] = current_term[k]
  PROVE  \A k \in Server : NodeKept(k)
<1>1. wal \in [Server -> WalRecord]
  BY DEF TypeInv, TypeOK
<1>2. /\ wal'[n].term = current_term'[n] /\ wal'[n].commit = commit_index[n]
      /\ \A k \in Server \ {n} : wal'[k] = wal[k]
  BY <1>1 DEF Persist
<1>3. NodeKept(n)
  BY <1>2 DEF NodeKept
<1>4. ASSUME NEW k \in Server \ {n} PROVE NodeKept(k)
  <2>1. log[k] \in Log /\ current_term[k] \in Nat
    BY DEF TypeInv, TypeOK, Log
  <2> QED BY <1>2, <2>1, PrefixReflexive DEF NodeKept
<1> QED BY <1>3, <1>4

\* The steps of one server that writes nothing.
LEMMA UnwrittenKept ==
  ASSUME TypeInv, UNCHANGED <<wal, log, commit_index>>,
         \A k \in Server : current_term'[k] >= current_term[k]
  PROVE  \A k \in Server : NodeKept(k)
<1> SUFFICES ASSUME NEW k \in Server PROVE NodeKept(k)
  OBVIOUS
<1>1. log[k] \in Log
  BY DEF TypeInv, TypeOK, Log
<1> QED BY <1>1, PrefixReflexive DEF NodeKept

\* StartElection commits nothing and tells nothing.
LEMMA StartElectionKept ==
  ASSUME TypeInv, TypeInv', NEW n \in Server, StartElection(n)
  PROVE  (\A k \in Server : NodeKept(k)) /\ RequestsTellCommits
<1> DEFINE S == {RequestVote(n, p, current_term[n] + 1, Len(log[n]), LastTerm(log[n]))
                   : p \in Peers(n)}
<1>1. /\ Send(S) /\ Persist(n) /\ UNCHANGED <<log, commit_index>>
      /\ current_term' = [current_term EXCEPT ![n] = @ + 1]
  BY DEF StartElection
<1>2. \A x \in S : x.type # "append_entries"
  BY DEF RequestVote
<1> HIDE DEF S
<1>3. RequestsTellCommits
  BY <1>1, <1>2, SendEffect, NobodyTells DEF TypeInv, TypeOK
<1>4. /\ log[n] \in Log /\ current_term'[n] >= current_term[n]
      /\ \A k \in Server \ {n} : current_term'[k] = current_term[k]
  BY <1>1 DEF TypeInv, TypeOK, Log
<1> QED BY <1>1, <1>3, <1>4, PersistedKept, PrefixReflexive

\* A server that answers a request for its vote, or refuses one for entries,
\* commits nothing.
LEMMA AnsweredKept ==
  ASSUME TypeInv, TypeInv', NEW n \in Server, NEW m, NEW x,
         x.type # "append_entries", Answer(m, {x}), Persist(n),
         UNCHANGED <<log, commit_index>>,
         NEW t \in Nat, t >= current_term[n],
         current_term' = [current_term EXCEPT ![n] = t]
  PROVE  (\A k \in Server : NodeKept(k)) /\ RequestsTellCommits
<1>1. InFlight' \subseteq InFlight \cup {x}
  BY AnswerEffect DEF TypeInv, TypeOK
<1>2. RequestsTellCommits
  BY <1>1, NobodyTells
<1>3. /\ log[n] \in Log /\ current_term'[n] >= current_term[n]
      /\ \A k \in Server \ {n} : current_term'[k] = current_term[k]
  BY DEF TypeInv, TypeOK, Log
<1> QED BY <1>2, <1>3, PersistedKept, PrefixReflexive

\* HandleRequestVote commits nothing and tells nothing.
LEMMA HandleRequestVoteKept ==
  ASSUME TypeInv, TypeInv', NEW m \in Received("request_vote"), HandleRequestVote(m)
  PROVE  (\A k \in Server : NodeKept(k)) /\ RequestsTellCommits
<1> DEFINE n == m.dst
           t == IF m.term > current_term[n] THEN m.term ELSE current_term[n]
           x == RequestVoteReply(n, m.src, current_term'[n], GrantsVote(n, m))
<1>1. n \in Server /\ m.term \in Nat /\ current_term[n] \in Nat
  BY ReceivedFields DEF Received, TypeInv, TypeOK
<1>2. Answer(m, {x}) /\ Persist(n) /\ UNCHANGED <<log, commit_index>>
  BY DEF HandleRequestVote
<1>3. current_term' = [current_term EXCEPT ![n] = t]
  BY <1>1 DEF HandleRequestVote, TypeInv, TypeOK
<1>4. t \in Nat /\ t >= current_term[n]
  BY <1>1
<1>5. x.type # "append_entries"
  BY DEF RequestVoteReply
<1> HIDE DEF t, x
<1> QED BY <1>1, <1>2, <1>3, <1>4, <1>5, AnsweredKept

\* RejectStaleAppend commits nothing and tells nothing.
LEMMA RejectStaleAppendKept ==
  ASSUME TypeInv, TypeInv', NEW m \in Received("append_entries"), RejectStaleAppend(m)
  PROVE  (\A k \in Server : NodeKept(k)) /\ RequestsTellCommits
<1> DEFINE n == m.dst
           t == current_term[n]
           x == AppendEntriesReply(n, m.src, current_term[n], FALSE, 0)
<1>1. n \in Server /\ t \in Nat /\ t >= current_term[n]
  BY ReceivedFields DEF Received, TypeInv, TypeOK
<1>2. /\ Answer(m, {x}) /\ Persist(n) /\ UNCHANGED <<log, commit_index, current_term>>
  BY DEF RejectStaleAppend, stateVars
<1>3. current_term' = [current_term EXCEPT ![n] = t]
  BY <1>2 DEF TypeInv, TypeOK
<1>4. x.type # "append_entries"
  BY DEF AppendEntriesReply
<1> HIDE DEF x
<1> QED BY <1>1, <1>2, <1>3, <1>4, AnsweredKept

\* RejectMismatch commits nothing and tells nothing.
LEMMA RejectMismatchKept ==
  ASSUME TypeInv, TypeInv', NEW m \in Received("append_entries"), RejectMismatch(m)
  PROVE  (\A k \in Server : NodeKept(k)) /\ RequestsTellCommits
<1> DEFINE n == m.dst
           x == AppendEntriesReply(n, m.src, m.term, FALSE, 0)
<1>1. n \in Server /\ m.term \in Nat
  BY ReceivedFields DEF Received, TypeInv, TypeOK
<1>2. /\ Answer(m, {x}) /\ Persist(n) /\ UNCHANGED <<log, commit_index>>
      /\ m.term >= current_term[n]
      /\ current_term' = [current_term EXCEPT ![n] = m.term]
  BY DEF RejectMismatch, FollowLeader
<1>3. x.type # "append_entries"
  BY DEF AppendEntriesReply
<1> HIDE DEF x
<1> QED BY <1>1, <1>2, <1>3, AnsweredKept

\* A message that is received and changes no log, no commit index and no WAL.
LEMMA DiscardedKept ==
  ASSUME TypeInv, NEW m, Discard(m), UNCHANGED <<wal, log, commit_index>>,
         \A k \in Server : current_term'[k] >= current_term[k]
  PROVE  (\A k \in Server : NodeKept(k)) /\ RequestsTellCommits
<1>1. InFlight' \subseteq InFlight
  BY DiscardEffect DEF TypeInv, TypeOK
<1>2. RequestsTellCommits
  BY <1>1 DEF RequestsTellCommits, Received
<1> QED BY <1>2, UnwrittenKept

\* The same, the term unchanged.
LEMMA DiscardOnlyKept ==
  ASSUME TypeInv, NEW m, Discard(m),
         UNCHANGED <<wal, log, commit_index, current_term>>
  PROVE  (\A k \in Server : NodeKept(k)) /\ RequestsTellCommits
<1>1. \A k \in Server : current_term'[k] >= current_term[k]
  BY DEF TypeInv, TypeOK
<1> QED BY <1>1, DiscardedKept

\* StepDownOnReply commits nothing and tells nothing.
LEMMA StepDownOnReplyKept ==
  ASSUME TypeInv, NEW m \in InFlight, StepDownOnReply(m)
  PROVE  (\A k \in Server : NodeKept(k)) /\ RequestsTellCommits
<1>1. m.dst \in Server /\ m.term \in Nat
  BY ReceivedFields DEF TypeInv, TypeOK
<1>2. /\ Discard(m) /\ UNCHANGED <<wal, log, commit_index>>
      /\ m.term > current_term[m.dst]
      /\ current_term' = [current_term EXCEPT ![m.dst] = m.term]
  BY DEF StepDownOnReply
<1>3. \A k \in Server : current_term'[k] >= current_term[k]
  BY <1>1, <1>2 DEF TypeInv, TypeOK
<1> QED BY <1>2, <1>3, DiscardedKept

\* WinElection commits nothing and tells its commit index.
LEMMA WinElectionKept ==
  ASSUME TypeInv, TypeInv', NEW m \in Received("request_vote_reply"), WinElection(m)
  PROVE  (\A k \in Server : NodeKept(k)) /\ RequestsTellCommits
<1> DEFINE n == m.dst
           T == current_term[n]
           e == [term |-> T, command |-> NoOp]
           lg == Append(log[n], e)
           next == Len(log[n]) + 1
           S == {BuildAppendEntries(n, p, T, lg, next, commit_index[n]) : p \in Peers(n)}
<1>0. TypeOK /\ TypeOK'
  BY DEF TypeInv
<1>1. n \in Server
  BY <1>0, ReceivedFields DEF Received, TypeOK
<1>2. /\ m.term = T /\ log' = [log EXCEPT ![n] = lg]
      /\ role' = [role EXCEPT ![n] = "leader"] /\ Answer(m, S)
      /\ UNCHANGED <<current_term, commit_index>> /\ Persist(n)
  BY DEF WinElection
<1>3. T \in Nat \ {0} /\ log[n] \in Log
  <2>1. role[n] # "follower"
    BY DEF WinElection
  <2>2. T \in Nat /\ T > 0
    BY <1>0, <1>1, <2>1 DEF TypeInv, TermPositive, TypeOK
  <2> QED BY <1>0, <1>1, <2>2 DEF TypeOK, Log
<1>4. e \in Entry
  BY <1>3 DEF Entry
<1>5. /\ log'[n] = lg /\ role'[n] = "leader"
      /\ \A k \in Server \ {n} : log'[k] = log[k]
  BY <1>0, <1>1, <1>2 DEF TypeOK
<1>6. PrefixOf(log[n], log'[n])
  <2> HIDE DEF e
  <2> QED BY <1>3, <1>4, <1>5, AppendEffect
<1>7. \A x \in S : /\ x.term = T /\ x.leader_commit = commit_index[n]
                   /\ Brings(x, log'[n])
  <2> SUFFICES ASSUME NEW p \in Peers(n), NEW x,
                      x = BuildAppendEntries(n, p, T, lg, next, commit_index[n])
               PROVE  /\ x.term = T /\ x.leader_commit = commit_index[n]
                      /\ Brings(x, log'[n])
    OBVIOUS
  <2>1. log'[n] \in Log
    BY <1>0, <1>1 DEF TypeOK, Log
  <2>2. next \in Nat \ {0}
    BY <1>3, LenProperties DEF Log
  <2> HIDE DEF next, lg
  <2> QED BY <1>5, <2>1, <2>2, BuiltBrings
<1> HIDE DEF S, lg, e, next
<1>8. InFlight' \subseteq InFlight \cup S
  BY <1>0, <1>2, AnswerEffect DEF TypeOK
<1>9. RequestsTellCommits
  BY <1>0, <1>1, <1>2, <1>5, <1>6, <1>7, <1>8, LeaderTells
<1>10. /\ current_term'[n] >= current_term[n]
       /\ \A k \in Server \ {n} : log'[k] = log[k] /\ current_term'[k] = current_term[k]
  BY <1>2, <1>3, <1>5
<1> QED BY <1>1, <1>2, <1>6, <1>9, <1>10, PersistedKept

\* What a leader does that sends requests, writes its scalars and appends at most
\* to its own log.
LEMMA LeaderKept ==
  ASSUME TypeInv, TypeInv', NEW n \in Server, role'[n] = "leader", Persist(n),
         UNCHANGED <<current_term, commit_index>>, PrefixOf(log[n], log'[n]),
         \A k \in Server \ {n} : log'[k] = log[k],
         NEW Q \in SUBSET Server,
         InFlight' \subseteq InFlight \cup {Replicate(n, p) : p \in Q}
  PROVE  (\A k \in Server : NodeKept(k)) /\ RequestsTellCommits
<1> DEFINE S == {Replicate(n, p) : p \in Q}
<1>1. \A x \in S : /\ x.term = current_term[n] /\ x.leader_commit = commit_index[n]
                   /\ Brings(x, log'[n])
  BY ReplicateTells
<1>2. InFlight' \subseteq InFlight \cup S
  OBVIOUS
<1> HIDE DEF S
<1>3. RequestsTellCommits
  BY <1>1, <1>2, LeaderTells DEF TypeInv
<1>4. current_term'[n] >= current_term[n]
  BY DEF TypeInv, TypeOK
<1> QED BY <1>3, <1>4, PersistedKept

\* ClientSubmit commits nothing and tells its commit index.
LEMMA ClientSubmitKept ==
  ASSUME TypeInv, TypeInv', NEW n \in Server, NEW c \in Command, ClientSubmit(n, c)
  PROVE  (\A k \in Server : NodeKept(k)) /\ RequestsTellCommits
<1> DEFINE e == [term |-> current_term[n], command |-> c]
<1>1. /\ role[n] = "leader" /\ Persist(n) /\ UNCHANGED <<current_term, commit_index, role>>
      /\ log' = [log EXCEPT ![n] = Append(@, e)]
  BY DEF ClientSubmit, roleVars
<1>2. PICK free \in SUBSET Peers(n) : Send({Replicate(n, p) : p \in free})
  BY DEF ClientSubmit
<1>3. InFlight' \subseteq InFlight \cup {Replicate(n, p) : p \in free}
  BY <1>2, SendEffect DEF TypeInv, TypeOK
<1>4. /\ log[n] \in Log /\ e \in Entry
      /\ log'[n] = Append(log[n], e) /\ \A k \in Server \ {n} : log'[k] = log[k]
  <2>1. role[n] # "follower"
    BY <1>1
  <2>2. current_term[n] \in Nat /\ current_term[n] > 0
    BY <2>1 DEF TypeInv, TypeOK, TermPositive
  <2> QED BY <1>1, <2>2 DEF TypeInv, TypeOK, Log, Entry
<1> HIDE DEF e
<1>5. PrefixOf(log[n], log'[n])
  BY <1>4, AppendEffect
<1>6. role'[n] = "leader"
  BY <1>1
<1>7. free \in SUBSET Server
  BY DEF Peers
<1> QED BY <1>1, <1>3, <1>4, <1>5, <1>6, <1>7, LeaderKept

\* BroadcastHeartbeat commits nothing and tells its commit index.
LEMMA BroadcastHeartbeatKept ==
  ASSUME TypeInv, TypeInv', NEW n \in Server, BroadcastHeartbeat(n)
  PROVE  (\A k \in Server : NodeKept(k)) /\ RequestsTellCommits
<1>1. /\ role[n] = "leader" /\ Persist(n)
      /\ UNCHANGED <<current_term, commit_index, role, log>>
  BY DEF BroadcastHeartbeat, stateVars, roleVars
<1>2. PICK free \in SUBSET Peers(n) : Send({Replicate(n, p) : p \in free})
  BY DEF BroadcastHeartbeat
<1>3. InFlight' \subseteq InFlight \cup {Replicate(n, p) : p \in free}
  BY <1>2, SendEffect DEF TypeInv, TypeOK
<1>4. log[n] \in Log
  BY DEF TypeInv, TypeOK, Log
<1>5. PrefixOf(log[n], log'[n]) /\ role'[n] = "leader"
  BY <1>1, <1>4, PrefixReflexive
<1>6. free \in SUBSET Server
  BY DEF Peers
<1> QED BY <1>1, <1>3, <1>5, <1>6, LeaderKept

\* AppendRefused commits nothing and tells its commit index.
LEMMA AppendRefusedKept ==
  ASSUME TypeInv, TypeInv', NEW m \in Received("append_entries_reply"), AppendRefused(m)
  PROVE  (\A k \in Server : NodeKept(k)) /\ RequestsTellCommits
<1> DEFINE n == m.dst
           Q == {m.src}
<1>1. n \in Server /\ Q \in SUBSET Server
  BY ReceivedFields DEF Received, TypeInv, TypeOK
<1>2. /\ role[n] = "leader" /\ Persist(n) /\ Answer(m, {Replicate(n, m.src)})
      /\ UNCHANGED <<current_term, commit_index, role, log>>
  BY DEF AppendRefused, stateVars
<1>3. InFlight' \subseteq InFlight \cup {Replicate(n, p) : p \in Q}
  BY <1>2, AnswerEffect DEF TypeInv, TypeOK
<1> HIDE DEF Q
<1>4. log[n] \in Log
  BY <1>1 DEF TypeInv, TypeOK, Log
<1>5. PrefixOf(log[n], log'[n]) /\ role'[n] = "leader"
  BY <1>2, <1>4, PrefixReflexive
<1> QED BY <1>1, <1>2, <1>3, <1>5, LeaderKept

\* AnswerClient commits nothing and tells nothing.
LEMMA AnswerClientKept ==
  ASSUME TypeInv, TypeInv', NEW n \in Server, AnswerClient(n)
  PROVE  (\A k \in Server : NodeKept(k)) /\ RequestsTellCommits
<1>1. Persist(n) /\ UNCHANGED <<current_term, commit_index, log, network>>
  BY DEF AnswerClient, stateVars
<1>2. RequestsTellCommits
  BY <1>1 DEF RequestsTellCommits, Received, InFlight
<1>3. /\ log[n] \in Log /\ current_term'[n] >= current_term[n]
      /\ \A k \in Server \ {n} : current_term'[k] = current_term[k]
  BY <1>1 DEF TypeInv, TypeOK, Log
<1> QED BY <1>1, <1>2, <1>3, PersistedKept, PrefixReflexive

\* Every step commits what is decided and takes back nothing of it.
LEMMA NextCommits ==
  ASSUME LogInv, LogInv', CandidaciesKnown, NEW h, NEW a, Story(h, a), Commits(h, a),
         CommitWithinBatch, NEW g \in [Nat -> Log], NEW b, Extends(h, a, g, b), [Next]_vars
  PROVE  CommitStep(g, b) /\ RequestsTellCommits
<1>0. /\ TypeInv /\ TypeInv' /\ TermsRise /\ h \in [Nat -> Log]
  BY NextRises DEF LogInv, ElectionInv, Story, Written
<1>1. ASSUME \A k \in Server : NodeKept(k) PROVE CommitStep(g, b)
  BY <1>0, <1>1, AllKept
<1> SUFFICES ASSUME ~ ((\A k \in Server : NodeKept(k)) /\ RequestsTellCommits)
             PROVE  CommitStep(g, b) /\ RequestsTellCommits
  BY <1>1
<1>2. CASE \E n \in Server : StartElection(n)
  BY <1>0, <1>2, StartElectionKept
<1>3. CASE \E m \in Received("request_vote") : HandleRequestVote(m)
  BY <1>0, <1>3, HandleRequestVoteKept
<1>4. CASE \E m \in Received("request_vote_reply") : HandleVoteReply(m)
  <2>1. PICK m \in Received("request_vote_reply") : HandleVoteReply(m)
    BY <1>4
  <2>2. CASE StepDownOnReply(m)
    BY <1>0, <2>2, StepDownOnReplyKept DEF Received
  <2>3. CASE IgnoreVote(m) \/ CountVote(m)
    BY <1>0, <2>3, DiscardOnlyKept DEF IgnoreVote, CountVote, stateVars
  <2>4. CASE WinElection(m)
    BY <1>0, <2>4, WinElectionKept
  <2> QED BY <2>1, <2>2, <2>3, <2>4 DEF HandleVoteReply
<1>5. CASE \E m \in Received("append_entries") : HandleAppendEntries(m)
  <2>1. PICK m \in Received("append_entries") : HandleAppendEntries(m)
    BY <1>5
  <2>2. CASE RejectStaleAppend(m)
    BY <1>0, <2>2, RejectStaleAppendKept
  <2>3. CASE RejectMismatch(m)
    BY <1>0, <2>3, RejectMismatchKept
  <2>4. CASE AcceptAppend(m)
    BY <2>4, AcceptAppendCommits
  <2>5. CASE TornAppend(m)
    BY <2>5, TornAppendCommits
  <2> QED BY <2>1, <2>2, <2>3, <2>4, <2>5 DEF HandleAppendEntries
<1>6. CASE \E m \in Received("append_entries_reply") : HandleAppendReply(m)
  <2>1. PICK m \in Received("append_entries_reply") : HandleAppendReply(m)
    BY <1>6
  <2>2. CASE StepDownOnReply(m)
    BY <1>0, <2>2, StepDownOnReplyKept DEF Received
  <2>3. CASE IgnoreAppendReply(m)
    BY <1>0, <2>3, DiscardOnlyKept DEF IgnoreAppendReply, stateVars
  <2>4. CASE AppendAcknowledged(m)
    BY <1>0, <2>4, AppendAcknowledgedCommits
  <2>5. CASE AppendRefused(m)
    BY <1>0, <2>5, AppendRefusedKept
  <2> QED BY <2>1, <2>2, <2>3, <2>4, <2>5 DEF HandleAppendReply
<1>7. CASE \E n \in Server, c \in Command : ClientSubmit(n, c)
  BY <1>0, <1>7, ClientSubmitKept
<1>8. CASE \E n \in Server : BroadcastHeartbeat(n)
  BY <1>0, <1>8, BroadcastHeartbeatKept
<1>9. CASE \E n \in Server : AnswerClient(n)
  BY <1>0, <1>9, AnswerClientKept
<1>10. CASE \E n \in Server : Restart(n)
  BY <1>0, <1>10, RestartCommits
<1>11. CASE \E m \in InFlight : Lose(m)
  BY <1>0, <1>11, DiscardOnlyKept DEF Lose, stateVars
<1>12. CASE UNCHANGED vars
  <2>1. UNCHANGED <<wal, log, commit_index, current_term, network>>
    BY <1>12 DEF vars, stateVars
  <2>2. \A k \in Server : current_term'[k] >= current_term[k]
    BY <1>0, <2>1 DEF TypeInv, TypeOK
  <2>3. RequestsTellCommits
    BY <2>1 DEF RequestsTellCommits, Received, InFlight
  <2> QED BY <1>0, <2>1, <2>2, <2>3, UnwrittenKept
<1> QED BY <1>2, <1>3, <1>4, <1>5, <1>6, <1>7, <1>8, <1>9, <1>10, <1>11, <1>12 DEF Next
-----------------------------------------------------------------------------
(***************************************************************************)
(* Theorems.                                                               *)
(***************************************************************************)
CommitInv == LogInv /\ CandidaciesKnown /\ \E h, a : Story(h, a) /\ Commits(h, a)

\* At the start nothing is committed.
LEMMA InitCommits == Init => CommitInv
<1> SUFFICES ASSUME Init PROVE CommitInv
  OBVIOUS
<1> DEFINE h == [t \in Nat |-> <<>>]
<1>1. LogInv /\ CandidaciesKnown /\ Story(h, {})
  BY InitStory
<1>2. \A type : Received(type) = {}
  BY DEF Init, InFlight, Received, EmptyBag, SetToBag, BagToSet
<1>3. \A L, T : L = <<>> => Decided(h, {}, 0, L, T)
  BY EmptySeq DEF Decided
<1> HIDE DEF h
<1>4. \A n \in Server : /\ commit_index[n] = 0 /\ wal[n].commit = 0 /\ log[n] = <<>>
  BY DEF Init
<1>5. \A n \in Server : NodeDecided(h, {}, n)
  BY <1>3, <1>4 DEF NodeDecided
<1>6. Commits(h, {})
  BY <1>2, <1>5 DEF Commits
<1> QED BY <1>1, <1>6 DEF CommitInv

\* Every step keeps the invariant, takes back nothing that is committed, and
\* leaves a WAL that can be read back.
LEMMA NextCommitInv ==
  ASSUME CommitInv, CommitWithinBatch, [Next]_vars
  PROVE  CommitInv' /\ KeepsCommitted /\ WalReadable /\ RequestsTellCommits
<1>1. LogInv /\ LogInv' /\ CandidaciesKnown /\ TypeInv /\ TypeInv'
  BY NextLogs DEF CommitInv, LogInv, ElectionInv
<1>2. PICK h, a : Story(h, a) /\ Commits(h, a)
  BY DEF CommitInv
<1>3. PICK g, b : CandidaciesKnown' /\ Story(g, b)' /\ Extends(h, a, g, b)
  BY <1>1, <1>2, NextStory
<1>4. Written(g)' /\ g \in [Nat -> Log] /\ h \in [Nat -> Log]
  BY <1>2, <1>3 DEF Story, Written
<1>5. CommitStep(g, b) /\ RequestsTellCommits
  BY <1>1, <1>2, <1>3, <1>4, NextCommits
<1>6. Commits(g, b)'
  <2>1. \A n \in Server : NodeDecided(g, b, n)'
    BY <1>5 DEF CommitStep
  <2>2. \A m \in Received("append_entries")' :
           Decided(g, b, m.leader_commit, g[m.term], m.term)
    BY <1>1, <1>2, <1>3, <1>4, <1>5, RequestsAreDecided
  <2>3. \A m \in Received("append_entries")' :
           Decided(g, b, m.leader_commit, g[m.term], m.term)'
    BY <2>2 DEF Decided, Chosen
  <2> QED BY <2>1, <2>3 DEF Commits
<1>7. CommitInv'
  BY <1>1, <1>3, <1>6 DEF CommitInv
<1>8. KeepsCommitted
  <2> SUFFICES ASSUME NEW n \in Server
               PROVE  /\ commit_index[n] <= Len(log'[n])
                      /\ SubSeq(log'[n], 1, commit_index[n])
                           = SubSeq(log[n], 1, commit_index[n])
    BY DEF KeepsCommitted
  <2>1. NodeSafe(n) /\ commit_index[n] <= Len(log[n])
    BY <1>2, <1>5 DEF CommitStep, Commits, NodeDecided, Decided
  <2>2. log[n] \in Log /\ log'[n] \in Log /\ commit_index[n] \in Nat
    BY <1>1 DEF TypeInv, TypeOK, Log
  <2> QED BY <2>1, <2>2, SamePrefix DEF NodeSafe
<1>9. WalReadable
  <2> SUFFICES ASSUME NEW n \in Server
               PROVE  /\ wal'[n].term >= wal[n].term
                      /\ wal'[n].commit >= wal[n].commit
                      /\ wal'[n].commit <= Len(log'[n])
    BY DEF WalReadable
  <2>1. wal'[n].term >= wal[n].term
    BY <1>1, NextRises DEF TermsRise, LogInv
  <2>2. wal'[n].commit >= wal[n].commit
    BY <1>5 DEF CommitStep, NodeSafe
  <2>3. wal'[n].commit <= Len(log'[n])
    BY <1>5 DEF CommitStep, NodeDecided, Decided
  <2> QED BY <2>1, <2>2, <2>3
<1> QED BY <1>5, <1>7, <1>8, <1>9

\* What two servers committed is the same as far as both committed it.
LEMMA CommitsMeanSafety == CommitInv => StateMachineSafety
<1> SUFFICES ASSUME CommitInv, NEW n \in Server, NEW p \in Server
             PROVE  LET both == Min({commit_index[n], commit_index[p]}) IN
                    SubSeq(log[n], 1, both) = SubSeq(log[p], 1, both)
  BY DEF StateMachineSafety
<1> DEFINE k == commit_index[n]
           l == commit_index[p]
           K == log[n]
           L == log[p]
           S == current_term[n]
           T == current_term[p]
           both == Min({k, l})
<1>1. ElectionInv
  BY DEF CommitInv, LogInv
<1>2. PICK h, a : Story(h, a) /\ Commits(h, a)
  BY DEF CommitInv
<1>3. /\ k \in Nat /\ l \in Nat /\ K \in Log /\ L \in Log /\ S \in Nat /\ T \in Nat
      /\ Len(K) \in Nat /\ Len(L) \in Nat
  BY <1>1, LenProperties DEF ElectionInv, TypeInv, TypeOK, Log
<1>4. Decided(h, a, k, K, S) /\ Decided(h, a, l, L, T)
  BY <1>2 DEF Commits, NodeDecided
<1> HIDE DEF k, l, K, L, S, T
<1>5. \A j \in 1..k : j <= l => K[j] = L[j]
  BY <1>1, <1>2, <1>3, <1>4, DecidedAgree
<1>6. both \in Nat /\ both <= k /\ both <= l
  BY <1>3, MinOfTwo
<1> HIDE DEF both
<1>7. /\ both <= Len(K) /\ both <= Len(L)
      /\ \A j \in 1..both : K[j] = L[j]
  BY <1>3, <1>4, <1>5, <1>6 DEF Decided
<1>8. SubSeq(K, 1, both) = SubSeq(L, 1, both)
  BY <1>3, <1>6, <1>7, SamePrefix
<1> QED BY <1>8 DEF both, k, l, K, L

\* A leader has what the servers of its term and of older ones committed.
LEMMA CommitsMeanCompleteness == CommitInv => LeaderCompleteness
<1> SUFFICES ASSUME CommitInv, NEW l \in Server, NEW n \in Server,
                    role[l] = "leader", current_term[n] <= current_term[l]
             PROVE  /\ commit_index[n] <= Len(log[l])
                    /\ SubSeq(log[n], 1, commit_index[n])
                         = SubSeq(log[l], 1, commit_index[n])
  BY DEF LeaderCompleteness
<1> DEFINE k == commit_index[n]
           K == log[n]
           L == log[l]
           T == current_term[n]
           s == current_term[l]
<1>1. ElectionInv /\ \E e \in elected : e.term = s
  BY DEF CommitInv, LogInv, RolesAreEarned
<1>2. PICK h, a : Story(h, a) /\ Commits(h, a)
  BY DEF CommitInv
<1>3. /\ k \in Nat /\ K \in Log /\ L \in Log /\ T \in Nat /\ s \in Nat
      /\ Len(K) \in Nat /\ T <= s
  BY <1>1, LenProperties DEF ElectionInv, TypeInv, TypeOK, Log
<1>4. Decided(h, a, k, K, T)
  BY <1>2 DEF Commits, NodeDecided
<1>5. L = h[s]
  BY <1>2 DEF Story, Written
<1> HIDE DEF k, K, L, T, s
<1>6. k <= Len(L) /\ \A j \in 1..k : K[j] = L[j]
  BY <1>1, <1>2, <1>3, <1>4, <1>5, LeaderHasDecided
<1>7. k <= Len(K)
  BY <1>4 DEF Decided
<1>8. SubSeq(K, 1, k) = SubSeq(L, 1, k)
  BY <1>3, <1>6, <1>7, SamePrefix
<1> QED BY <1>6, <1>8 DEF k, K, L

\* The invariant, while no request says more is committed than it brings.
LEMMA CommitInvariant == Spec /\ []CommitWithinBatch => []CommitInv
<1>1. CommitInv /\ CommitWithinBatch /\ [Next]_vars => CommitInv'
  BY NextCommitInv
<1> QED BY <1>1, InitCommits, PTL DEF Spec

\* As long as no request says more is committed than it brings, no two servers
\* apply different commands at one index (raft/node.py feeds the store every
\* entry up to commit_index), whatever crashes and is lost.
THEOREM AppliedTheSame == Spec /\ []CommitWithinBatch => []StateMachineSafety
BY CommitInvariant, CommitsMeanSafety, PTL

\* In the same behaviours a leader has all that was committed in its term and
\* before (rpc.py handle_request_vote, replication.py advance_commit_index).
THEOREM LeadersAreComplete == Spec /\ []CommitWithinBatch => []LeaderCompleteness
BY CommitInvariant, CommitsMeanCompleteness, PTL

\* And no step takes back a committed entry, neither the truncation of a merge
\* nor a crash in the middle of one (log.py truncate_from does not look).
THEOREM CommittedStays == Spec /\ []CommitWithinBatch => CommittedNeverTruncated
<1>1. CommitInv /\ CommitWithinBatch /\ [Next]_vars => KeepsCommitted
  BY NextCommitInv
<1> QED BY <1>1, CommitInvariant, PTL DEF Spec, CommittedNeverTruncated

\* And the WAL can always be read back (persistence.py _fold refuses a term or a
\* commit index that goes back, node.py _restore clamps one past the log).
THEOREM WalStaysReadable == Spec /\ []CommitWithinBatch => [][WalReadable]_vars
<1>1. CommitInv /\ CommitWithinBatch /\ [Next]_vars => WalReadable
  BY NextCommitInv
<1> QED BY <1>1, CommitInvariant, PTL DEF Spec
-----------------------------------------------------------------------------
(***************************************************************************)
(* Logs that a request can hold whole.                                     *)
(***************************************************************************)
LogsShort ==
    /\ \A n \in Server : Len(log[n]) <= MaxLog
    /\ \A m \in Received("append_entries") : m.prev_log_index + Len(m.entries) <= MaxLog

\* What is left of a merge is no longer than the log was, or than the request
\* reaches.
LEMMA MergeIsShort ==
  ASSUME ElectionInv, NEW h, Written(h), MaxLog \in Nat, LogsShort,
         NEW m \in Received("append_entries"), Accepts(m.dst, m)
  PROVE  Len(AppendNewEntries(log[m.dst], m.prev_log_index, m.entries)) <= MaxLog
<1> DEFINE K == log[m.dst]
           L == h[m.term]
<1>1. /\ m.dst \in Server /\ m.prev_log_index \in Nat /\ m.entries \in Seq(Entry)
      /\ K \in Log /\ L \in Log /\ SliceOf(m, L)
      /\ HasEntry(K, m.prev_log_index, m.prev_log_term)
      /\ Traced(K, h) /\ Traced(L, h)
  BY AcceptedRequest
<1>2. Len(K) <= MaxLog /\ m.prev_log_index + Len(m.entries) <= MaxLog
  BY <1>1 DEF LogsShort
<1> HIDE DEF K, L
<1>3. Agree(K, L) /\ PrefixOf(K, K)
  BY <1>1, TracedAgree, PrefixReflexive
<1> DEFINE lg == AppendNewEntries(K, m.prev_log_index, m.entries)
<1>4. lg = K \/ Len(lg) = m.prev_log_index + Len(m.entries)
  BY <1>1, <1>3, MergeEither
<1> HIDE DEF lg
<1>5. Len(lg) <= MaxLog
  BY <1>2, <1>4
<1> QED BY <1>5 DEF lg, K

\* No log grows beyond the bound.
LEMMA LogsStayShort ==
  ASSUME LogInv, NEW h, Written(h), MaxLog \in Nat, LogsShort, [Next]_vars
  PROVE  \A n \in Server : Len(log'[n]) <= MaxLog
<1>0. /\ TypeOK /\ TypeInv /\ ElectionInv
      /\ \A m \in InFlight : m.dst \in Server
  BY ReceivedFields DEF LogInv, ElectionInv, TypeInv, TypeOK
<1>1. ASSUME NEW n \in Server, NEW lg, log' = [log EXCEPT ![n] = lg], Len(lg) <= MaxLog
      PROVE  \A k \in Server : Len(log'[k]) <= MaxLog
  <2>1. \A k \in Server : log'[k] = IF k = n THEN lg ELSE log[k]
    BY <1>0, <1>1 DEF TypeOK
  <2> QED BY <1>1, <2>1 DEF LogsShort
<1>2. ASSUME log' = log PROVE \A k \in Server : Len(log'[k]) <= MaxLog
  BY <1>2 DEF LogsShort
<1>3. ASSUME NEW n \in Server, NEW e, Len(log[n]) < MaxLog,
             log' = [log EXCEPT ![n] = Append(log[n], e)], e \in Entry
      PROVE  \A k \in Server : Len(log'[k]) <= MaxLog
  <2>1. log[n] \in Log /\ Len(log[n]) \in Nat
    BY <1>0, LenProperties DEF TypeOK, Log
  <2>2. Len(Append(log[n], e)) <= MaxLog
    BY <1>3, <2>1, AppendEffect
  <2> QED BY <1>1, <1>3, <2>2
<1>4. CASE \E m \in Received("append_entries") : HandleAppendEntries(m)
  <2>1. PICK m \in Received("append_entries") : HandleAppendEntries(m)
    BY <1>4
  <2> DEFINE n == m.dst
             lg == AppendNewEntries(log[n], m.prev_log_index, m.entries)
             kept == KeptLength(log[n], m.prev_log_index, m.entries)
  <2>2. n \in Server
    BY <1>0 DEF Received
  <2>3. CASE RejectStaleAppend(m) \/ RejectMismatch(m)
    BY <1>2, <2>3 DEF RejectStaleAppend, RejectMismatch, stateVars
  <2>4. CASE AcceptAppend(m)
    <3>1. log' = [log EXCEPT ![n] = lg] /\ Accepts(n, m)
      BY <2>4 DEF AcceptAppend
    <3>2. Len(lg) <= MaxLog
      BY <1>0, <3>1, MergeIsShort
    <3> HIDE DEF lg
    <3> QED BY <1>1, <2>2, <3>1, <3>2
  <2>5. CASE TornAppend(m)
    <3>1. Accepts(n, m)
      BY <2>5 DEF TornAppend
    <3>2. PICK written \in kept..Len(lg) : log' = [log EXCEPT ![n] = SubSeq(lg, 1, written)]
      BY <2>5 DEF TornAppend, Recover
    <3>3. /\ lg \in Log /\ Len(lg) \in Nat /\ kept \in Nat
          /\ Len(lg) <= MaxLog
      BY <1>0, <3>1, AcceptedMerge, MergeIsShort, LenProperties DEF Log
    <3> HIDE DEF lg, kept
    <3>4. Len(SubSeq(lg, 1, written)) <= MaxLog
      BY <3>3, PrefixType
    <3> QED BY <1>1, <2>2, <3>2, <3>4
  <2> QED BY <2>1, <2>3, <2>4, <2>5 DEF HandleAppendEntries
<1>5. CASE \E n \in Server, c \in Command : ClientSubmit(n, c)
  <2>1. PICK n \in Server, c \in Command : ClientSubmit(n, c)
    BY <1>5
  <2> DEFINE e == [term |-> current_term[n], command |-> c]
  <2>2. /\ Len(log[n]) < MaxLog /\ role[n] # "follower"
        /\ log' = [log EXCEPT ![n] = Append(log[n], e)]
    BY <2>1 DEF ClientSubmit
  <2>3. current_term[n] \in Nat /\ current_term[n] > 0
    BY <1>0, <2>2 DEF TypeInv, TermPositive, TypeOK
  <2>4. e \in Entry
    BY <2>3 DEF Entry
  <2> HIDE DEF e
  <2> QED BY <1>3, <2>2, <2>4
<1>6. CASE \E m \in Received("request_vote_reply") : HandleVoteReply(m)
  <2>1. PICK m \in Received("request_vote_reply") : HandleVoteReply(m)
    BY <1>6
  <2>2. CASE StepDownOnReply(m) \/ IgnoreVote(m) \/ CountVote(m)
    BY <1>2, <2>2 DEF StepDownOnReply, IgnoreVote, CountVote, stateVars
  <2>3. CASE WinElection(m)
    <3> DEFINE n == m.dst
               e == [term |-> current_term[n], command |-> NoOp]
    <3>1. /\ Len(log[n]) < MaxLog /\ role[n] # "follower"
          /\ log' = [log EXCEPT ![n] = Append(log[n], e)]
      BY <2>3 DEF WinElection
    <3>2. n \in Server
      BY <1>0 DEF Received
    <3>3. current_term[n] \in Nat /\ current_term[n] > 0
      BY <1>0, <3>1, <3>2 DEF TypeInv, TermPositive, TypeOK
    <3>4. e \in Entry
      BY <3>3 DEF Entry
    <3> HIDE DEF e
    <3> QED BY <1>3, <3>1, <3>2, <3>4
  <2> QED BY <2>1, <2>2, <2>3 DEF HandleVoteReply
<1>7. CASE \E n \in Server : Restart(n)
  BY <1>0, <1>2, <1>7 DEF Restart, Recover, TypeOK
<1>8. CASE \/ \E n \in Server : StartElection(n) \/ BroadcastHeartbeat(n) \/ AnswerClient(n)
           \/ \E m \in Received("request_vote") : HandleRequestVote(m)
           \/ \E m \in InFlight : Lose(m)
           \/ UNCHANGED vars
  BY <1>2, <1>8 DEF StartElection, BroadcastHeartbeat, AnswerClient, HandleRequestVote,
                    Lose, vars, stateVars
<1>9. CASE \E m \in Received("append_entries_reply") : HandleAppendReply(m)
  BY <1>2, <1>9 DEF HandleAppendReply, StepDownOnReply, IgnoreAppendReply,
                    AppendAcknowledged, AppendRefused, stateVars
<1> QED BY <1>4, <1>5, <1>6, <1>7, <1>8, <1>9 DEF Next

\* The invariant while the logs are no longer than a batch.
ShortInv == CommitInv /\ CommitWithinBatch /\ LogsShort

\* A request that holds the rest of its leader's log says no more is committed.
LEMMA NextShort ==
  ASSUME MaxLog \in Nat, MaxLog <= MaxBatch, ShortInv, [Next]_vars
  PROVE  ShortInv'
<1>1. /\ CommitInv' /\ KeepsCommitted /\ RequestsTellCommits
  BY NextCommitInv DEF ShortInv
<1>2. LogInv /\ LogInv' /\ TypeInv /\ TypeInv'
  BY <1>1 DEF ShortInv, CommitInv, LogInv, ElectionInv
<1>3. PICK h : Written(h)
  BY DEF ShortInv, CommitInv, Story
<1>4. \A n \in Server : Len(log'[n]) <= MaxLog
  BY <1>2, <1>3, LogsStayShort DEF ShortInv
<1>5. ASSUME NEW m \in Received("append_entries")'
      PROVE  /\ m.prev_log_index + Len(m.entries) <= MaxLog
             /\ m.leader_commit <= m.prev_log_index + Len(m.entries)
  <2>1. CASE m \in Received("append_entries")
    BY <2>1 DEF ShortInv, LogsShort, CommitWithinBatch
  <2>2. ASSUME NEW k \in Server, m.leader_commit = commit_index[k], Brings(m, log'[k])
        PROVE  /\ m.prev_log_index + Len(m.entries) <= MaxLog
               /\ m.leader_commit <= m.prev_log_index + Len(m.entries)
    <3>1. commit_index[k] <= Len(log'[k]) /\ Len(log'[k]) <= MaxLog
      BY <1>1, <1>4 DEF KeepsCommitted
    <3>2. /\ m.prev_log_index \in Nat /\ m.entries \in Seq(Entry)
      BY <1>2, ReceivedFields DEF TypeInv, TypeOK, Received, Message, InFlight
    <3>3. /\ Len(m.entries) \in Nat /\ Len(log'[k]) \in Nat /\ commit_index[k] \in Nat
          /\ MaxBatch \in Nat
      BY <1>2, <3>2, LenProperties, BatchAssumption DEF TypeInv, TypeOK
    <3> QED BY <2>2, <3>1, <3>2, <3>3 DEF Brings
  <2> QED BY <1>1, <2>1, <2>2 DEF RequestsTellCommits
<1>6. LogsShort' /\ CommitWithinBatch'
  BY <1>4, <1>5 DEF LogsShort, CommitWithinBatch
<1> QED BY <1>1, <1>6 DEF ShortInv

\* While no leader's log outgrows one batch (replication.py MAX_BATCH), nothing
\* else is needed: every request reaches the end of its leader's log, and what is
\* committed is the same everywhere and is in every later leader's log.
THEOREM OneBatchIsSafe ==
  ASSUME MaxLog \in Nat, MaxLog <= MaxBatch
  PROVE  Spec => [](CommitWithinBatch /\ StateMachineSafety /\ LeaderCompleteness)
<1>1. Init => ShortInv
  <2> SUFFICES ASSUME Init PROVE ShortInv
    OBVIOUS
  <2>1. \A type : Received(type) = {}
    BY DEF Init, InFlight, Received, EmptyBag, SetToBag, BagToSet
  <2>2. \A n \in Server : Len(log[n]) = 0
    BY EmptySeq DEF Init
  <2>3. CommitWithinBatch /\ LogsShort
    BY <2>1, <2>2 DEF CommitWithinBatch, LogsShort
  <2> QED BY <2>3, InitCommits DEF ShortInv
<1>2. ShortInv /\ [Next]_vars => ShortInv'
  BY NextShort
<1>3. ShortInv => CommitWithinBatch /\ StateMachineSafety /\ LeaderCompleteness
  BY CommitsMeanSafety, CommitsMeanCompleteness DEF ShortInv
<1> QED BY <1>1, <1>2, <1>3, PTL DEF Spec
-----------------------------------------------------------------------------
(***************************************************************************)
(* What is acknowledged is stored.                                         *)
(*                                                                         *)
(* A follower goes back on an acknowledgement only when a merge is torn:   *)
(* otherwise the truncation and the term of the leader that asked for it   *)
(* are in the WAL together.  Such a leader was elected by a majority that  *)
(* neither the old leader nor the follower belongs to, which takes five    *)
(* servers.                                                                *)
(***************************************************************************)
\* The leader of t.
Leads(v, t) == \E e \in elected : e.leader = v /\ e.term = t

\* A leader acknowledges its own log, whose last entry is of its term; and who
\* has not gone on to a later term stores what it acknowledged to another.
AcksStored(h, a) ==
    /\ \A e \in elected : \A i \in 1..Len(h[e.term]) : <<e.leader, e.term, i>> \in a
    /\ \A t \in Nat : Len(h[t]) > 0 => Holds(h[t], t, Len(h[t]))
    /\ \A v \in Server, t, i \in Nat :
          <<v, t, i>> \in a /\ wal[v].term <= t /\ ~ Leads(v, t) =>
              Holds(log[v], h[t][i].term, i)

\* No merge is torn in this step.
WholeMerges == \A m \in Received("append_entries") : ~ TornAppend(m)

FewServers == Cardinality(Server) <= 4

\* Two of at most four servers cannot be left out by a majority.
LEMMA FewMajorities ==
  ASSUME FewServers, NEW S \in SUBSET Server, IsMajority(S),
         NEW u \in Server, NEW v \in Server, u # v
  PROVE  u \in S \/ v \in S
<1> SUFFICES ASSUME u \notin S, v \notin S PROVE FALSE
  OBVIOUS
<1>1. IsFiniteSet(S) /\ Cardinality(S) \in Nat /\ Cardinality(Server) \in Nat
  BY ServerAssumption, FS_Subset, FS_CardinalityType
<1> DEFINE T == S \cup {u}
<1>2. IsFiniteSet(T) /\ Cardinality(T) = Cardinality(S) + 1
  BY <1>1, FS_AddElement
<1>3. v \notin T /\ T \cup {v} \subseteq Server
  OBVIOUS
<1> HIDE DEF T
<1>4. Cardinality(T \cup {v}) = Cardinality(T) + 1
  BY <1>2, <1>3, FS_AddElement
<1>5. Cardinality(T \cup {v}) <= Cardinality(Server)
  BY <1>3, ServerAssumption, FS_Subset
<1> QED BY <1>1, <1>2, <1>4, <1>5 DEF FewServers, IsMajority, Majority

\* Among so few every later leader has what a follower acknowledged that has not
\* gone on: one of its voters would be that follower or the leader it answered.
LEMMA FewKeep ==
  ASSUME FewServers, LogInv, NEW h, NEW a, Story(h, a), AcksStored(h, a),
         NEW v \in Server, NEW t \in Nat, NEW i \in Nat \ {0}, <<v, t, i>> \in a,
         wal[v].term <= t, ~ Leads(v, t), NEW e \in elected, e.term > t
  PROVE  Holds(h[e.term], h[t][i].term, i)
<1> DEFINE k == Len(h[t])
<1>1. /\ h[t] \in Log /\ i <= k /\ k \in Nat /\ e.term \in Nat /\ h[e.term] \in Log
      /\ Traced(h[e.term], h) /\ Traced(h[t], h)
  BY LenProperties
     DEF Story, AcksKnown, Written, Log, LogInv, ElectionInv, TypeInv, TypeOK
<1>2. PICK f \in elected : f.term = t
  BY <1>1 DEF Story, Written
<1>3. f.leader \in Server /\ f.leader # v /\ <<f.leader, t, k>> \in a
  <2>1. f.leader \in Server
    BY DEF LogInv, ElectionInv, TypeInv, TypeOK
  <2>2. k \in 1..k
    BY <1>1
  <2>3. <<f.leader, t, k>> \in a
    BY <1>2, <2>2 DEF AcksStored
  <2> QED BY <1>2, <2>1, <2>3 DEF Leads
<1>4. Holds(h[t], t, k)
  BY <1>1 DEF AcksStored
<1>5. ~ Lost(h, t, k)
  <2> SUFFICES ASSUME Lost(h, t, k) PROVE FALSE
    OBVIOUS
  <2>1. PICK x \in elected :
           Lacks(x, h, t, k) /\ \A u \in x.voters : <<u, t, k>> \notin a
    BY <1>1, <1>4 DEF Story, VotersBlock
  <2>2. f.leader \notin x.voters
    BY <1>3, <2>1
  <2>3. v \notin x.voters
    <3> SUFFICES ASSUME v \in x.voters PROVE FALSE
      OBVIOUS
    <3>1. x.term \in Nat /\ wal[v].term \in Nat /\ wal[v].term >= x.term
      BY VoterBound DEF LogInv
    <3> QED BY <2>1, <3>1 DEF Lacks
  <2>4. x.voters \in SUBSET Server /\ IsMajority(x.voters)
    BY DEF LogInv, ElectionInv, TypeInv, TypeOK, VotersAreMajority
  <2> QED BY <1>3, <2>2, <2>3, <2>4, FewMajorities
<1>6. Holds(h[e.term], t, k)
  BY <1>5 DEF Lost, Lacks
<1>7. k \in 1..Len(h[e.term]) /\ \A j \in 1..k : h[e.term][j] = h[t][j]
  BY <1>1, <1>6, HeldIsTraced
<1>8. Len(h[e.term]) \in Nat /\ i \in 1..k
  BY <1>1, LenProperties DEF Log
<1> QED BY <1>1, <1>7, <1>8 DEF Holds

\* A log loses entries in a merge only.
LEMMA LogsGrow ==
  ASSUME TypeInv, [Next]_vars, NEW v \in Server
  PROVE  \/ PrefixOf(log[v], log'[v])
         \/ \E m \in Received("append_entries") :
               v = m.dst /\ (AcceptAppend(m) \/ TornAppend(m))
<1> USE DEF TypeInv, TypeOK
<1>1. log[v] \in Log /\ PrefixOf(log[v], log[v])
  BY PrefixReflexive DEF Log
<1>2. \A m \in InFlight : m.dst \in Server
  BY ReceivedFields
<1>3. ASSUME NEW m \in Received("request_vote_reply"), WinElection(m)
      PROVE  PrefixOf(log[v], log'[v])
  <2> DEFINE e == [term |-> current_term[m.dst], command |-> NoOp]
  <2>1. m.dst \in Server /\ log' = [log EXCEPT ![m.dst] = Append(log[m.dst], e)]
    BY <1>2, <1>3 DEF WinElection, Received
  <2>2. e \in Entry
    <3>1. current_term[m.dst] \in Nat /\ current_term[m.dst] > 0
      BY <1>3, <2>1 DEF TermPositive, WinElection
    <3> QED BY <3>1 DEF Entry
  <2>3. PrefixOf(log[m.dst], Append(log[m.dst], e))
    <3> HIDE DEF e
    <3> QED BY <2>1, <2>2, AppendEffect DEF Log
  <2> QED BY <1>1, <2>1, <2>3
<1>4. ASSUME NEW n \in Server, NEW c \in Command, ClientSubmit(n, c)
      PROVE  PrefixOf(log[v], log'[v])
  <2> DEFINE e == [term |-> current_term[n], command |-> c]
  <2>1. log' = [log EXCEPT ![n] = Append(log[n], e)]
    BY <1>4 DEF ClientSubmit
  <2>2. e \in Entry
    <3>1. current_term[n] \in Nat /\ current_term[n] > 0
      BY <1>4 DEF TermPositive, ClientSubmit
    <3> QED BY <3>1 DEF Entry
  <2>3. PrefixOf(log[n], Append(log[n], e))
    <3> HIDE DEF e
    <3> QED BY <2>2, AppendEffect DEF Log
  <2> QED BY <1>1, <2>1, <2>3
<1>5. CASE \E m \in Received("append_entries") : HandleAppendEntries(m)
  <2>1. PICK m \in Received("append_entries") : HandleAppendEntries(m)
    BY <1>5
  <2>2. m.dst \in Server
    BY <1>2 DEF Received
  <2>3. CASE AcceptAppend(m) \/ TornAppend(m)
    <3>1. \E lg : log' = [log EXCEPT ![m.dst] = lg]
      BY <2>3 DEF AcceptAppend, TornAppend, Recover
    <3> QED BY <1>1, <2>2, <2>3, <3>1
  <2> QED BY <1>1, <2>1, <2>3
          DEF HandleAppendEntries, RejectStaleAppend, RejectMismatch, stateVars
<1>6. CASE \E n \in Server : Restart(n)
  BY <1>1, <1>6 DEF Restart, Recover
<1>7. CASE \E m \in Received("request_vote_reply") : HandleVoteReply(m)
  BY <1>1, <1>3, <1>7 DEF HandleVoteReply, StepDownOnReply, IgnoreVote, CountVote,
                          stateVars
<1>8. CASE \/ \E n \in Server : StartElection(n)
           \/ \E m \in Received("request_vote") : HandleRequestVote(m)
           \/ \E m \in Received("append_entries_reply") : HandleAppendReply(m)
           \/ \E m \in InFlight : Lose(m)
  BY <1>1, <1>8 DEF StartElection, HandleRequestVote, Lose, stateVars, HandleAppendReply,
                    StepDownOnReply, IgnoreAppendReply, AppendAcknowledged, AppendRefused
<1>9. CASE \/ \E n \in Server : BroadcastHeartbeat(n)
           \/ \E n \in Server : AnswerClient(n)
           \/ UNCHANGED vars
  BY <1>1, <1>9 DEF BroadcastHeartbeat, AnswerClient, stateVars, vars
<1> QED BY <1>4, <1>5, <1>6, <1>7, <1>8, <1>9 DEF Next

\* A merge, also a torn one, keeps what its follower acknowledged in the terms it
\* has not left.
LEMMA MergeKeepsAcks ==
  ASSUME LogInv, TypeInv', TermsRise, FewServers \/ WholeMerges,
         NEW h, NEW a, Story(h, a), AcksStored(h, a),
         NEW m \in Received("append_entries"), AcceptAppend(m) \/ TornAppend(m),
         NEW t \in Nat, NEW i \in Nat \ {0}, <<m.dst, t, i>> \in a,
         wal'[m.dst].term <= t, ~ Leads(m.dst, t)
  PROVE  Holds(log'[m.dst], h[t][i].term, i)
<1> DEFINE n == m.dst
           merged == AppendNewEntries(log[n], m.prev_log_index, m.entries)
           s == h[t][i].term
<1>1. Accepts(n, m)
  BY DEF AcceptAppend, TornAppend
<1>2. /\ n \in Server /\ m.term \in Nat
      /\ m.prev_log_index \in Nat /\ m.entries \in Seq(Entry)
      /\ log[n] \in Log /\ h[m.term] \in Log /\ SliceOf(m, h[m.term])
      /\ HasEntry(log[n], m.prev_log_index, m.prev_log_term)
      /\ Traced(log[n], h) /\ Traced(h[m.term], h)
      /\ m.term >= current_term[n]
  BY <1>1, AcceptedRequest DEF Story, LogInv
<1>3. PICK e \in elected : e.term = m.term
  BY <1>1, AcceptedRequest DEF Story, LogInv
<1>4. /\ wal[n].term = t /\ wal'[n].term = t /\ current_term[n] >= t
      /\ h[t] \in Log /\ i <= Len(h[t]) /\ current_term[n] \in Nat
  <2>1. /\ wal[n].term \in Nat /\ wal'[n].term \in Nat /\ current_term[n] \in Nat
        /\ wal[n].term <= current_term[n]
    BY <1>2 DEF LogInv, ElectionInv, WalBehind, TypeInv, TypeOK, WalRecord
  <2>2. wal'[n].term >= wal[n].term /\ wal[n].term >= t /\ i <= Len(h[t])
    BY <1>2 DEF Story, AcksKnown, TermsRise
  <2>3. h[t] \in Log
    BY DEF Story, Written
  <2> QED BY <2>1, <2>2, <2>3
<1>5. Holds(log[n], s, i)
  BY <1>2, <1>4 DEF AcksStored
<1>6. i \in 1..Len(h[t]) /\ s \in Nat
  <2>1. i \in 1..Len(h[t])
    BY <1>4, LenProperties DEF Log
  <2> QED BY <1>4, <2>1, EntryTerm
<1>7. merged \in Log
  BY <1>1, AcceptedMerge DEF LogInv, ElectionInv
<1> HIDE DEF merged
<1>8. m.term > t => TornAppend(m)
  <2> SUFFICES ASSUME AcceptAppend(m), m.term > t PROVE FALSE
    OBVIOUS
  <2>1. wal'[n].term = current_term'[n] /\ current_term'[n] = m.term
    BY <1>2 DEF AcceptAppend, Persist, FollowLeader, LogInv, ElectionInv, TypeInv, TypeOK
  <2> QED BY <1>2, <1>4, <2>1
<1>9. Holds(h[m.term], s, i)
  <2>1. CASE m.term = t
    BY <1>6, <2>1 DEF Holds
  <2>2. CASE m.term # t
    <3>1. m.term > t
      BY <1>2, <1>4, <2>2
    <3>2. FewServers
      BY <1>8, <3>1 DEF WholeMerges
    <3> QED BY <1>2, <1>3, <1>4, <3>1, <3>2, FewKeep
  <2> QED BY <2>1, <2>2
<1>10. \E r \in Log : /\ log'[n] = r /\ PrefixOf(r, merged)
                      /\ KeptLength(log[n], m.prev_log_index, m.entries) <= Len(r)
  <2>1. log \in [Server -> Seq(Entry)]
    BY DEF LogInv, ElectionInv, TypeInv, TypeOK
  <2>2. CASE AcceptAppend(m)
    <3>1. log'[n] = merged
      BY <1>2, <2>1, <2>2 DEF AcceptAppend, merged
    <3>2. KeptLength(log[n], m.prev_log_index, m.entries) <= Len(merged)
      BY <1>1, AcceptedMerge DEF merged, LogInv, ElectionInv
    <3> QED BY <1>7, <3>1, <3>2, PrefixReflexive
  <2>3. CASE TornAppend(m)
    <3>1. /\ KeptLength(log[n], m.prev_log_index, m.entries) \in Nat
          /\ Len(merged) \in Nat
      BY <1>1, <1>7, AcceptedMerge, LenProperties DEF merged, LogInv, ElectionInv, Log
    <3>2. PICK written \in KeptLength(log[n], m.prev_log_index, m.entries)..Len(merged) :
             log'[n] = SubSeq(merged, 1, written)
      BY <1>2, <2>1, <2>3 DEF TornAppend, Recover, merged
    <3> DEFINE r == SubSeq(merged, 1, written)
    <3>3. r \in Log /\ Len(r) = written /\ PrefixOf(r, merged)
      BY <1>7, <3>1, <3>2, PrefixType, PrefixCut
    <3>4. log'[n] = r
      BY <3>2
    <3> HIDE DEF r
    <3> QED BY <3>1, <3>3, <3>4
  <2> QED BY <2>2, <2>3
<1>11. PICK r \in Log : /\ log'[n] = r /\ PrefixOf(r, merged)
                        /\ KeptLength(log[n], m.prev_log_index, m.entries) <= Len(r)
  BY <1>10
<1> HIDE DEF s
<1>12. Holds(r, s, i)
  BY <1>2, <1>5, <1>6, <1>9, <1>11, MergeHolds DEF merged
<1> QED BY <1>11, <1>12 DEF s

\* The invariant: the story, with what is acknowledged stored.
StoredInv == LogInv /\ CandidaciesKnown /\ \E h, a : Story(h, a) /\ AcksStored(h, a)

LEMMA InitStored == Init => StoredInv
<1> SUFFICES ASSUME Init PROVE StoredInv
  OBVIOUS
<1> DEFINE h == [t \in Nat |-> <<>>]
<1>1. LogInv /\ CandidaciesKnown /\ Story(h, {})
  BY InitStory
<1>2. elected = {} /\ \A t \in Nat : Len(h[t]) = 0
  BY DEF Init
<1> HIDE DEF h
<1>3. AcksStored(h, {})
  BY <1>2 DEF AcksStored
<1> QED BY <1>1, <1>3 DEF StoredInv

\* Every step keeps it, as long as servers are few or merges whole.
LEMMA NextStored ==
  ASSUME StoredInv, [Next]_vars, FewServers \/ [WholeMerges]_vars
  PROVE  StoredInv'
<1>1. LogInv /\ LogInv' /\ CandidaciesKnown /\ TypeInv /\ TypeInv' /\ TermsRise
  BY NextLogs, NextRises DEF StoredInv, LogInv, ElectionInv
<1>2. PICK h, a : Story(h, a) /\ AcksStored(h, a)
  BY DEF StoredInv
<1>3. PICK g, b : /\ CandidaciesKnown' /\ Story(g, b)'
                  /\ Extends(h, a, g, b) /\ Adds(h, a, g, b)
  BY <1>1, <1>2, NextStory
<1>4. /\ h \in [Nat -> Log] /\ g \in [Nat -> Log] /\ a \subseteq b
      /\ \A t \in Nat : /\ Len(h[t]) \in Nat /\ Len(g[t]) \in Nat
                        /\ PrefixOf(h[t], g[t])
  <2>1. h \in [Nat -> Log] /\ g \in [Nat -> Log]
    BY <1>2, <1>3 DEF Story, Written
  <2> QED BY <1>3, <2>1, LenProperties DEF Extends, Log
<1>5. \A e \in elected : e \in elected' /\ e.term \in Nat
  BY <1>1, <1>3 DEF Adds, TypeInv, TypeOK
<1>6. ASSUME NEW e \in elected', NEW i \in 1..Len(g[e.term])
      PROVE  <<e.leader, e.term, i>> \in b
  <2>1. CASE e \in elected /\ i <= Len(h[e.term])
    <3>1. i \in 1..Len(h[e.term])
      BY <1>4, <1>5, <2>1
    <3> QED BY <1>2, <1>4, <2>1, <3>1 DEF AcksStored
  <2> QED BY <1>3, <2>1 DEF Adds
<1>7. ASSUME NEW t \in Nat, Len(g[t]) > 0 PROVE Holds(g[t], t, Len(g[t]))
  BY <1>2, <1>3, <1>7 DEF Adds, AcksStored
<1>8. ASSUME NEW v \in Server, NEW t \in Nat, NEW i \in Nat,
             <<v, t, i>> \in b, wal'[v].term <= t, ~ Leads(v, t)'
      PROVE  Holds(log'[v], g[t][i].term, i)
  <2> SUFFICES ASSUME ~ Holds(log'[v], g[t][i].term, i) PROVE FALSE
    OBVIOUS
  <2>1. <<v, t, i>> \in a
    BY <1>3, <1>8 DEF Adds
  <2>2. i <= Len(h[t]) /\ wal[v].term <= t
    <3>1. wal[v].term \in Nat /\ wal'[v].term \in Nat
      BY <1>1 DEF TypeInv, TypeOK, WalRecord
    <3> QED BY <1>1, <1>2, <1>8, <2>1, <3>1 DEF Story, AcksKnown, TermsRise
  <2>3. ~ Leads(v, t)
    BY <1>5, <1>8 DEF Leads
  <2>4. Holds(log[v], h[t][i].term, i)
    BY <1>2, <2>1, <2>2, <2>3 DEF AcksStored
  <2>5. i # 0 /\ g[t][i] = h[t][i]
    <3>1. i # 0
      BY <2>4 DEF Holds
    <3> QED BY <1>4, <2>2, <3>1 DEF PrefixOf
  <2>6. CASE PrefixOf(log[v], log'[v])
    <3>1. Len(log[v]) \in Nat /\ Len(log'[v]) \in Nat
      BY <1>1, LenProperties DEF TypeInv, TypeOK
    <3> QED BY <2>4, <2>5, <2>6, <3>1 DEF PrefixOf, Holds
  <2>7. CASE UNCHANGED vars
    BY <2>4, <2>5, <2>7 DEF vars, stateVars
  <2>8. CASE /\ FewServers \/ WholeMerges
             /\ \E m \in Received("append_entries") :
                   v = m.dst /\ (AcceptAppend(m) \/ TornAppend(m))
    <3>1. Holds(log'[v], h[t][i].term, i)
      BY <1>1, <1>2, <1>8, <2>1, <2>3, <2>5, <2>8, MergeKeepsAcks
    <3> QED BY <2>5, <3>1
  <2> QED BY <1>1, <2>6, <2>7, <2>8, LogsGrow
<1>9. AcksStored(g, b)'
  BY <1>6, <1>7, <1>8 DEF AcksStored
<1> QED BY <1>1, <1>3, <1>9 DEF StoredInv

\* What the leader's bookkeeping says is what the peer has.
LEMMA StoredMeansMatch == StoredInv => MatchIndexIsStored
<1> SUFFICES ASSUME StoredInv, NEW l \in Server, NEW p \in Server,
                    role[l] = "leader", current_term[p] <= current_term[l]
             PROVE  /\ match_index[l][p] <= Len(log[p])
                    /\ SubSeq(log[p], 1, match_index[l][p])
                         = SubSeq(log[l], 1, match_index[l][p])
  BY DEF MatchIndexIsStored
<1> DEFINE t == current_term[l]
           M == match_index[l][p]
<1>1. PICK h, a : Story(h, a) /\ AcksStored(h, a)
  BY DEF StoredInv
<1>2. /\ t \in Nat /\ M \in Nat /\ log[l] \in Log /\ log[p] \in Log
      /\ Len(log[l]) \in Nat /\ Len(log[p]) \in Nat
      /\ wal[p].term \in Nat /\ wal[p].term <= t
  BY LenProperties
     DEF StoredInv, LogInv, ElectionInv, TypeInv, TypeOK, WalRecord, WalBehind, Log
<1>3. /\ log[l] = h[t] /\ Traced(log[l], h) /\ Traced(log[p], h)
  BY <1>1 DEF Story, Written
<1>4. \A i \in 1..M : <<p, t, i>> \in a /\ i <= Len(h[t])
  BY <1>1, <1>2 DEF Story, AcksKnown
<1> HIDE DEF M
<1>5. ASSUME p # l, NEW i \in 1..M
      PROVE  i \in 1..Len(log[p]) /\ \A j \in 1..i : log[p][j] = log[l][j]
  <2>1. ~ Leads(p, t)
    <3>1. ElectionSafety
      BY OneVoteMeansOneLeader DEF StoredInv, LogInv
    <3> QED BY <1>5, <3>1 DEF Leads, ElectionSafety, StoredInv, LogInv, RolesAreEarned
  <2>2. Holds(log[p], h[t][i].term, i)
    <3>1. i \in Nat /\ <<p, t, i>> \in a
      BY <1>2, <1>4
    <3> QED BY <1>1, <1>2, <2>1, <3>1 DEF AcksStored
  <2>3. i \in 1..Len(log[p]) /\ i <= Len(log[l]) /\ log[p][i].term = log[l][i].term
    <3>1. i <= Len(h[t])
      BY <1>4
    <3> QED BY <1>3, <2>2, <3>1 DEF Holds
  <2>4. Agree(log[p], log[l])
    BY <1>2, <1>3, TracedAgree
  <2> QED BY <1>2, <2>3, <2>4 DEF Agree
<1>6. M <= Len(log[p]) /\ M <= Len(log[l]) /\ \A j \in 1..M : log[p][j] = log[l][j]
  <2>1. CASE M = 0
    BY <1>2, <2>1
  <2>2. CASE M # 0
    <3>1. M \in 1..M
      BY <1>2, <2>2
    <3>2. M <= Len(log[l])
      BY <1>3, <1>4, <3>1
    <3> QED BY <1>2, <1>5, <3>1, <3>2
  <2> QED BY <2>1, <2>2
<1>7. SubSeq(log[p], 1, M) = SubSeq(log[l], 1, M)
  BY <1>2, <1>6, SamePrefix
<1> QED BY <1>6, <1>7 DEF M

\* Among at most four servers a leader's match_index is what the peer has stored,
\* whatever crashes tear (raft/replication.py handle_append_reply, raft/log.py
\* truncate_from).
THEOREM FewServersStore ==
  ASSUME FewServers
  PROVE  Spec => []MatchIndexIsStored
<1>1. Init => StoredInv
  BY InitStored
<1>2. StoredInv /\ [Next]_vars => StoredInv'
  BY NextStored
<1> QED BY <1>1, <1>2, StoredMeansMatch, PTL DEF Spec

\* And among any number of servers, as long as no merge is torn.
THEOREM WholeMergesStore == Spec /\ [][WholeMerges]_vars => []MatchIndexIsStored
<1>1. Init => StoredInv
  BY InitStored
<1>2. StoredInv /\ [Next]_vars /\ [WholeMerges]_vars => StoredInv'
  BY NextStored
<1> QED BY <1>1, <1>2, StoredMeansMatch, PTL DEF Spec
=============================================================================
