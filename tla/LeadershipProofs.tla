-------------------------- MODULE LeadershipProofs ---------------------------
(***************************************************************************)
(* What a leader may rely on.  A read is answered by who still leads, from *)
(* a store that shows whatever any client was told of (Reads.tla), and no  *)
(* two nodes differ on what they applied when a leader comes back from a   *)
(* compacted log (CatchUp.tla): for any cluster, whatever its size, the    *)
(* order of the messages, what is lost and the bounds.                     *)
(*                                                                         *)
(* Both reduce an election to a majority that moves to a new term at once, *)
(* so that both rest on the same argument, and the first half of this      *)
(* module is that argument: constant operators and lemmas about the terms  *)
(* T, the leaders D and the logs L of any state, and what a step makes of  *)
(* them.  Two things are remembered that no state holds.  The history h[t] *)
(* is the log of the leader of t, as long as it ever was; a[p][t] is the   *)
(* last entry of it that p ever acknowledged.                              *)
(*                                                                         *)
(* The last part is about what the trace of a run tells of its leaders     *)
(* (Trace.tla), crashes and partitions included.                           *)
(***************************************************************************)
EXTENDS Reads, RaftLogProofs, Trace

CONSTANTS MaxRestarts, MaxLost, MaxOvertakes

VARIABLES base, snapshot, awaiting, links, restarts, lost, overtakes

Compacted == INSTANCE CatchUp WITH net <- links

Entry == [term : Nat \ {0}, write : BOOLEAN]
Log == Seq(Entry)

-----------------------------------------------------------------------------
(***************************************************************************)
(* The invariant of an election and of replication.                        *)
(***************************************************************************)
PrefixOf(K, L) == Len(K) <= Len(L) /\ \A i \in 1..Len(K) : K[i] = L[i]

\* Logs that have an entry of one term at one index are the same up to it.
Agree(K, L) ==
    \A i \in 1..Len(K) :
        i <= Len(L) /\ K[i].term = L[i].term => \A j \in 1..i : K[j] = L[j]

\* The entry that the leader of t has at i, if it is of its own term.
Holds(L, t, i) == i \in 1..Len(L) /\ L[i].term = t

\* Up to each of its entries, L is what the leader of the entry's term has.
Traced(L, h) ==
    \A i \in 1..Len(L) :
        /\ i <= Len(h[L[i].term])
        /\ \A j \in 1..i : L[j] = h[L[i].term][j]

\* Where the logs come from; a leader's last entry is its own.
Written(T, D, L, h) ==
    /\ \A t \in Nat : Traced(h[t], h)
    /\ \A t \in Nat : \A i \in 1..Len(h[t]) : h[t][i].term <= t
    /\ \A t \in Nat : Len(h[t]) > 0 => Holds(h[t], t, Len(h[t]))
    /\ \A n \in Server : Traced(L[n], h)
    /\ \A n \in Server : \A i \in 1..Len(L[n]) : L[n][i].term <= T[n]
    /\ \A n \in Server : D[n] => L[n] = h[T[n]] /\ Len(h[T[n]]) > 0
    /\ \A n, p \in Server : D[n] /\ D[p] /\ T[n] = T[p] => n = p

\* A majority has the highest term, and nobody led in a higher one.
Top(T, h, top) ==
    /\ \A n \in Server : T[n] <= top
    /\ \A t \in Nat : t > top => Len(h[t]) = 0
    /\ IsMajority({n \in Server : T[n] = top})

\* What was acknowledged is in the history, by a server that had the term.
Acknowledged(T, D, L, h, a) ==
    /\ \A p \in Server, t \in Nat : a[p][t] <= Len(h[t]) /\ (a[p][t] > 0 => T[p] >= t)
    /\ \A n \in Server : D[n] => a[n][T[n]] = Len(L[n])

\* A later leader does not have the entry.
Lacks(h, u, t, i) == u > t /\ Len(h[u]) > 0 /\ ~ Holds(h[u], t, i)
Lost(h, t, i) == \E u \in Nat : Lacks(h, u, t, i)

\* What a server acknowledged it stores, unless a leader without it was elected.
Stored(L, h, a) ==
    \A p \in Server, t, i \in Nat :
        i <= a[p][t] /\ Holds(h[t], t, i) => Holds(L[p], t, i) \/ Lost(h, t, i)

\* The servers V did not acknowledge the entry and never will.
Blocks(T, a, V, t, i) ==
    /\ V \in SUBSET Server /\ IsMajority(V)
    /\ \A q \in V : T[q] > t /\ a[q][t] < i

\* If a leader was elected without the entry, a majority blocks it.
LostIsBlocked(T, h, a) ==
    \A t, i \in Nat :
        Holds(h[t], t, i) /\ Lost(h, t, i) => \E V \in SUBSET Server : Blocks(T, a, V, t, i)

\* A log has at most an entry for each term and each write.
Short(T, L, h, w) ==
    /\ \A n \in Server : Len(L[n]) <= T[n] + w
    /\ \A t \in Nat : Len(h[t]) <= t + w

Types(T, D, L, h, a, w) ==
    /\ T \in [Server -> Nat] /\ D \in [Server -> BOOLEAN] /\ L \in [Server -> Log]
    /\ h \in [Nat -> Log] /\ a \in [Server -> [Nat -> Nat]] /\ w \in Nat

\* The histories h and the acknowledgements a explain the state.
Sound(T, D, L, h, a, w) ==
    /\ Types(T, D, L, h, a, w)
    /\ Written(T, D, L, h)
    /\ \E top \in Nat : Top(T, h, top)
    /\ Acknowledged(T, D, L, h, a)
    /\ Stored(L, h, a)
    /\ LostIsBlocked(T, h, a)
    /\ Short(T, L, h, w)

\* A majority acknowledged an entry of the leader's own term.
Chosen(h, a, t, i) ==
    Holds(h[t], t, i) /\ IsMajority({p \in Server : a[p][t] >= i})

\* The first c entries of K are those of a leader of a term up to u that a
\* majority acknowledged.
Decided(h, a, K, c, u) ==
    \/ c = 0
    \/ \E t, i \in Nat :
          /\ t <= u /\ Chosen(h, a, t, i) /\ c <= i
          /\ c <= Len(K) /\ \A j \in 1..c : K[j] = h[t][j]

\* A request's entries follow prev in the leader's log.
Slice(m, K) ==
    /\ m.prev + Len(m.entries) <= Len(K)
    /\ m.prev_term = TermAt(K, m.prev)
    /\ \A k \in 1..Len(m.entries) : m.entries[k] = K[m.prev + k]

\* Histories only grow, and acknowledgements are not taken back.
Grows(h, a, h2, a2) ==
    /\ \A t \in Nat : PrefixOf(h[t], h2[t])
    /\ \A p \in Server, t \in Nat : a2[p][t] >= a[p][t]

-----------------------------------------------------------------------------
(***************************************************************************)
(* Logs and histories.                                                     *)
(***************************************************************************)
\* The length of a log, and what its entries are.
LEMMA LogType ==
  ASSUME NEW L \in Log
  PROVE  /\ L \in Seq(Entry) /\ Len(L) \in Nat
         /\ \A i \in 1..Len(L) : L[i] \in Entry /\ L[i].term \in Nat \ {0}
<1>1. L \in Seq(Entry) /\ Len(L) \in Nat
  BY LenProperties DEF Log
<1>2. \A i \in 1..Len(L) : L[i] \in Entry
  BY <1>1, ElementOfSeq
<1> QED BY <1>1, <1>2 DEF Entry

\* The term of an entry, or of what is before the first.
LEMMA TermAtType ==
  ASSUME NEW L \in Log, NEW i \in 0..Len(L)
  PROVE  TermAt(L, i) \in Nat /\ (i # 0 <=> TermAt(L, i) # 0)
<1>1. CASE i = 0
  BY <1>1 DEF TermAt
<1>2. CASE i # 0
  <2>1. i \in 1..Len(L)
    BY <1>2, LogType
  <2> QED BY <1>2, <2>1, LogType DEF TermAt
<1> QED BY <1>1, <1>2

\* A log begins with itself, and with what its beginning begins with.
LEMMA PrefixReflexive ==
  ASSUME NEW L \in Log
  PROVE  PrefixOf(L, L)
BY LogType DEF PrefixOf

\* Prefixes of prefixes are prefixes.
LEMMA PrefixTransitive ==
  ASSUME NEW K \in Log, NEW L \in Log, NEW M \in Log, PrefixOf(K, L), PrefixOf(L, M)
  PROVE  PrefixOf(K, M)
<1>1. Len(K) \in Nat /\ Len(L) \in Nat /\ Len(M) \in Nat
  BY LogType
<1> QED BY <1>1 DEF PrefixOf

\* A log that holds the entry has all the leader of its term had before it.
LEMMA HeldIsTraced ==
  ASSUME NEW h, NEW L \in Log, Traced(L, h), NEW t \in Nat, NEW i \in Nat, Holds(L, t, i)
  PROVE  i \in 1..Len(L) /\ i <= Len(h[t]) /\ \A j \in 1..i : L[j] = h[t][j]
BY DEF Traced, Holds

\* The terms in a log never go down.
LEMMA TermsSorted ==
  ASSUME NEW h \in [Nat -> Log], NEW L \in Log, Traced(L, h),
         \A t \in Nat : \A i \in 1..Len(h[t]) : h[t][i].term <= t,
         NEW i \in 1..Len(L), NEW j \in 1..i
  PROVE  L[j].term <= L[i].term
<1>1. Len(L) \in Nat /\ L[i].term \in Nat
  BY LogType
<1>2. i <= Len(h[L[i].term]) /\ L[j] = h[L[i].term][j]
  BY DEF Traced
<1>3. Len(h[L[i].term]) \in Nat
  BY <1>1, LogType
<1>4. j \in 1..Len(h[L[i].term])
  BY <1>1, <1>2, <1>3
<1> QED BY <1>1, <1>2, <1>4

\* What begins a traced log is traced.
LEMMA PrefixTraced ==
  ASSUME NEW h, NEW K \in Log, NEW L \in Log, PrefixOf(K, L), Traced(L, h)
  PROVE  Traced(K, h)
<1>1. Len(K) \in Nat /\ Len(L) \in Nat
  BY LogType
<1> SUFFICES ASSUME NEW i \in 1..Len(K)
             PROVE  i <= Len(h[K[i].term]) /\ \A j \in 1..i : K[j] = h[K[i].term][j]
  BY DEF Traced
<1>2. i \in 1..Len(L) /\ \A j \in 1..i : K[j] = L[j]
  BY <1>1 DEF PrefixOf
<1>3. K[i] = L[i]
  BY <1>2
<1> QED BY <1>2, <1>3 DEF Traced

\* Traced logs agree.
LEMMA TracedAgree ==
  ASSUME NEW h, NEW K \in Log, NEW L \in Log, Traced(K, h), Traced(L, h)
  PROVE  Agree(K, L)
<1>1. Len(K) \in Nat /\ Len(L) \in Nat
  BY LogType
<1> SUFFICES ASSUME NEW i \in 1..Len(K), i <= Len(L), K[i].term = L[i].term,
                    NEW j \in 1..i
             PROVE  K[j] = L[j]
  BY DEF Agree
<1> QED BY <1>1 DEF Traced

\* The up-to-date check: a candidate it lets pass has what the voter has, or the
\* leader that wrote the candidate's last entry was elected without it.
LEMMA UpToDateHolds ==
  ASSUME NEW h \in [Nat -> Log], NEW K \in Log, NEW L \in Log, Traced(K, h), Traced(L, h),
         \A t \in Nat : \A i \in 1..Len(h[t]) : h[t][i].term <= t,
         \A t \in Nat : Traced(h[t], h),
         NEW t \in Nat \ {0}, NEW i \in Nat, Holds(K, t, i),
         CandidateIsUpToDate(K, LastTerm(L), Len(L))
  PROVE  Holds(L, t, i) \/ Lacks(h, LastTerm(L), t, i)
<1> DEFINE k == Len(K)
           l == Len(L)
           s == LastTerm(L)
<1>1. k \in Nat /\ l \in Nat
  BY LogType
<1>2. /\ i \in 1..k /\ K[i].term = t
      /\ i <= Len(h[t]) /\ \A j \in 1..i : K[j] = h[t][j]
  <2>1. t \in Nat
    OBVIOUS
  <2>2. i \in 1..k /\ i <= Len(h[t]) /\ \A j \in 1..i : K[j] = h[t][j]
    BY <2>1, HeldIsTraced
  <2> QED BY <2>2 DEF Holds
<1>3. LastTerm(K) = K[k].term /\ K[k].term >= t /\ K[k].term \in Nat
  <2>1. k # 0
    BY <1>1, <1>2
  <2>2. k \in 1..k /\ i \in 1..k
    BY <1>1, <1>2
  <2>3. K[i].term <= K[k].term
    BY <2>2, TermsSorted
  <2>4. K[k].term \in Nat
    BY <2>2, LogType
  <2> QED BY <1>2, <2>1, <2>3, <2>4 DEF LastTerm, TermAt
<1>4. s \in Nat /\ s >= t /\ (s = t => l >= i)
  <2>1. s \in Nat
    BY <1>1, TermAtType DEF LastTerm
  <2>2. s > LastTerm(K) \/ (s = LastTerm(K) /\ l >= k)
    BY DEF CandidateIsUpToDate
  <2>3. LastTerm(K) \in Nat /\ LastTerm(K) >= t
    BY <1>3
  <2> HIDE DEF s, k, l
  <2> QED BY <1>1, <1>2, <2>1, <2>2, <2>3
<1>5. l # 0
  BY <1>1, <1>4 DEF LastTerm, TermAt
<1>6. l \in 1..l /\ s = L[l].term
  BY <1>1, <1>5 DEF LastTerm, TermAt
<1>7. l <= Len(h[s]) /\ \A j \in 1..l : L[j] = h[s][j]
  BY <1>6 DEF Traced
<1>8. Len(h[s]) \in Nat
  BY <1>4, LogType
<1>9. CASE s = t
  <2>1. i \in 1..l
    BY <1>1, <1>2, <1>4, <1>9
  <2>2. L[i] = h[t][i] /\ K[i] = h[t][i]
    BY <1>2, <1>7, <1>9, <2>1
  <2> QED BY <1>2, <2>1, <2>2 DEF Holds
<1>10. CASE s > t /\ Holds(h[s], t, i)
  <2>1. i \in 1..Len(h[s]) /\ h[s][i].term = t
    BY <1>10 DEF Holds
  <2>2. i <= l
    <3> SUFFICES ASSUME i > l PROVE FALSE
      BY <1>1, <1>2
    <3>1. l \in 1..i
      BY <1>1, <1>2, <1>6
    <3>2. h[s] \in Log /\ Traced(h[s], h)
      BY <1>4
    <3>3. h[s][l].term <= h[s][i].term
      BY <2>1, <3>1, <3>2, TermsSorted
    <3>4. h[s][l].term = s
      BY <1>6, <1>7
    <3> QED BY <1>4, <1>10, <2>1, <3>3, <3>4
  <2>3. i \in 1..l /\ L[i] = h[s][i]
    BY <1>1, <1>2, <1>7, <2>2
  <2> QED BY <2>1, <2>3 DEF Holds
<1>11. CASE s > t /\ ~ Holds(h[s], t, i)
  <2>1. Len(h[s]) > 0
    BY <1>1, <1>5, <1>7, <1>8
  <2> QED BY <1>11, <2>1 DEF Lacks
<1> QED BY <1>4, <1>9, <1>10, <1>11

-----------------------------------------------------------------------------
(***************************************************************************)
(* Requests and merges.                                                    *)
(***************************************************************************)
\* The entries of L after prev, all of them if L is not longer than max.
CutFrom(batch, L, prev, max) ==
    /\ batch \in Log
    /\ prev + Len(batch) <= Len(L)
    /\ Len(L) <= max => prev + Len(batch) = Len(L)
    /\ \A k \in 1..Len(batch) : batch[k] = L[prev + k]

\* A batch is a slice of the log it is taken from.
LEMMA BatchIsSlice ==
  ASSUME NEW L \in Log, NEW prev \in 0..Len(L), NEW max \in Nat
  PROVE  CutFrom(Batch(L, prev, max), L, prev, max)
<1> DEFINE last == Min({Len(L), prev + max})
           first == prev + 1
<1>1. Len(L) \in Nat /\ prev \in Nat
  BY LogType
<1>2. last \in prev..Len(L) /\ (Len(L) <= max => last = Len(L))
  BY <1>1, MinOfTwo
<1>3. last \in Int /\ first \in Int /\ first = prev + 1
  BY <1>1, <1>2
<1> HIDE DEF last
<1>4. \A i \in first..last : L[i] \in Entry
  BY <1>1, <1>2, LogType
<1> HIDE DEF first
<1>5. /\ SubSeq(L, first, last) \in Seq(Entry)
      /\ Len(SubSeq(L, first, last)) = IF first <= last THEN last - first + 1 ELSE 0
      /\ \A i \in 1..last - first + 1 : SubSeq(L, first, last)[i] = L[first + i - 1]
  BY <1>3, <1>4, SubSeqProperties
<1>6. Batch(L, prev, max) = SubSeq(L, first, last)
  BY DEF Batch, first, last
<1>7. Len(SubSeq(L, first, last)) = last - prev
  BY <1>1, <1>2, <1>3, <1>5
<1>8. \A k \in 1..last - prev : SubSeq(L, first, last)[k] = L[prev + k]
  BY <1>1, <1>2, <1>3, <1>5
<1> DEFINE B == Batch(L, prev, max)
<1>9. B \in Seq(Entry) /\ Len(B) = last - prev /\ \A k \in 1..last - prev : B[k] = L[prev + k]
  BY <1>5, <1>6, <1>7, <1>8
<1> HIDE DEF B
<1>10. /\ prev + Len(B) <= Len(L) /\ (Len(L) <= max => prev + Len(B) = Len(L))
       /\ \A k \in 1..Len(B) : B[k] = L[prev + k]
  BY <1>1, <1>2, <1>9
<1> QED BY <1>9, <1>10 DEF Log, B, CutFrom

\* What begins a log that a request is cut from, the request is cut from too.
LEMMA SliceGrows ==
  ASSUME NEW m, m.prev \in Nat, m.entries \in Log,
         NEW K \in Log, NEW L \in Log, Slice(m, K), PrefixOf(K, L)
  PROVE  Slice(m, L)
<1>1. Len(K) \in Nat /\ Len(L) \in Nat /\ Len(m.entries) \in Nat
  BY LogType
<1>2. TermAt(L, m.prev) = TermAt(K, m.prev)
  <2>1. m.prev # 0 => m.prev \in 1..Len(K)
    BY <1>1 DEF Slice
  <2> QED BY <2>1 DEF TermAt, PrefixOf
<1>3. ASSUME NEW k \in 1..Len(m.entries)
      PROVE  m.entries[k] = L[m.prev + k]
  <2>1. m.prev + k \in 1..Len(K)
    BY <1>1 DEF Slice
  <2>2. K[m.prev + k] = L[m.prev + k]
    BY <2>1 DEF PrefixOf
  <2> QED BY <2>2 DEF Slice
<1>4. m.prev + Len(m.entries) <= Len(L)
  BY <1>1 DEF PrefixOf, Slice
<1>5. TermAt(L, m.prev) = m.prev_term
  BY <1>2 DEF Slice
<1> QED BY <1>3, <1>4, <1>5 DEF Slice

\* What append_new_entries makes of a log and a request: the log as it was, that
\* has all the request holds, or the request and all that precedes it.
LEMMA MergeEither ==
  ASSUME NEW m, NEW lg \in Log, NEW L \in Log, m.prev \in Nat, m.entries \in Log,
         Slice(m, L), Agree(lg, L), HasEntry(lg, m.prev, m.prev_term)
  PROVE  LET merged == AppendNewEntries(lg, m.prev, m.entries)
         IN  \/ merged = lg /\ Disagreements(lg, m.prev, m.entries) = {}
             \/ PrefixOf(merged, L) /\ Len(merged) = m.prev + Len(m.entries)
<1> DEFINE prev == m.prev
           batch == m.entries
           D == Disagreements(lg, prev, batch)
           kept == KeptLength(lg, prev, batch)
           merged == AppendNewEntries(lg, prev, batch)
<1>1. /\ Len(lg) \in Nat /\ Len(L) \in Nat /\ Len(batch) \in Nat
      /\ lg \in Seq(Entry) /\ batch \in Seq(Entry)
  BY LogType
<1>2. /\ prev \in 0..Len(lg)
      /\ TermAt(lg, prev) = TermAt(L, prev)
      /\ prev + Len(batch) <= Len(L)
      /\ \A k \in 1..Len(batch) : batch[k] = L[prev + k]
  BY DEF HasEntry, Slice
<1>3. CASE D = {}
  BY <1>3 DEF AppendNewEntries
<1>4. CASE D # {}
  <2>1. /\ kept = prev + Min(D) - 1
        /\ Min(D) \in 1..Len(batch) /\ \A j \in D : Min(D) <= j
    BY <1>1, <1>4, MinIsLeast, D \in SUBSET Nat DEF KeptLength, Disagreements
  <2>2. kept \in prev..Len(lg) /\ kept - prev < Len(batch)
    BY <1>1, <1>2, <1>4, KeptLengthBounds
  <2>3. kept # 0 => lg[kept].term = L[kept].term
    <3>1. CASE Min(D) = 1
      <4>1. kept = prev
        BY <1>2, <2>1, <3>1
      <4> HIDE DEF kept, prev
      <4> QED BY <1>2, <4>1 DEF TermAt
    <3>2. CASE Min(D) # 1
      <4> DEFINE j == Min(D) - 1
      <4>1. j \in 1..Len(batch) /\ j \notin D /\ kept = prev + j
        BY <1>1, <1>2, <2>1, <3>2
      <4> HIDE DEF j
      <4>2. HasEntry(lg, prev + j, batch[j].term)
        BY <4>1 DEF Disagreements
      <4>3. prev + j # 0 /\ batch[j] = L[prev + j]
        BY <1>2, <4>1
      <4> QED BY <4>1, <4>2, <4>3 DEF HasEntry, TermAt
    <3> QED BY <3>1, <3>2
  <2>4. \A i \in 1..kept : lg[i] = L[i]
    <3> HIDE DEF kept, prev, batch
    <3>1. CASE kept = 0
      BY <3>1
    <3>2. CASE kept # 0
      <4>1. kept <= Len(L) /\ kept \in 1..Len(lg)
        BY <1>1, <1>2, <2>2, <3>2
      <4> QED BY <2>3, <3>2, <4>1 DEF Agree
    <3> QED BY <3>1, <3>2
  <2> DEFINE head == SubSeq(lg, 1, kept)
             first == kept - prev + 1
             tail == SubSeq(batch, first, Len(batch))
  <2>5. head \in Seq(Entry) /\ Len(head) = kept /\ \A i \in 1..kept : head[i] = lg[i]
    BY <1>1, <1>2, <2>2, SubSeqProperties
  <2>6. first \in 1..Len(batch) /\ first = kept - prev + 1
    BY <1>1, <1>2, <2>2
  <2>7. merged = head \o tail
    BY <1>4 DEF AppendNewEntries
  <2> HIDE DEF first, kept, prev, batch, head, merged
  <2>8. /\ tail \in Seq(Entry) /\ Len(tail) = Len(batch) - first + 1
        /\ \A k \in 1..Len(tail) : tail[k] = batch[first + k - 1]
    BY <1>1, <2>6, SubSeqProperties
  <2> HIDE DEF tail
  <2>9. /\ Len(head \o tail) = Len(head) + Len(tail)
        /\ \A i \in 1..Len(head) + Len(tail) :
              (head \o tail)[i] = IF i <= Len(head) THEN head[i]
                                                     ELSE tail[i - Len(head)]
    BY <2>5, <2>8, ConcatProperties, Zenon
  <2>10. Len(merged) = prev + Len(batch)
    BY <1>1, <1>2, <2>2, <2>5, <2>6, <2>7, <2>8, <2>9
  <2>11. ASSUME NEW i \in 1..Len(merged) PROVE merged[i] = L[i]
    <3>1. i \in Nat /\ i \in 1..Len(head) + Len(tail)
      BY <1>1, <2>7, <2>9, <2>10
    <3>2. CASE i <= kept
      <4>1. i \in 1..kept /\ i <= Len(head)
        BY <1>2, <2>2, <2>5, <3>1, <3>2
      <4>2. merged[i] = head[i] /\ head[i] = lg[i]
        BY <2>5, <2>7, <2>9, <3>1, <4>1
      <4> QED BY <2>4, <4>1, <4>2
    <3>3. CASE i > kept
      <4> DEFINE k == i - kept
      <4>1. k \in 1..Len(tail) /\ merged[i] = tail[k]
        BY <2>5, <2>7, <2>9, <3>1, <3>3, <2>2, <1>2, <1>1
      <4> DEFINE len == Len(batch)
      <4>2. /\ i \in Nat /\ kept \in Nat /\ prev \in Nat /\ len \in Nat
            /\ i > kept /\ kept >= prev /\ i <= prev + len
        BY <1>1, <1>2, <2>2, <2>10, <3>1, <3>3
      <4>3. first = kept - prev + 1
        BY <2>6
      <4> HIDE DEF len
      <4>4. first + k - 1 = i - prev /\ i - prev \in 1..len /\ prev + (i - prev) = i
        BY <4>2, <4>3
      <4>5. first + k - 1 = i - prev /\ i - prev \in 1..Len(batch) /\ prev + (i - prev) = i
        BY <4>4 DEF len
      <4>6. batch[i - prev] = L[prev + (i - prev)]
        BY <1>2, <4>5
      <4> QED BY <2>8, <4>1, <4>5, <4>6
    <3> QED BY <3>1, <3>2, <3>3, <2>2, <1>2, <1>1
  <2>12. PrefixOf(merged, L)
    BY <1>1, <1>2, <2>10, <2>11 DEF PrefixOf
  <2> QED BY <2>10, <2>12 DEF merged, prev, batch
<1> QED BY <1>3, <1>4

\* A merge keeps what the log has in common with the leader's.
LEMMA MergeKeeps ==
  ASSUME NEW m, NEW lg \in Log, NEW L \in Log, m.prev \in Nat, m.entries \in Log,
         Slice(m, L), HasEntry(lg, m.prev, m.prev_term),
         NEW k \in Nat, k <= Len(lg), k <= Len(L), \A j \in 1..k : lg[j] = L[j]
  PROVE  LET merged == AppendNewEntries(lg, m.prev, m.entries)
         IN  merged \in Log /\ k <= Len(merged) /\ \A j \in 1..k : merged[j] = lg[j]
<1> DEFINE prev == m.prev
           batch == m.entries
           D == Disagreements(lg, prev, batch)
           kept == KeptLength(lg, prev, batch)
<1>1. Len(lg) \in Nat /\ Len(L) \in Nat /\ Len(batch) \in Nat /\ prev \in Nat
  BY LogType
<1>2. k <= kept
  <2>1. CASE D = {}
    BY <2>1 DEF KeptLength
  <2>2. CASE D # {}
    <3>1. kept = prev + Min(D) - 1 /\ Min(D) \in D /\ Min(D) \in 1..Len(batch)
      BY <1>1, <2>2, MinIsLeast, D \in SUBSET Nat DEF KeptLength, Disagreements
    <3>2. PICK x \in 1..Len(batch) : x = Min(D)
      BY <3>1
    <3>3. ~ HasEntry(lg, prev + x, batch[x].term)
      BY <3>1, <3>2 DEF Disagreements
    <3>4. batch[x] = L[prev + x]
      BY <3>2 DEF Slice
    <3> HIDE DEF prev, batch
    <3>5. prev + x > k
      <4> SUFFICES ASSUME prev + x <= k PROVE FALSE
        BY <1>1
      <4>1. prev + x \in 1..k /\ prev + x \in 0..Len(lg) /\ prev + x # 0
        BY <1>1
      <4>2. lg[prev + x] = batch[x]
        BY <3>4, <4>1
      <4> QED BY <3>3, <4>1, <4>2 DEF HasEntry, TermAt
    <3>6. k <= prev + x - 1
      BY <1>1, <3>5
    <3> QED BY <3>1, <3>2, <3>6 DEF prev, batch
  <2> QED BY <2>1, <2>2
<1>3. prev \in 0..Len(lg) /\ lg \in Seq(Entry) /\ batch \in Seq(Entry)
  BY LogType DEF HasEntry
<1>4. kept \in prev..Len(lg)
  BY <1>3, KeptLengthBounds
<1>5. LET merged == AppendNewEntries(lg, prev, batch)
      IN  merged \in Seq(Entry) /\ kept <= Len(merged) /\ \A j \in 1..kept : merged[j] = lg[j]
  BY <1>3, MergeProperties
<1>6. Len(AppendNewEntries(lg, prev, batch)) \in Nat
  BY <1>5, LenProperties
<1> HIDE DEF kept
<1>7. k <= Len(AppendNewEntries(lg, prev, batch))
  BY <1>1, <1>2, <1>4, <1>5, <1>6
<1>8. \A j \in 1..k : AppendNewEntries(lg, prev, batch)[j] = lg[j]
  BY <1>1, <1>2, <1>4, <1>5
<1> QED BY <1>5, <1>7, <1>8 DEF Log

\* After a merge the log is the leader's up to the last entry of the request.
LEMMA MergeCovers ==
  ASSUME NEW m, NEW lg \in Log, NEW L \in Log, m.prev \in Nat, m.entries \in Log,
         Slice(m, L), Agree(lg, L), HasEntry(lg, m.prev, m.prev_term),
         NEW i \in 1..m.prev + Len(m.entries)
  PROVE  LET merged == AppendNewEntries(lg, m.prev, m.entries)
         IN  i <= Len(merged) /\ merged[i] = L[i]
<1> DEFINE prev == m.prev
           batch == m.entries
           last == prev + Len(batch)
           merged == AppendNewEntries(lg, prev, batch)
<1>1. /\ Len(lg) \in Nat /\ Len(L) \in Nat /\ Len(batch) \in Nat
      /\ prev \in Nat /\ last \in Nat /\ last <= Len(L)
  BY LogType DEF Slice
<1>2. \/ merged = lg /\ Disagreements(lg, prev, batch) = {}
      \/ PrefixOf(merged, L) /\ Len(merged) = last
  BY MergeEither
<1>3. CASE merged = lg /\ Disagreements(lg, prev, batch) = {}
  <2>1. last \in 1..Len(lg) /\ lg[last].term = L[last].term
    <3>1. CASE Len(batch) = 0
      <4>1. HasEntry(lg, last, m.prev_term) /\ TermAt(L, last) = m.prev_term
        BY <1>1, <3>1 DEF Slice
      <4>2. last # 0
        BY <1>1
      <4> HIDE DEF last
      <4> QED BY <1>1, <4>1, <4>2 DEF HasEntry, TermAt
    <3>2. CASE Len(batch) # 0
      <4> DEFINE x == Len(batch)
      <4>1. x \in 1..Len(batch) /\ last = prev + x
        BY <1>1, <3>2
      <4>2. HasEntry(lg, prev + x, batch[x].term)
        BY <1>3, <4>1 DEF Disagreements
      <4>3. batch[x] = L[prev + x]
        BY <4>1 DEF Slice
      <4>4. last # 0
        BY <1>1, <3>2
      <4> HIDE DEF x, last
      <4> QED BY <1>1, <4>1, <4>2, <4>3, <4>4 DEF HasEntry, TermAt
    <3> QED BY <3>1, <3>2
  <2>2. i \in 1..last /\ i <= Len(lg)
    BY <1>1, <2>1
  <2>3. lg[i] = L[i]
    BY <1>1, <2>1, <2>2 DEF Agree
  <2> QED BY <1>3, <2>2, <2>3
<1>4. CASE PrefixOf(merged, L) /\ Len(merged) = last
  <2> HIDE DEF merged
  <2>1. i \in 1..Len(merged)
    BY <1>4
  <2>2. i <= Len(merged) /\ merged[i] = L[i]
    BY <1>1, <1>4, <2>1 DEF PrefixOf
  <2> QED BY <2>2 DEF merged
<1> QED BY <1>2, <1>3, <1>4

-----------------------------------------------------------------------------
(***************************************************************************)
(* Majorities, and what one of them acknowledged.                          *)
(***************************************************************************)
\* Two majorities share a server.
LEMMA MajoritiesMeet ==
  ASSUME IsFiniteSet(Server), NEW S \in SUBSET Server, NEW U \in SUBSET Server,
         IsMajority(S), IsMajority(U)
  PROVE  \E v \in Server : v \in S /\ v \in U
<1>1. /\ Cardinality(Server) \in Nat
      /\ Cardinality(S) \in Nat /\ Cardinality(U) \in Nat
  BY FS_CardinalityType, FS_Subset
<1>2. Cardinality(S) + Cardinality(U) > Cardinality(Server)
  BY <1>1 DEF IsMajority
<1>3. S \cap U # {}
  BY <1>2, FS_MajoritiesIntersect
<1> QED BY <1>3

\* With more servers a majority is one still.
LEMMA MajorityGrows ==
  ASSUME IsFiniteSet(Server), NEW S \in SUBSET Server, NEW U \in SUBSET Server,
         S \subseteq U, IsMajority(S)
  PROVE  IsMajority(U)
<1>1. /\ Cardinality(Server) \in Nat
      /\ Cardinality(S) \in Nat /\ Cardinality(U) \in Nat
      /\ Cardinality(S) <= Cardinality(U)
  BY FS_CardinalityType, FS_Subset
<1> QED BY <1>1 DEF IsMajority

\* Every later leader has what a majority acknowledged.
LEMMA ChosenIsHeld ==
  ASSUME IsFiniteSet(Server), NEW T, NEW D, NEW L, NEW h, NEW a, NEW w,
         Sound(T, D, L, h, a, w), NEW t \in Nat, NEW i \in Nat, Chosen(h, a, t, i),
         NEW u \in Nat, u >= t, Len(h[u]) > 0
  PROVE  Holds(h[u], t, i) /\ \A j \in 1..i : h[u][j] = h[t][j]
<1>1. Types(T, D, L, h, a, w) /\ LostIsBlocked(T, h, a) /\ Traced(h[u], h)
  BY DEF Sound, Written
<1>2. h[u] \in Log
  BY <1>1 DEF Types
<1>3. Holds(h[u], t, i)
  <2>1. CASE u = t
    BY <2>1 DEF Chosen
  <2>2. CASE u > t
    <3> SUFFICES ASSUME ~ Holds(h[u], t, i) PROVE FALSE
      OBVIOUS
    <3>1. Lost(h, t, i)
      BY <2>2 DEF Lost, Lacks
    <3>2. PICK V \in SUBSET Server : Blocks(T, a, V, t, i)
      BY <1>1, <3>1 DEF LostIsBlocked, Chosen
    <3> DEFINE Q == {p \in Server : a[p][t] >= i}
    <3>3. IsMajority(V) /\ IsMajority(Q) /\ Q \in SUBSET Server
      BY <3>2 DEF Blocks, Chosen
    <3>4. PICK q \in Server : q \in V /\ q \in Q
      BY <3>3, MajoritiesMeet
    <3>5. a[q][t] < i
      BY <3>2, <3>4 DEF Blocks
    <3>6. a[q][t] \in Nat
      BY <1>1 DEF Types
    <3> QED BY <3>4, <3>5, <3>6
  <2> QED BY <2>1, <2>2
<1>4. \A j \in 1..i : h[u][j] = h[t][j]
  BY <1>1, <1>2, <1>3, HeldIsTraced
<1> QED BY <1>3, <1>4

\* What was chosen stays so.
LEMMA ChosenGrows ==
  ASSUME IsFiniteSet(Server), NEW h \in [Nat -> Log], NEW a \in [Server -> [Nat -> Nat]],
         NEW h2 \in [Nat -> Log], NEW a2 \in [Server -> [Nat -> Nat]], Grows(h, a, h2, a2),
         NEW t \in Nat, NEW i \in Nat, Chosen(h, a, t, i)
  PROVE  Chosen(h2, a2, t, i)
<1>1. h[t] \in Log /\ h2[t] \in Log /\ PrefixOf(h[t], h2[t])
  BY DEF Grows
<1>2. Len(h[t]) \in Nat /\ Len(h2[t]) \in Nat
  BY <1>1, LogType
<1>3. Holds(h2[t], t, i)
  BY <1>1, <1>2 DEF Chosen, Holds, PrefixOf
<1> DEFINE Q == {p \in Server : a[p][t] >= i}
           R == {p \in Server : a2[p][t] >= i}
<1>4. \A p \in Server : a[p][t] \in Nat /\ a2[p][t] \in Nat /\ a2[p][t] >= a[p][t]
  BY DEF Grows
<1>5. Q \subseteq R /\ Q \in SUBSET Server /\ R \in SUBSET Server
  BY <1>4
<1>6. IsMajority(Q)
  BY DEF Chosen
<1> HIDE DEF Q, R
<1>7. IsMajority(R)
  BY <1>5, <1>6, MajorityGrows
<1> QED BY <1>3, <1>7 DEF Chosen, R

\* What was decided stays so, for a log that keeps it.
LEMMA DecidedGrows ==
  ASSUME IsFiniteSet(Server), NEW h \in [Nat -> Log], NEW a \in [Server -> [Nat -> Nat]],
         NEW h2 \in [Nat -> Log], NEW a2 \in [Server -> [Nat -> Nat]], Grows(h, a, h2, a2),
         NEW K \in Log, NEW K2 \in Log, NEW c \in Nat, NEW c2 \in 0..c,
         NEW u \in Nat, NEW u2 \in Nat, u <= u2, Decided(h, a, K, c, u),
         c2 <= Len(K2), \A j \in 1..c2 : K2[j] = K[j]
  PROVE  Decided(h2, a2, K2, c2, u2)
<1>1. CASE c2 = 0
  BY <1>1 DEF Decided
<1>2. CASE c2 # 0
  <2>1. PICK t \in Nat, i \in Nat :
           /\ t <= u /\ Chosen(h, a, t, i) /\ c <= i
           /\ c <= Len(K) /\ \A j \in 1..c : K[j] = h[t][j]
    BY <1>2 DEF Decided
  <2>2. Chosen(h2, a2, t, i)
    BY <2>1, ChosenGrows
  <2>3. h[t] \in Log /\ h2[t] \in Log /\ PrefixOf(h[t], h2[t]) /\ i \in 1..Len(h[t])
    BY <2>1 DEF Grows, Chosen, Holds
  <2>4. Len(h[t]) \in Nat
    BY <2>3, LogType
  <2>5. \A j \in 1..c2 : j \in 1..c /\ j \in 1..Len(h[t])
    BY <2>1, <2>3, <2>4
  <2>6. \A j \in 1..c2 : K2[j] = h2[t][j]
    BY <2>1, <2>3, <2>5 DEF PrefixOf
  <2>7. t <= u2 /\ c2 <= i
    BY <2>1
  <2> QED BY <2>2, <2>6, <2>7 DEF Decided
<1> QED BY <1>1, <1>2

\* Two logs have in common what was decided of both.
LEMMA DecidedAgree ==
  ASSUME IsFiniteSet(Server), NEW T, NEW D, NEW L, NEW h, NEW a, NEW w,
         Sound(T, D, L, h, a, w), NEW K \in Log, NEW M \in Log, NEW c \in Nat, NEW d \in Nat,
         NEW u \in Nat, NEW v \in Nat, Decided(h, a, K, c, u), Decided(h, a, M, d, v),
         NEW j \in Nat \ {0}, j <= c, j <= d
  PROVE  K[j] = M[j]
<1>1. PICK t \in Nat, i \in Nat :
         Chosen(h, a, t, i) /\ c <= i /\ \A k \in 1..c : K[k] = h[t][k]
  BY DEF Decided
<1>2. PICK s \in Nat, l \in Nat :
         Chosen(h, a, s, l) /\ d <= l /\ \A k \in 1..d : M[k] = h[s][k]
  BY DEF Decided
<1>3. h[t] \in Log /\ h[s] \in Log
  BY DEF Sound, Types
<1>4. Len(h[t]) > 0 /\ Len(h[s]) > 0
  BY <1>1, <1>2, <1>3, LogType DEF Chosen, Holds
<1>5. j \in 1..i /\ j \in 1..l /\ j \in 1..c /\ j \in 1..d
  BY <1>1, <1>2
<1>6. h[t][j] = h[s][j]
  <2>1. CASE t <= s
    <3>1. Chosen(h, a, t, i) /\ s >= t /\ Len(h[s]) > 0
      BY <1>1, <1>4, <2>1
    <3>2. \A k \in 1..i : h[s][k] = h[t][k]
      BY <3>1, ChosenIsHeld
    <3> QED BY <1>5, <3>2
  <2>2. CASE s <= t
    <3>1. Chosen(h, a, s, l) /\ t >= s /\ Len(h[t]) > 0
      BY <1>2, <1>4, <2>2
    <3>2. \A k \in 1..l : h[t][k] = h[s][k]
      BY <3>1, ChosenIsHeld
    <3> QED BY <1>5, <3>2
  <2> QED BY <2>1, <2>2
<1> QED BY <1>1, <1>2, <1>5, <1>6

-----------------------------------------------------------------------------
(***************************************************************************)
(* What a step makes of the invariant: terms that rise, a merge, and a     *)
(* leader's new entry, its first one included.                             *)
(***************************************************************************)
\* A term is one that somebody has, or that somebody led.
Known(T, h, t) == (\E p \in Server : t <= T[p]) \/ Len(h[t]) > 0

\* A known term is not above the highest.
LEMMA KnownIsBelow ==
  ASSUME NEW T \in [Server -> Nat], NEW h \in [Nat -> Log], NEW top \in Nat, Top(T, h, top),
         NEW t \in Nat, Known(T, h, t)
  PROVE  t <= top
<1>1. Len(h[t]) \in Nat
  BY LogType
<1>2. ASSUME Len(h[t]) > 0 PROVE t <= top
  BY <1>1, <1>2 DEF Top
<1>3. ASSUME NEW p \in Server, t <= T[p] PROVE t <= top
  <2>1. T[p] \in Nat /\ T[p] <= top
    BY DEF Top
  <2> QED BY <1>3, <2>1
<1> QED BY <1>2, <1>3 DEF Known

\* Nodes move to terms that are known, or stop leading.
LEMMA TermsRise ==
  ASSUME IsFiniteSet(Server), NEW T, NEW D, NEW L, NEW h, NEW a, NEW w,
         Sound(T, D, L, h, a, w),
         NEW T2 \in [Server -> Nat], NEW D2 \in [Server -> BOOLEAN],
         \A n \in Server : T2[n] >= T[n],
         \A n \in Server : Known(T, h, T2[n]),
         \A n \in Server : D2[n] => D[n] /\ T2[n] = T[n]
  PROVE  Sound(T2, D2, L, h, a, w)
<1>1. Types(T, D, L, h, a, w) /\ Types(T2, D2, L, h, a, w)
  BY DEF Sound, Types
<1>2. \A n \in Server : T[n] \in Nat /\ T2[n] \in Nat /\ L[n] \in Log
  BY <1>1 DEF Types
<1>3. Written(T2, D2, L, h)
  <2>1. Written(T, D, L, h)
    BY DEF Sound
  <2>2. ASSUME NEW n \in Server, NEW i \in 1..Len(L[n]) PROVE L[n][i].term <= T2[n]
    <3>1. L[n][i].term \in Nat /\ L[n][i].term <= T[n]
      BY <1>2, <2>1, LogType DEF Written
    <3> QED BY <1>2, <3>1
  <2>3. ASSUME NEW n \in Server, D2[n] PROVE L[n] = h[T2[n]] /\ Len(h[T2[n]]) > 0
    BY <2>1, <2>3 DEF Written
  <2>4. ASSUME NEW n \in Server, NEW p \in Server, D2[n], D2[p], T2[n] = T2[p] PROVE n = p
    BY <2>1, <2>4 DEF Written
  <2> QED BY <2>1, <2>2, <2>3, <2>4 DEF Written
<1>4. \E top \in Nat : Top(T2, h, top)
  <2>1. PICK top \in Nat : Top(T, h, top)
    BY DEF Sound
  <2>2. \A n \in Server : T2[n] <= top
    <3> TAKE n \in Server
    <3>1. T2[n] \in Nat /\ Known(T, h, T2[n])
      BY <1>2
    <3>2. T \in [Server -> Nat] /\ h \in [Nat -> Log]
      BY <1>1 DEF Types
    <3> QED BY <2>1, <3>1, <3>2, KnownIsBelow
  <2> DEFINE Q == {n \in Server : T[n] = top}
             R == {n \in Server : T2[n] = top}
  <2>3. Q \subseteq R
    BY <1>2, <2>2
  <2>4. IsMajority(R)
    <3>1. Q \in SUBSET Server /\ R \in SUBSET Server /\ IsMajority(Q)
      BY <2>1 DEF Top
    <3> HIDE DEF Q, R
    <3> QED BY <2>3, <3>1, MajorityGrows
  <2>5. Top(T2, h, top)
    BY <2>1, <2>2, <2>4 DEF Top
  <2> QED BY <2>5
<1>5. Acknowledged(T2, D2, L, h, a)
  <2>1. Acknowledged(T, D, L, h, a)
    BY DEF Sound
  <2>2. ASSUME NEW p \in Server, NEW t \in Nat
        PROVE  a[p][t] <= Len(h[t]) /\ (a[p][t] > 0 => T2[p] >= t)
    BY <1>2, <2>1 DEF Acknowledged
  <2>3. ASSUME NEW n \in Server, D2[n] PROVE a[n][T2[n]] = Len(L[n])
    BY <2>1, <2>3 DEF Acknowledged
  <2> QED BY <2>2, <2>3 DEF Acknowledged
<1>6. LostIsBlocked(T2, h, a)
  <2> SUFFICES ASSUME NEW t \in Nat, NEW i \in Nat, Holds(h[t], t, i), Lost(h, t, i)
               PROVE  \E V \in SUBSET Server : Blocks(T2, a, V, t, i)
    BY DEF LostIsBlocked
  <2>1. PICK V \in SUBSET Server : Blocks(T, a, V, t, i)
    BY DEF Sound, LostIsBlocked
  <2>2. \A q \in V : T2[q] > t /\ a[q][t] < i
    BY <1>2, <2>1 DEF Blocks
  <2>3. Blocks(T2, a, V, t, i)
    BY <2>1, <2>2 DEF Blocks
  <2> QED BY <2>3
<1>7. Short(T2, L, h, w)
  <2>1. Short(T, L, h, w) /\ w \in Nat
    BY <1>1 DEF Sound, Types
  <2>2. ASSUME NEW n \in Server PROVE Len(L[n]) <= T2[n] + w
    <3>1. Len(L[n]) \in Nat /\ Len(L[n]) <= T[n] + w
      BY <1>2, <2>1, LogType DEF Short
    <3> QED BY <1>2, <2>1, <3>1
  <2> QED BY <2>1, <2>2 DEF Short
<1>8. Stored(L, h, a)
  BY DEF Sound
<1> QED BY <1>1, <1>3, <1>4, <1>5, <1>6, <1>7, <1>8 DEF Sound

\* The acknowledgements a, and that p has the history of t up to i.
Acks(a, p, t, i) ==
    [q \in Server |->
        [s \in Nat |-> IF q = p /\ s = t /\ i > a[q][s] THEN i ELSE a[q][s]]]

\* a2 is a, and that p has the history of t up to i.
OneMore(a, p, t, i, a2) ==
    /\ a2 \in [Server -> [Nat -> Nat]]
    /\ a2[p][t] >= i
    /\ \A q \in Server, s \in Nat : a2[q][s] >= a[q][s]
    /\ \A q \in Server, s \in Nat : q # p \/ s # t => a2[q][s] = a[q][s]
    /\ \A q \in Server, s \in Nat : a2[q][s] = a[q][s] \/ (q = p /\ s = t /\ a2[q][s] = i)

\* An acknowledgement more.
LEMMA AcksGrow ==
  ASSUME NEW a \in [Server -> [Nat -> Nat]], NEW p \in Server, NEW t \in Nat, NEW i \in Nat
  PROVE  OneMore(a, p, t, i, Acks(a, p, t, i))
<1>2. \A q \in Server, s \in Nat : a[q][s] \in Nat
  OBVIOUS
<1>3. \A q \in Server, s \in Nat :
         Acks(a, p, t, i)[q][s] = IF q = p /\ s = t /\ i > a[q][s] THEN i ELSE a[q][s]
  BY DEF Acks
<1>4. Acks(a, p, t, i) \in [Server -> [Nat -> Nat]]
  BY <1>2 DEF Acks
<1>5. \A q \in Server, s \in Nat : Acks(a, p, t, i)[q][s] >= a[q][s]
  BY <1>2, <1>3
<1>6. Acks(a, p, t, i)[p][t] >= i
  BY <1>2, <1>3
<1> QED BY <1>3, <1>4, <1>5, <1>6 DEF OneMore

\* The last entry of a request, and the log it makes of lg.
End(m) == m.prev + Len(m.entries)
Merged(lg, m) == AppendNewEntries(lg, m.prev, m.entries)

\* A request ends at an index.
LEMMA EndType ==
  ASSUME NEW m, m.prev \in Nat, m.entries \in Log
  PROVE  End(m) \in Nat
<1>1. Len(m.entries) \in Nat
  BY LogType
<1> QED BY <1>1 DEF End

\* What a request of the term the node is in makes of its log.
LEMMA MergedLog ==
  ASSUME NEW T, NEW D, NEW L, NEW h, NEW a, NEW w, Sound(T, D, L, h, a, w),
         NEW p \in Server, NEW m, m.prev \in Nat, m.entries \in Log, NEW t \in Nat,
         Slice(m, h[t]), HasEntry(L[p], m.prev, m.prev_term)
  PROVE  LET merged == Merged(L[p], m)
         IN  /\ merged \in Log
             /\ merged = L[p] \/ PrefixOf(merged, h[t])
             /\ Traced(merged, h)
             /\ \A i \in 1..End(m) :
                   i <= Len(merged) /\ merged[i] = h[t][i]
             /\ \A k \in 0..Len(L[p]) :
                   k <= Len(h[t]) /\ (\A j \in 1..k : L[p][j] = h[t][j])
                   => k <= Len(merged) /\ \A j \in 1..k : merged[j] = L[p][j]
<1> DEFINE lg == L[p]
           K == h[t]
           merged == AppendNewEntries(lg, m.prev, m.entries)
<1>1. lg \in Log /\ K \in Log /\ Traced(lg, h) /\ Traced(K, h)
  BY DEF Sound, Types, Written
<1>2. Slice(m, K) /\ HasEntry(lg, m.prev, m.prev_term)
  OBVIOUS
<1>3. Agree(lg, K)
  BY <1>1, TracedAgree
<1>4. Len(lg) \in Nat /\ Len(K) \in Nat
  BY <1>1, LogType
<1> HIDE DEF lg, K
<1>5. \A k \in 0..Len(lg) :
         k <= Len(K) /\ (\A j \in 1..k : lg[j] = K[j])
         => merged \in Log /\ k <= Len(merged) /\ \A j \in 1..k : merged[j] = lg[j]
  <2> SUFFICES ASSUME NEW k \in 0..Len(lg), k <= Len(K), \A j \in 1..k : lg[j] = K[j]
               PROVE  merged \in Log /\ k <= Len(merged) /\ \A j \in 1..k : merged[j] = lg[j]
    OBVIOUS
  <2>1. k \in Nat /\ k <= Len(lg)
    BY <1>4
  <2> QED BY <1>1, <1>2, <2>1, MergeKeeps
<1>6. merged \in Log
  <2>1. 0 \in 0..Len(lg) /\ 0 <= Len(K)
    BY <1>4
  <2> QED BY <1>5, <2>1
<1>7. merged = lg \/ PrefixOf(merged, K)
  BY <1>1, <1>2, <1>3, MergeEither
<1>8. Traced(merged, h)
  BY <1>1, <1>6, <1>7, PrefixTraced
<1>9. \A i \in 1..m.prev + Len(m.entries) : i <= Len(merged) /\ merged[i] = K[i]
  BY <1>1, <1>2, <1>3, MergeCovers
<1> HIDE DEF merged
<1>10. \A k \in 0..Len(lg) :
         k <= Len(K) /\ (\A j \in 1..k : lg[j] = K[j])
         => k <= Len(merged) /\ \A j \in 1..k : merged[j] = lg[j]
  BY <1>5
<1> QED BY <1>6, <1>7, <1>8, <1>9, <1>10 DEF lg, K, merged, Merged, End

\* A node that does not lead merges a request of the leader of its term, and
\* acknowledges it.
LEMMA Merges ==
  ASSUME IsFiniteSet(Server), NEW T, NEW D, NEW L, NEW h, NEW a, NEW w,
         Sound(T, D, L, h, a, w), NEW p \in Server, ~ D[p],
         NEW m, m.prev \in Nat, m.entries \in Log, NEW t \in Nat, T[p] = t,
         Len(h[t]) > 0, Slice(m, h[t]), HasEntry(L[p], m.prev, m.prev_term)
  PROVE  Sound(T, D, [L EXCEPT ![p] = Merged(L[p], m)], h, Acks(a, p, t, End(m)), w)
<1> DEFINE end == End(m)
           merged == Merged(L[p], m)
           L2 == [L EXCEPT ![p] = merged]
           a2 == Acks(a, p, t, end)
<1>1. Types(T, D, L, h, a, w) /\ Written(T, D, L, h) /\ Acknowledged(T, D, L, h, a)
  BY DEF Sound
<1>2. /\ end \in Nat /\ end <= Len(h[t])
      /\ L[p] \in Log /\ h[t] \in Log /\ h \in [Nat -> Log]
      /\ L \in [Server -> Log] /\ T \in [Server -> Nat]
      /\ a \in [Server -> [Nat -> Nat]] /\ w \in Nat
  <2>1. /\ L[p] \in Log /\ h[t] \in Log /\ h \in [Nat -> Log]
        /\ L \in [Server -> Log] /\ T \in [Server -> Nat]
        /\ a \in [Server -> [Nat -> Nat]] /\ w \in Nat
    BY <1>1 DEF Types
  <2>2. end \in Nat
    BY LogType DEF End
  <2>3. end <= Len(h[t])
    BY DEF Slice, End
  <2> QED BY <2>1, <2>2, <2>3
<1>3. /\ merged \in Log
      /\ merged = L[p] \/ PrefixOf(merged, h[t])
      /\ Traced(merged, h)
      /\ \A i \in 1..end : i <= Len(merged) /\ merged[i] = h[t][i]
      /\ \A k \in 0..Len(L[p]) :
            k <= Len(h[t]) /\ (\A j \in 1..k : L[p][j] = h[t][j])
            => k <= Len(merged) /\ \A j \in 1..k : merged[j] = L[p][j]
  BY MergedLog
<1>4. /\ a2 \in [Server -> [Nat -> Nat]]
      /\ \A q \in Server, s \in Nat : q # p \/ s # t => a2[q][s] = a[q][s]
      /\ \A q \in Server, s \in Nat :
            a2[q][s] = a[q][s] \/ (q = p /\ s = t /\ a2[q][s] = end)
  <2>1. h \in [Nat -> Log] /\ a \in [Server -> [Nat -> Nat]] /\ end \in Nat
    BY <1>2
  <2> HIDE DEF end
  <2>2. OneMore(a, p, t, end, Acks(a, p, t, end))
    BY <2>1, AcksGrow
  <2> QED BY <2>2 DEF OneMore
<1>5. Len(L[p]) \in Nat /\ Len(h[t]) \in Nat /\ Len(merged) \in Nat
  BY <1>2, <1>3, LogType
<1> HIDE DEF merged, a2, end
<1>6. L2 \in [Server -> Log] /\ L2[p] = merged /\ \A q \in Server : q # p => L2[q] = L[q]
  BY <1>2, <1>3
<1> HIDE DEF L2
<1>7. Types(T, D, L2, h, a2, w)
  BY <1>1, <1>4, <1>6 DEF Types
<1>8. Written(T, D, L2, h)
  <2>1. \A n \in Server : Traced(L2[n], h)
    BY <1>1, <1>3, <1>6 DEF Written
  <2>2. ASSUME NEW i \in 1..Len(merged) PROVE merged[i].term <= t
    <3>1. CASE merged = L[p]
      BY <1>1, <1>2, <2>2, <3>1 DEF Written
    <3>2. CASE PrefixOf(merged, h[t])
      <4>1. i \in 1..Len(h[t]) /\ merged[i] = h[t][i]
        BY <1>5, <2>2, <3>2 DEF PrefixOf
      <4> QED BY <1>1, <1>2, <4>1 DEF Written
    <3> QED BY <1>3, <3>1, <3>2
  <2>3. \A n \in Server : \A i \in 1..Len(L2[n]) : L2[n][i].term <= T[n]
    BY <1>1, <1>2, <1>6, <2>2 DEF Written
  <2>4. \A n \in Server : D[n] => L2[n] = h[T[n]] /\ Len(h[T[n]]) > 0
    BY <1>1, <1>6 DEF Written
  <2> QED BY <1>1, <2>1, <2>3, <2>4 DEF Written
<1>9. Acknowledged(T, D, L2, h, a2)
  <2>1. ASSUME NEW q \in Server, NEW s \in Nat
        PROVE  a2[q][s] <= Len(h[s]) /\ (a2[q][s] > 0 => T[q] >= s)
    <3>1. CASE a2[q][s] = a[q][s]
      BY <1>1, <3>1 DEF Acknowledged
    <3>2. CASE q = p /\ s = t /\ a2[q][s] = end
      BY <1>2, <3>2
    <3> QED BY <1>4, <3>1, <3>2
  <2>2. ASSUME NEW n \in Server, D[n] PROVE a2[n][T[n]] = Len(L2[n])
    <3>1. n # p /\ T[n] \in Nat
      BY <1>2, <2>2
    <3> QED BY <1>1, <1>4, <1>6, <2>2, <3>1 DEF Acknowledged
  <2> QED BY <2>1, <2>2 DEF Acknowledged
<1>10. Stored(L2, h, a2)
  <2> SUFFICES ASSUME NEW q \in Server, NEW s \in Nat, NEW i \in Nat,
                      i <= a2[q][s], Holds(h[s], s, i)
               PROVE  Holds(L2[q], s, i) \/ Lost(h, s, i)
    BY DEF Stored
  <2>1. h[s] \in Log /\ i \in 1..Len(h[s]) /\ h[s][i].term = s
    BY <1>2 DEF Holds
  <2>2. CASE q = p /\ s = t /\ i <= end
    <3>1. i \in 1..end
      BY <1>2, <2>1, <2>2
    <3>2. i <= Len(merged) /\ merged[i] = h[t][i]
      BY <1>3, <3>1
    <3>3. Holds(merged, s, i)
      BY <1>5, <2>1, <2>2, <3>2 DEF Holds
    <3> QED BY <1>6, <2>2, <3>3
  <2>3. CASE i <= a[q][s]
    <3>1. Holds(L[q], s, i) \/ Lost(h, s, i)
      BY <2>3 DEF Sound, Stored
    <3>2. CASE q # p
      BY <1>6, <3>1, <3>2
    <3>3. CASE q = p /\ Holds(L[p], s, i)
      <4>0. Len(h[s]) \in Nat /\ i <= a[p][s] /\ a[p][s] \in Nat
        BY <1>2, <2>1, <2>3, <3>3, LogType
      <4>1. a[p][s] \in Nat /\ a[p][s] > 0
        BY <2>1, <4>0
      <4>2. s <= t
        BY <1>1, <1>2, <4>1 DEF Acknowledged
      <4>3. CASE Holds(h[t], s, i)
        <5>1. i \in 1..Len(L[p]) /\ \A j \in 1..i : L[p][j] = h[s][j]
          BY <1>1, <1>2, <3>3, HeldIsTraced DEF Written
        <5>2. i \in 1..Len(h[t]) /\ \A j \in 1..i : h[t][j] = h[s][j]
          <6> DEFINE K == h[t]
          <6>1. K \in Log /\ Traced(K, h) /\ Holds(K, s, i)
            BY <1>1, <1>2, <4>3 DEF Written
          <6> HIDE DEF K
          <6>2. i \in 1..Len(K) /\ \A j \in 1..i : K[j] = h[s][j]
            BY <6>1, HeldIsTraced
          <6> QED BY <6>2 DEF K
        <5>3. i \in 0..Len(L[p]) /\ i <= Len(h[t]) /\ \A j \in 1..i : L[p][j] = h[t][j]
          BY <5>1, <5>2
        <5>4. i <= Len(merged) /\ \A j \in 1..i : merged[j] = L[p][j]
          BY <1>3, <5>3
        <5>5. i \in 1..i /\ i \in 1..Len(merged)
          BY <1>5, <5>1, <5>4
        <5>6. merged[i].term = s
          BY <3>3, <5>4, <5>5 DEF Holds
        <5>7. Holds(merged, s, i)
          BY <5>5, <5>6 DEF Holds
        <5> QED BY <1>6, <3>3, <5>7
      <4>4. CASE ~ Holds(h[t], s, i)
        <5>1. s # t
          BY <4>4
        <5>2. t > s
          BY <1>2, <4>2, <5>1
        <5>3. Lacks(h, t, s, i)
          BY <4>4, <5>2 DEF Lacks
        <5> QED BY <1>2, <5>3 DEF Lost
      <4> QED BY <4>3, <4>4
    <3> QED BY <3>1, <3>2, <3>3
  <2>4. i <= a[q][s] \/ (q = p /\ s = t /\ i <= end)
    BY <1>4
  <2> QED BY <2>2, <2>3, <2>4
<1>11. LostIsBlocked(T, h, a2)
  <2> SUFFICES ASSUME NEW s \in Nat, NEW i \in Nat, Holds(h[s], s, i), Lost(h, s, i)
               PROVE  \E V \in SUBSET Server : Blocks(T, a2, V, s, i)
    BY DEF LostIsBlocked
  <2>1. PICK V \in SUBSET Server : Blocks(T, a, V, s, i)
    BY DEF Sound, LostIsBlocked
  <2>2. \A q \in V : T[q] > s /\ a2[q][s] < i
    <3> SUFFICES ASSUME NEW q \in V PROVE T[q] > s /\ a2[q][s] < i
      OBVIOUS
    <3>1. q \in Server /\ T[q] > s /\ a[q][s] < i
      BY <2>1 DEF Blocks
    <3>2. ~ (q = p /\ s = t)
      BY <1>2, <3>1
    <3>3. a2[q][s] = a[q][s]
      BY <1>4, <3>1, <3>2
    <3> QED BY <3>1, <3>3
  <2>3. Blocks(T, a2, V, s, i)
    BY <2>1, <2>2 DEF Blocks
  <2> QED BY <2>3
<1>12. Short(T, L2, h, w)
  <2>1. Short(T, L, h, w)
    BY DEF Sound
  <2>2. Len(merged) <= t + w
    <3>1. Len(L[p]) <= t + w /\ Len(h[t]) <= t + w
      BY <1>2, <2>1 DEF Short
    <3>2. CASE merged = L[p]
      BY <3>1, <3>2
    <3>3. CASE PrefixOf(merged, h[t])
      <4>1. Len(merged) <= Len(h[t])
        BY <3>3 DEF PrefixOf
      <4>2. t + w \in Nat
        BY <1>2
      <4> QED BY <1>5, <3>1, <4>1, <4>2
    <3> QED BY <1>3, <3>2, <3>3
  <2> QED BY <1>2, <1>6, <2>1, <2>2 DEF Short
<1>13. \E top \in Nat : Top(T, h, top)
  BY DEF Sound
<1>14. Sound(T, D, L2, h, a2, w)
  BY <1>7, <1>8, <1>9, <1>10, <1>11, <1>12, <1>13 DEF Sound
<1> QED BY <1>14 DEF L2, a2, merged, end

-----------------------------------------------------------------------------
(***************************************************************************)
(* A leader's new entry.                                                   *)
(***************************************************************************)
\* K is L and one entry of term t.
Extended(L, K, t) ==
    /\ Len(K) = Len(L) + 1
    /\ \A i \in 1..Len(L) : K[i] = L[i]
    /\ K[Len(K)].term = t

\* What append makes of a log.
LEMMA AppendExtends ==
  ASSUME NEW L \in Log, NEW e \in Entry
  PROVE  Append(L, e) \in Log /\ Extended(L, Append(L, e), e.term)
<1>1. L \in Seq(Entry) /\ Len(L) \in Nat
  BY LogType
<1>2. Append(L, e) \in Seq(Entry)
  BY <1>1
<1>3. Len(Append(L, e)) = Len(L) + 1
  BY <1>1
<1>4. \A i \in 1..Len(L) : Append(L, e)[i] = L[i]
  BY <1>1
<1>5. Append(L, e)[Len(L) + 1] = e
  BY <1>1
<1> QED BY <1>2, <1>3, <1>4, <1>5 DEF Extended, Log

\* The histories h2 are h with K as that of t.
Replaced(h, t, K, h2) == h2[t] = K /\ \A s \in Nat : s # t => h2[s] = h[s]

\* An entry that K has it has had, unless it is the new one.
LEMMA ExtendedHolds ==
  ASSUME NEW L \in Log, NEW K \in Log, NEW t \in Nat, Extended(L, K, t),
         NEW s \in Nat, NEW i \in Nat
  PROVE  /\ Holds(L, s, i) => Holds(K, s, i)
         /\ Holds(K, s, i) => Holds(L, s, i) \/ (s = t /\ i = Len(K))
         /\ PrefixOf(L, K)
<1>1. Len(L) \in Nat /\ Len(K) = Len(L) + 1
  BY LogType DEF Extended
<1>2. \A j \in 1..Len(L) : K[j] = L[j] /\ j \in 1..Len(K)
  BY <1>1 DEF Extended
<1>3. \A j \in 1..Len(K) : j \in 1..Len(L) \/ j = Len(K)
  BY <1>1
<1>4. Holds(L, s, i) => Holds(K, s, i)
  BY <1>2 DEF Holds
<1>5. Holds(K, s, i) => Holds(L, s, i) \/ (s = t /\ i = Len(K))
  BY <1>2, <1>3 DEF Holds, Extended
<1>6. PrefixOf(L, K)
  BY <1>1, <1>2 DEF PrefixOf
<1> QED BY <1>4, <1>5, <1>6

\* Where logs come from is not forgotten.
LEMMA TracedGrows ==
  ASSUME NEW h \in [Nat -> Log], NEW h2 \in [Nat -> Log],
         \A s \in Nat : PrefixOf(h[s], h2[s]), NEW K \in Log, Traced(K, h)
  PROVE  Traced(K, h2)
<1> SUFFICES ASSUME NEW i \in 1..Len(K)
             PROVE  i <= Len(h2[K[i].term]) /\ \A j \in 1..i : K[j] = h2[K[i].term][j]
  BY DEF Traced
<1>1. K[i].term \in Nat /\ Len(K) \in Nat
  BY LogType
<1> DEFINE u == K[i].term
<1>2. i <= Len(h[u]) /\ \A j \in 1..i : K[j] = h[u][j]
  BY DEF Traced
<1> HIDE DEF u
<1>3. u \in Nat
  BY <1>1 DEF u
<1>4. Len(h[u]) \in Nat /\ Len(h2[u]) \in Nat /\ PrefixOf(h[u], h2[u])
  BY <1>3, LogType
<1>5. i <= Len(h2[u])
  <2>1. i \in Nat
    BY ONLY <1>1, i \in 1..Len(K)
  <2>2. Len(h[u]) <= Len(h2[u])
    BY <1>4 DEF PrefixOf
  <2>3. i <= Len(h[u]) /\ Len(h[u]) \in Nat /\ Len(h2[u]) \in Nat
    BY <1>2, <1>4
  <2> QED BY ONLY <2>1, <2>2, <2>3
<1>6. \A j \in 1..i : j \in 1..Len(h[u])
  BY <1>1, <1>2, <1>4
<1>7. \A j \in 1..i : K[j] = h2[u][j]
  BY <1>2, <1>4, <1>6 DEF PrefixOf
<1> QED BY <1>5, <1>7 DEF u

\* The leader of t appends an entry to its log, the first of its term or not; the
\* terms have not gone down.
Extends(T, T2, D, D2, L, L2, h, h2, a, a2, w, w2, n, t, K) ==
    /\ T2 \in [Server -> Nat] /\ D2 \in [Server -> BOOLEAN] /\ L2 \in [Server -> Log]
    /\ h2 \in [Nat -> Log] /\ w2 \in Nat /\ K \in Log
    /\ \A q \in Server : T2[q] >= T[q]
    /\ T2[n] = t
    /\ \A q \in Server : D2[q] /\ q # n => D[q] /\ T2[q] = T[q] /\ T[q] # t
    /\ Extended(L[n], K, t)
    /\ Replaced(h, t, K, h2)
    /\ L2[n] = K /\ \A q \in Server : q # n => L2[q] = L[q]
    /\ OneMore(a, n, t, Len(K), a2)
    /\ h[t] = L[n] \/ Len(h[t]) = 0
    /\ w2 >= w /\ Len(K) <= t + w2

\* The entries of earlier terms that the leader does not have are blocked.
Safe(T, L, h, a, n, t) ==
    \A s, i \in Nat :
        s < t /\ Holds(h[s], s, i) /\ ~ Holds(L[n], s, i)
        => \E V \in SUBSET Server : Blocks(T, a, V, s, i)

\* Histories grow by it.
LEMMA ExtendsGrows ==
  ASSUME NEW T, NEW D, NEW L, NEW h, NEW a, NEW w, Sound(T, D, L, h, a, w),
         NEW n \in Server, NEW t \in Nat \ {0}, NEW K,
         NEW T2, NEW D2, NEW L2, NEW h2, NEW a2, NEW w2,
         Extends(T, T2, D, D2, L, L2, h, h2, a, a2, w, w2, n, t, K)
  PROVE  Grows(h, a, h2, a2)
<1>1. /\ h \in [Nat -> Log] /\ h2 \in [Nat -> Log] /\ K \in Log /\ L[n] \in Log
      /\ \A s \in Nat : s # t => h2[s] = h[s]
      /\ h2[t] = K /\ Extended(L[n], K, t)
  BY DEF Sound, Types, Extends, Replaced
<1>2. PrefixOf(L[n], K)
  BY <1>1, ExtendedHolds
<1>3. PrefixOf(h[t], K)
  <2>1. CASE h[t] = L[n]
    BY <1>2, <2>1
  <2>2. CASE Len(h[t]) = 0
    BY <1>1, <2>2, LogType DEF PrefixOf
  <2> QED BY <2>1, <2>2 DEF Extends
<1>4. ASSUME NEW s \in Nat PROVE PrefixOf(h[s], h2[s])
  <2>1. CASE s = t
    BY <1>1, <1>3, <2>1
  <2>2. CASE s # t
    BY <1>1, <2>2, PrefixReflexive
  <2> QED BY <2>1, <2>2
<1>5. \A q \in Server, s \in Nat : a2[q][s] >= a[q][s]
  BY DEF Extends, OneMore
<1> QED BY <1>4, <1>5 DEF Grows
\* The logs come from the histories still.
LEMMA ExtendsWritten ==
  ASSUME NEW T, NEW D, NEW L, NEW h, NEW a, NEW w, Sound(T, D, L, h, a, w),
         NEW n \in Server, NEW t \in Nat \ {0}, NEW K,
         NEW T2, NEW D2, NEW L2, NEW h2, NEW a2, NEW w2,
         Extends(T, T2, D, D2, L, L2, h, h2, a, a2, w, w2, n, t, K)
  PROVE  Written(T2, D2, L2, h2)
<1>1. /\ h \in [Nat -> Log] /\ h2 \in [Nat -> Log] /\ K \in Log /\ L[n] \in Log
      /\ \A s \in Nat : s # t => h2[s] = h[s]
      /\ h2[t] = K /\ Extended(L[n], K, t)
      /\ L \in [Server -> Log] /\ T \in [Server -> Nat] /\ T2 \in [Server -> Nat]
      /\ L2[n] = K /\ \A q \in Server : q # n => L2[q] = L[q]
      /\ T2[n] = t /\ \A q \in Server : T2[q] >= T[q]
  BY DEF Sound, Types, Extends, Replaced
<1>2. Written(T, D, L, h)
  BY DEF Sound
<1>3. \A s \in Nat : PrefixOf(h[s], h2[s])
  BY ExtendsGrows DEF Grows
<1>4. Len(K) \in Nat /\ Len(L[n]) \in Nat /\ Len(K) = Len(L[n]) + 1
  BY <1>1, LogType DEF Extended
<1>5. Traced(K, h2)
  <2> SUFFICES ASSUME NEW i \in 1..Len(K)
               PROVE  i <= Len(h2[K[i].term]) /\ \A j \in 1..i : K[j] = h2[K[i].term][j]
    BY DEF Traced
  <2>1. CASE i = Len(K)
    <3>1. K[i].term = t
      BY <1>1, <2>1 DEF Extended
    <3> QED BY <1>1, <1>4, <2>1, <3>1
  <2>2. CASE i # Len(K)
    <3>1. i \in 1..Len(L[n]) /\ \A j \in 1..i : K[j] = L[n][j]
      BY <1>1, <1>4, <2>2 DEF Extended
    <3>2. Traced(L[n], h2)
      <4> DEFINE M == L[n]
      <4>1. M \in Log /\ Traced(M, h)
        BY <1>1, <1>2 DEF Written
      <4> HIDE DEF M
      <4>2. Traced(M, h2)
        BY <1>1, <1>3, <4>1, TracedGrows
      <4> QED BY <4>2 DEF M
    <3>3. K[i] = L[n][i]
      BY <3>1
    <3> QED BY <3>1, <3>2, <3>3 DEF Traced
  <2> QED BY <2>1, <2>2
<1>6. ASSUME NEW s \in Nat PROVE Traced(h2[s], h2)
  <2>1. CASE s = t
    BY <1>1, <1>5, <2>1
  <2>2. CASE s # t
    <3> DEFINE M == h[s]
    <3>1. M \in Log /\ Traced(M, h)
      BY <1>1, <1>2 DEF Written
    <3> HIDE DEF M
    <3>2. Traced(M, h2)
      BY <1>1, <1>3, <3>1, TracedGrows
    <3> QED BY <1>1, <2>2, <3>2 DEF M
  <2> QED BY <2>1, <2>2
<1>7. ASSUME NEW i \in 1..Len(K) PROVE K[i].term <= t
  <2>1. CASE i = Len(K)
    BY <1>1, <2>1 DEF Extended
  <2>2. CASE i # Len(K)
    <3>1. i \in 1..Len(L[n]) /\ K[i] = L[n][i]
      BY <1>1, <1>4, <2>2 DEF Extended
    <3>2. L[n][i].term <= T[n] /\ L[n][i].term \in Nat /\ T[n] \in Nat /\ T[n] <= t
      BY <1>1, <1>2, <3>1, LogType DEF Written
    <3> QED BY <3>1, <3>2
  <2> QED BY <2>1, <2>2
<1>8. ASSUME NEW s \in Nat, NEW i \in 1..Len(h2[s]) PROVE h2[s][i].term <= s
  BY <1>1, <1>2, <1>7 DEF Written
<1>9. ASSUME NEW s \in Nat, Len(h2[s]) > 0 PROVE Holds(h2[s], s, Len(h2[s]))
  <2>1. CASE s = t
    <3>1. Len(K) \in 1..Len(K)
      BY <1>4
    <3> QED BY <1>1, <2>1, <3>1 DEF Extended, Holds
  <2>2. CASE s # t
    BY <1>1, <1>2, <1>9, <2>2 DEF Written
  <2> QED BY <2>1, <2>2
<1>10. ASSUME NEW q \in Server PROVE Traced(L2[q], h2)
  <2>1. CASE q = n
    BY <1>1, <1>5, <2>1
  <2>2. CASE q # n
    <3> DEFINE M == L[q]
    <3>1. M \in Log /\ Traced(M, h)
      BY <1>1, <1>2 DEF Written
    <3> HIDE DEF M
    <3>2. Traced(M, h2)
      BY <1>1, <1>3, <3>1, TracedGrows
    <3> QED BY <1>1, <2>2, <3>2 DEF M
  <2> QED BY <2>1, <2>2
<1>11. ASSUME NEW q \in Server, NEW i \in 1..Len(L2[q]) PROVE L2[q][i].term <= T2[q]
  <2>1. CASE q = n
    BY <1>1, <1>7, <1>11, <2>1
  <2>2. CASE q # n
    <3>1. L2[q] = L[q] /\ L[q] \in Log
      BY <1>1, <2>2
    <3>2. L[q][i].term <= T[q] /\ L[q][i].term \in Nat
      BY <1>2, <3>1, LogType DEF Written
    <3> QED BY <1>1, <3>1, <3>2
  <2> QED BY <2>1, <2>2
<1>12. ASSUME NEW q \in Server, D2[q] PROVE L2[q] = h2[T2[q]] /\ Len(h2[T2[q]]) > 0
  <2>1. CASE q = n
    BY <1>1, <1>4, <2>1
  <2>2. CASE q # n
    <3>1. D[q] /\ T2[q] = T[q] /\ T[q] # t
      BY <1>12, <2>2 DEF Extends
    <3>2. L[q] = h[T[q]] /\ Len(h[T[q]]) > 0 /\ T[q] \in Nat
      BY <1>1, <1>2, <3>1 DEF Written
    <3> QED BY <1>1, <2>2, <3>1, <3>2
  <2> QED BY <2>1, <2>2
<1>13. ASSUME NEW q \in Server, NEW p \in Server, D2[q], D2[p], T2[q] = T2[p] PROVE q = p
  <2>1. \A r \in Server : D2[r] /\ r # n => D[r] /\ T2[r] = T[r] /\ T[r] # t
    BY DEF Extends
  <2>2. CASE q = n \/ p = n
    BY <1>1, <1>13, <2>1, <2>2
  <2>3. CASE q # n /\ p # n
    BY <1>2, <1>13, <2>1, <2>3 DEF Written
  <2> QED BY <2>2, <2>3
<1> QED BY <1>6, <1>8, <1>9, <1>10, <1>11, <1>12, <1>13 DEF Written

\* What is acknowledged is in the histories still, and is stored.
LEMMA ExtendsStored ==
  ASSUME NEW T, NEW D, NEW L, NEW h, NEW a, NEW w, Sound(T, D, L, h, a, w),
         NEW n \in Server, NEW t \in Nat \ {0}, NEW K,
         NEW T2, NEW D2, NEW L2, NEW h2, NEW a2, NEW w2,
         Extends(T, T2, D, D2, L, L2, h, h2, a, a2, w, w2, n, t, K)
  PROVE  Acknowledged(T2, D2, L2, h2, a2) /\ Stored(L2, h2, a2)
<1>1. /\ h \in [Nat -> Log] /\ h2 \in [Nat -> Log] /\ K \in Log /\ L[n] \in Log
      /\ \A s \in Nat : s # t => h2[s] = h[s]
      /\ h2[t] = K /\ Extended(L[n], K, t)
      /\ L \in [Server -> Log] /\ T \in [Server -> Nat] /\ T2 \in [Server -> Nat]
      /\ L2[n] = K /\ \A q \in Server : q # n => L2[q] = L[q]
      /\ T2[n] = t /\ \A q \in Server : T2[q] >= T[q]
      /\ h[t] = L[n] \/ Len(h[t]) = 0
      /\ a \in [Server -> [Nat -> Nat]]
  BY DEF Sound, Types, Extends, Replaced
<1>2. /\ a2 \in [Server -> [Nat -> Nat]] /\ a2[n][t] >= Len(K)
      /\ \A q \in Server, s \in Nat : q # n \/ s # t => a2[q][s] = a[q][s]
      /\ \A q \in Server, s \in Nat :
            a2[q][s] = a[q][s] \/ (q = n /\ s = t /\ a2[q][s] = Len(K))
  BY DEF Extends, OneMore
<1>3. Len(K) \in Nat /\ Len(L[n]) \in Nat /\ Len(K) = Len(L[n]) + 1
  BY <1>1, LogType DEF Extended
<1>4. Acknowledged(T, D, L, h, a) /\ Stored(L, h, a)
  BY DEF Sound
<1>5. a2[n][t] = Len(K)
  <2>1. a[n][t] \in Nat /\ a[n][t] <= Len(h[t])
    BY <1>1, <1>4 DEF Acknowledged
  <2>2. Len(h[t]) <= Len(L[n])
    BY <1>1, <1>3
  <2>3. Len(h[t]) \in Nat
    BY <1>1, LogType
  <2>4. a[n][t] < Len(K)
    BY <1>3, <2>1, <2>2, <2>3
  <2>5. a2[n][t] = a[n][t] \/ a2[n][t] = Len(K)
    BY <1>2
  <2>6. a2[n][t] >= Len(K)
    BY <1>2
  <2> QED BY ONLY <1>3, <2>1, <2>4, <2>5, <2>6
<1>6. Acknowledged(T2, D2, L2, h2, a2)
  <2>1. ASSUME NEW p \in Server, NEW s \in Nat
        PROVE  a2[p][s] <= Len(h2[s]) /\ (a2[p][s] > 0 => T2[p] >= s)
    <3>1. CASE p = n /\ s = t
      <4>1. a2[p][s] = Len(K) /\ h2[s] = K /\ T2[p] = s
        BY <1>1, <1>5, <3>1
      <4> QED BY ONLY <1>3, <4>1, s \in Nat
    <3>2. CASE ~ (p = n /\ s = t)
      <4>1. a2[p][s] = a[p][s] /\ a[p][s] \in Nat
        <5>1. p # n \/ s # t
          BY <3>2
        <5>2. a2[p][s] = a[p][s]
          BY ONLY <1>2, <5>1, p \in Server, s \in Nat
        <5>3. a[p][s] \in Nat
          BY <1>1
        <5> QED BY <5>2, <5>3
      <4>2. a[p][s] <= Len(h[s]) /\ (a[p][s] > 0 => T[p] >= s)
        BY <1>4 DEF Acknowledged
      <4>3. Len(h[s]) <= Len(h2[s])
        BY ExtendsGrows DEF Grows, PrefixOf
      <4>4. Len(h[s]) \in Nat /\ Len(h2[s]) \in Nat /\ T2[p] \in Nat /\ T[p] \in Nat /\ T2[p] >= T[p]
        BY <1>1, LogType
      <4> QED BY ONLY <4>1, <4>2, <4>3, <4>4, s \in Nat
    <3> QED BY <3>1, <3>2
  <2>2. ASSUME NEW q \in Server, D2[q] PROVE a2[q][T2[q]] = Len(L2[q])
    <3>1. CASE q = n
      BY <1>1, <1>5, <3>1
    <3>2. CASE q # n
      <4>1. D[q] /\ T2[q] = T[q] /\ T[q] \in Nat
        BY <1>1, <2>2, <3>2 DEF Extends
      <4>2. a2[q][T[q]] = a[q][T[q]]
        BY ONLY <1>2, <3>2, <4>1, q \in Server
      <4>3. a[q][T[q]] = Len(L[q])
        BY <1>4, <4>1 DEF Acknowledged
      <4>4. L2[q] = L[q]
        BY <1>1, <3>2
      <4> QED BY <4>1, <4>2, <4>3, <4>4
    <3> QED BY <3>1, <3>2
  <2> QED BY <2>1, <2>2 DEF Acknowledged
<1>7. ASSUME NEW s \in Nat, NEW i \in Nat, Lost(h, s, i) PROVE Lost(h2, s, i)
  <2>1. PICK u \in Nat : Lacks(h, u, s, i)
    BY <1>7 DEF Lost
  <2>2. CASE u # t
    BY <1>1, <2>1, <2>2 DEF Lacks, Lost
  <2>3. CASE u = t
    <3>1. h[t] = L[n] /\ s < t /\ ~ Holds(L[n], s, i)
      BY <1>1, <2>1, <2>3 DEF Lacks
    <3>2. ~ Holds(K, s, i)
      BY <1>1, <3>1, ExtendedHolds
    <3>3. Lacks(h2, t, s, i)
      BY <1>1, <1>3, <3>1, <3>2 DEF Lacks
    <3> QED BY <3>3 DEF Lost
  <2> QED BY <2>2, <2>3
<1>8. ASSUME NEW q \in Server, NEW s \in Nat, NEW i \in Nat,
             i <= a2[q][s], Holds(h2[s], s, i)
      PROVE  Holds(L2[q], s, i) \/ Lost(h2, s, i)
  <2>1. CASE q = n /\ s = t
    BY <1>1, <1>8, <2>1
  <2>2. CASE ~ (q = n /\ s = t)
    <3>1. i <= a[q][s]
      BY <1>2, <1>8, <2>2
    <3>2. Holds(h[s], s, i)
      <4>1. CASE s # t
        BY <1>1, <1>8, <4>1
      <4>2. CASE s = t
        <5>1. i <= Len(h[t]) /\ i \in 1..Len(K)
          <6>1. a[q][t] <= Len(h[t]) /\ t \in Nat
            BY <1>4 DEF Acknowledged
          <6>2. a[q][t] \in Nat /\ Len(h[t]) \in Nat
            BY <1>1, LogType
          <6>3. i \in 1..Len(K)
            BY <1>1, <1>8, <4>2 DEF Holds
          <6> QED BY <3>1, <4>2, <6>1, <6>2, <6>3
        <5>2. h[t] = L[n]
          BY <1>1, <1>3, <5>1
        <5>3. i # Len(K)
          BY <1>3, <5>1, <5>2
        <5> QED BY <1>1, <1>8, <4>2, <5>2, <5>3, ExtendedHolds
      <4> QED BY <4>1, <4>2
    <3>3. Holds(L[q], s, i) \/ Lost(h, s, i)
      BY <1>4, <3>1, <3>2 DEF Stored
    <3>4. Holds(L[q], s, i) => Holds(L2[q], s, i)
      <4>1. CASE q = n
        <5>1. L[n] \in Log /\ K \in Log /\ Extended(L[n], K, t) /\ L2[n] = K
          BY <1>1
        <5>2. Holds(L[n], s, i) => Holds(K, s, i)
          BY <5>1, ExtendedHolds
        <5> QED BY <4>1, <5>1, <5>2
      <4>2. CASE q # n
        BY <1>1, <4>2
      <4> QED BY <4>1, <4>2
    <3> QED BY <1>7, <3>3, <3>4
  <2> QED BY <2>1, <2>2
<1> QED BY <1>6, <1>8 DEF Stored
\* The invariant holds after it, if the entries of earlier terms that the leader
\* does not have are blocked.
LEMMA ExtendsSound ==
  ASSUME IsFiniteSet(Server), NEW T, NEW D, NEW L, NEW h, NEW a, NEW w, Sound(T, D, L, h, a, w),
         NEW n \in Server, NEW t \in Nat \ {0}, NEW K,
         NEW T2, NEW D2, NEW L2, NEW h2, NEW a2, NEW w2,
         Extends(T, T2, D, D2, L, L2, h, h2, a, a2, w, w2, n, t, K),
         NEW top \in Nat, Top(T2, h, top), Safe(T2, L, h, a, n, t)
  PROVE  Sound(T2, D2, L2, h2, a2, w2) /\ Grows(h, a, h2, a2)
<1>1. /\ h \in [Nat -> Log] /\ h2 \in [Nat -> Log] /\ K \in Log /\ L[n] \in Log
      /\ \A s \in Nat : s # t => h2[s] = h[s]
      /\ h2[t] = K /\ Extended(L[n], K, t)
      /\ L \in [Server -> Log] /\ T \in [Server -> Nat] /\ T2 \in [Server -> Nat]
      /\ L2[n] = K /\ \A q \in Server : q # n => L2[q] = L[q]
      /\ T2[n] = t /\ \A q \in Server : T2[q] >= T[q]
      /\ h[t] = L[n] \/ Len(h[t]) = 0
      /\ a \in [Server -> [Nat -> Nat]]
      /\ w \in Nat /\ w2 \in Nat /\ w2 >= w /\ Len(K) <= t + w2
  BY DEF Sound, Types, Extends, Replaced
<1>2. /\ a2 \in [Server -> [Nat -> Nat]]
      /\ \A q \in Server, s \in Nat : q # n \/ s # t => a2[q][s] = a[q][s]
  BY DEF Extends, OneMore
<1>3. Len(K) \in Nat /\ Len(L[n]) \in Nat /\ Len(K) = Len(L[n]) + 1
  BY <1>1, LogType DEF Extended
<1>4. Grows(h, a, h2, a2)
  BY ExtendsGrows
<1>5. Written(T2, D2, L2, h2)
  BY ExtendsWritten
<1>6. Acknowledged(T2, D2, L2, h2, a2) /\ Stored(L2, h2, a2)
  BY ExtendsStored
<1>7. Types(T2, D2, L2, h2, a2, w2)
  BY <1>2 DEF Types, Extends
<1>8. t <= top
  BY <1>1 DEF Top
<1>9. Top(T2, h2, top)
  <2>1. ASSUME NEW s \in Nat, s > top PROVE Len(h2[s]) = 0
    <3>1. s # t
      BY <1>8, <2>1
    <3> QED BY <1>1, <2>1, <3>1 DEF Top
  <2> QED BY <2>1 DEF Top
<1>10. Short(T2, L2, h2, w2)
  <2>1. Short(T, L, h, w)
    BY DEF Sound
  <2>2. ASSUME NEW q \in Server PROVE Len(L2[q]) <= T2[q] + w2
    <3>1. CASE q = n
      BY <1>1, <3>1
    <3>2. CASE q # n
      <4>1. L2[q] = L[q] /\ Len(L[q]) <= T[q] + w /\ Len(L[q]) \in Nat
        BY <1>1, <2>1, <3>2, LogType DEF Short
      <4>2. T[q] \in Nat /\ T2[q] \in Nat /\ T2[q] >= T[q]
        BY <1>1
      <4> QED BY <1>1, <4>1, <4>2
    <3> QED BY <3>1, <3>2
  <2>3. ASSUME NEW s \in Nat PROVE Len(h2[s]) <= s + w2
    <3>1. CASE s = t
      BY <1>1, <3>1
    <3>2. CASE s # t
      <4>1. h2[s] = h[s] /\ Len(h[s]) <= s + w /\ Len(h[s]) \in Nat
        BY <1>1, <2>1, <3>2, LogType DEF Short
      <4> QED BY <1>1, <4>1
    <3> QED BY <3>1, <3>2
  <2> QED BY <2>2, <2>3 DEF Short
<1>11. ASSUME NEW s \in Nat, NEW i \in Nat, Holds(h2[s], s, i), Lost(h2, s, i)
       PROVE  \E V \in SUBSET Server : Blocks(T2, a2, V, s, i)
  <2>1. PICK u \in Nat : Lacks(h2, u, s, i)
    BY <1>11 DEF Lost
  <2>2. ASSUME NEW V \in SUBSET Server, Blocks(T2, a, V, s, i)
        PROVE  Blocks(T2, a2, V, s, i)
    <3>1. \A q \in V : a2[q][s] = a[q][s]
      <4> TAKE q \in V
      <4>1. T2[q] > s
        BY <2>2 DEF Blocks
      <4>2. q # n \/ s # t
        BY <1>1, <4>1
      <4> QED BY ONLY <1>2, <4>2, q \in V, V \in SUBSET Server, s \in Nat
    <3> QED BY <2>2, <3>1 DEF Blocks
  <2>3. CASE s # t /\ u = t
    <3>1. Holds(h[s], s, i) /\ s < t
      BY <1>1, <1>11, <2>1, <2>3 DEF Lacks
    <3>2. ~ Holds(L[n], s, i)
      <4>1. ~ Holds(K, s, i)
        BY <1>1, <2>1, <2>3 DEF Lacks
      <4> DEFINE M == L[n]
      <4>2. M \in Log /\ Extended(M, K, t)
        BY <1>1
      <4> HIDE DEF M
      <4>3. ~ Holds(M, s, i)
        BY <1>1, <4>1, <4>2, ExtendedHolds
      <4> QED BY <4>3 DEF M
    <3>3. PICK V \in SUBSET Server : Blocks(T2, a, V, s, i)
      BY <3>1, <3>2 DEF Safe
    <3> QED BY <2>2, <3>3
  <2>4. ASSUME Holds(h[s], s, i), Lost(h, s, i)
        PROVE  \E V \in SUBSET Server : Blocks(T2, a2, V, s, i)
    <3>1. PICK V \in SUBSET Server : Blocks(T, a, V, s, i)
      BY <2>4 DEF Sound, LostIsBlocked
    <3>2. \A q \in V : T2[q] > s /\ a[q][s] < i
      <4> TAKE q \in V
      <4>1. q \in Server /\ T[q] > s /\ a[q][s] < i
        BY <3>1 DEF Blocks
      <4>2. T[q] \in Nat /\ T2[q] \in Nat /\ T2[q] >= T[q]
        BY <1>1, <4>1
      <4> QED BY ONLY <4>1, <4>2, s \in Nat
    <3>3. Blocks(T2, a, V, s, i)
      BY <3>1, <3>2 DEF Blocks
    <3> QED BY <2>2, <3>3
  <2>5. CASE s # t /\ u # t
    <3>1. Holds(h[s], s, i) /\ Lacks(h, u, s, i)
      BY <1>1, <1>11, <2>1, <2>5 DEF Lacks
    <3>2. Lost(h, s, i)
      BY <3>1 DEF Lost
    <3> QED BY <2>4, <3>1, <3>2
  <2>6. CASE s = t /\ i <= Len(h[t])
    <3>1. u > t /\ Lacks(h, u, s, i)
      BY <1>1, <2>1, <2>6 DEF Lacks
    <3>2. i \in 1..Len(K) /\ K[i].term = t
      BY <1>1, <1>11, <2>6 DEF Holds
    <3>3. h[t] = L[n] /\ i \in 1..Len(L[n])
      <4>1. i > 0 /\ i <= Len(h[t])
        BY <2>6, <3>2
      <4>2. h[t] = L[n]
        BY <1>1, <4>1
      <4> QED BY ONLY <1>3, <4>1, <4>2, i \in Nat
    <3>4. K[i] = L[n][i]
      BY <1>1, <3>3 DEF Extended
    <3>5. Holds(h[s], s, i)
      BY <2>6, <3>2, <3>3, <3>4 DEF Holds
    <3>6. Lost(h, s, i)
      BY <3>1 DEF Lost
    <3> QED BY <2>4, <3>5, <3>6
  <2>7. CASE s = t /\ i > Len(h[t])
    <3>1. u > t /\ Len(h[u]) > 0
      BY <1>1, <2>1, <2>7 DEF Lacks
    <3>2. u <= top
      <4>1. Len(h[u]) \in Nat
        BY <1>1, LogType
      <4> QED BY <3>1, <4>1 DEF Top
    <3> DEFINE V == {q \in Server : T2[q] = top}
    <3>3. \A q \in V : T2[q] > s /\ a[q][s] < i
      <4> TAKE q \in V
      <4>1. T2[q] > s
        BY <2>7, <3>1, <3>2
      <4>2. a[q][t] \in Nat /\ a[q][t] <= Len(h[t]) /\ Len(h[t]) \in Nat
        <5>1. q \in Server /\ Acknowledged(T, D, L, h, a)
          BY DEF Sound
        <5>2. a[q][t] \in Nat
          BY <1>1, <5>1
        <5>3. a[q][t] <= Len(h[t])
          BY <5>1 DEF Acknowledged
        <5>4. Len(h[t]) \in Nat
          BY <1>1, LogType
        <5> QED BY <5>2, <5>3, <5>4
      <4>3. a[q][s] < i
        BY ONLY <2>7, <4>2, i \in Nat
      <4> QED BY <4>1, <4>3
    <3>4. V \in SUBSET Server /\ IsMajority(V)
      BY DEF Top
    <3> HIDE DEF V
    <3>5. Blocks(T2, a, V, s, i)
      BY <3>3, <3>4 DEF Blocks
    <3> QED BY <2>2, <3>4, <3>5
  <2>8. i <= Len(h[t]) \/ i > Len(h[t])
    BY <1>1, LogType
  <2> QED BY <2>3, <2>5, <2>6, <2>7, <2>8
<1>12. LostIsBlocked(T2, h2, a2)
  BY <1>11 DEF LostIsBlocked
<1> QED BY <1>4, <1>5, <1>6, <1>7, <1>9, <1>10, <1>12 DEF Sound
\* The logs L2 are L with K as that of n.
Lengthened(L, n, K, L2) == L2[n] = K /\ \A q \in Server : q # n => L2[q] = L[q]

\* A leader takes a write.
LEMMA Proposes ==
  ASSUME IsFiniteSet(Server), NEW T, NEW D, NEW L, NEW h, NEW a, NEW w, Sound(T, D, L, h, a, w),
         NEW n \in Server, D[n], NEW K \in Log, Extended(L[n], K, T[n]),
         NEW L2 \in [Server -> Log], NEW h2 \in [Nat -> Log], NEW a2,
         Lengthened(L, n, K, L2), Replaced(h, T[n], K, h2), OneMore(a, n, T[n], Len(K), a2)
  PROVE  Sound(T, D, L2, h2, a2, w + 1) /\ Grows(h, a, h2, a2)
<1> DEFINE t == T[n]
<1>1. /\ T \in [Server -> Nat] /\ D \in [Server -> BOOLEAN] /\ L \in [Server -> Log]
      /\ h \in [Nat -> Log] /\ a \in [Server -> [Nat -> Nat]] /\ w \in Nat
  BY DEF Sound, Types
<1>2. Written(T, D, L, h)
  BY DEF Sound
<1>3. t \in Nat /\ L[n] = h[t] /\ Len(h[t]) > 0 /\ Holds(h[t], t, Len(h[t]))
  BY <1>1, <1>2 DEF Written
<1>4. t \in Nat \ {0}
  <2> DEFINE M == h[t]
  <2>1. M \in Log /\ Holds(M, t, Len(M))
    BY <1>1, <1>3
  <2> HIDE DEF M
  <2> QED BY <2>1, <1>3, LogType DEF Holds
<1>5. Len(K) <= t + (w + 1)
  <2>1. Len(K) = Len(L[n]) + 1
    BY DEF Extended
  <2>2. Len(L[n]) \in Nat
    BY <1>1, LogType
  <2>3. Len(L[n]) <= t + w
    BY DEF Sound, Short
  <2> QED BY ONLY <1>1, <1>3, <2>1, <2>2, <2>3
<1>6. ASSUME NEW q \in Server, D[q], q # n PROVE T[q] # t
  BY <1>2, <1>6 DEF Written
<1>7. Extends(T, T, D, D, L, L2, h, h2, a, a2, w, w + 1, n, t, K)
  <2>1. \A q \in Server : T[q] >= T[q]
    BY <1>1
  <2>2. w + 1 \in Nat /\ w + 1 >= w
    BY <1>1
  <2>3. \A q \in Server : D[q] /\ q # n => D[q] /\ T[q] = T[q] /\ T[q] # t
    BY <1>6
  <2>4. Extended(L[n], K, t) /\ Replaced(h, t, K, h2) /\ OneMore(a, n, t, Len(K), a2)
    OBVIOUS
  <2>5. h[t] = L[n] \/ Len(h[t]) = 0
    BY <1>3
  <2> QED BY <1>1, <1>5, <2>1, <2>2, <2>3, <2>4, <2>5 DEF Extends, Lengthened
<1>8. Safe(T, L, h, a, n, t)
  <2> SUFFICES ASSUME NEW s \in Nat, NEW i \in Nat,
                      s < t, Holds(h[s], s, i), ~ Holds(L[n], s, i)
               PROVE  \E V \in SUBSET Server : Blocks(T, a, V, s, i)
    BY DEF Safe
  <2>1. Lacks(h, t, s, i)
    BY <1>3 DEF Lacks
  <2>2. Lost(h, s, i)
    BY <1>3, <2>1 DEF Lost
  <2> QED BY <2>2 DEF Sound, LostIsBlocked
<1>9. PICK top \in Nat : Top(T, h, top)
  BY DEF Sound
<1> HIDE DEF t
<1> QED BY <1>4, <1>7, <1>8, <1>9, ExtendsSound

\* The terms and the leaders after an election that n won.
Elected(T, T2, D, D2, V, n, new) ==
    /\ T2 \in [Server -> Nat] /\ D2 \in [Server -> BOOLEAN]
    /\ V \in SUBSET Server /\ n \in V /\ IsMajority(V)
    /\ \A q \in V : T[q] < new /\ T2[q] = new /\ (D2[q] => q = n)
    /\ \E q \in V : new = T[q] + 1
    /\ \A q \in Server : q \notin V => T2[q] = T[q] /\ D2[q] = D[q]

\* The terms of an election that a majority voted in.
LEMMA ElectedTerms ==
  ASSUME IsFiniteSet(Server), NEW T, NEW D, NEW L, NEW h, NEW a, NEW w, Sound(T, D, L, h, a, w),
         NEW n \in Server, NEW V \in SUBSET Server, NEW new \in Nat, NEW T2, NEW D2,
         Elected(T, T2, D, D2, V, n, new)
  PROVE  /\ \A q \in Server : T2[q] >= T[q] /\ T[q] < new
         /\ Top(T2, h, new)
         /\ Len(h[new]) = 0
<1>1. T \in [Server -> Nat] /\ T2 \in [Server -> Nat] /\ \A q \in Server : T[q] \in Nat
  BY DEF Sound, Types, Elected
<1>2. PICK top \in Nat : Top(T, h, top)
  BY DEF Sound
<1>3. new > top
  <2> DEFINE Q == {q \in Server : T[q] = top}
  <2>1. IsMajority(Q) /\ IsMajority(V) /\ Q \in SUBSET Server
    BY <1>2 DEF Top, Elected
  <2>2. PICK q \in Server : q \in Q /\ q \in V
    BY <2>1, MajoritiesMeet
  <2> QED BY <2>2 DEF Elected
<1>4. new = top + 1
  <2>1. PICK q \in V : new = T[q] + 1
    BY DEF Elected
  <2>2. T[q] \in Nat /\ T[q] <= top
    BY <1>1, <1>2, <2>1 DEF Top
  <2> QED BY <1>3, <2>1, <2>2
<1>5. ASSUME NEW q \in Server PROVE T2[q] >= T[q] /\ T[q] < new /\ T2[q] <= new
  <2>1. T[q] \in Nat /\ T[q] <= top
    BY <1>1, <1>2 DEF Top
  <2>2. T2[q] = new \/ T2[q] = T[q]
    BY DEF Elected
  <2> QED BY ONLY <1>4, <2>1, <2>2, top \in Nat
<1>6. ASSUME NEW s \in Nat, s >= new PROVE Len(h[s]) = 0
  <2>1. s > top
    BY ONLY <1>4, <1>6, top \in Nat, s \in Nat
  <2> QED BY <1>2, <2>1 DEF Top
<1>7. Top(T2, h, new)
  <2> DEFINE R == {q \in Server : T2[q] = new}
  <2>1. V \subseteq R /\ R \in SUBSET Server /\ IsMajority(V)
    BY DEF Elected
  <2> HIDE DEF R
  <2>2. IsMajority(R)
    BY <2>1, MajorityGrows
  <2> QED BY <1>5, <1>6, <2>2 DEF Top, R
<1> QED BY <1>5, <1>6, <1>7

\* The servers V find the log of n up to date.
FindUpToDate(V, L, n) ==
    \A v \in V : CandidateIsUpToDate(L[v], LastTerm(L[n]), Len(L[n]))

\* A candidate that a majority finds up to date has every entry that could have
\* been chosen.
LEMMA ElectedIsSafe ==
  ASSUME IsFiniteSet(Server), NEW T, NEW D, NEW L, NEW h, NEW a, NEW w, Sound(T, D, L, h, a, w),
         NEW n \in Server, NEW V \in SUBSET Server, NEW new \in Nat, NEW T2, NEW D2,
         Elected(T, T2, D, D2, V, n, new),
         FindUpToDate(V, L, n)
  PROVE  Safe(T2, L, h, a, n, new)
<1>1. /\ h \in [Nat -> Log] /\ L \in [Server -> Log] /\ L[n] \in Log
      /\ a \in [Server -> [Nat -> Nat]]
      /\ T \in [Server -> Nat] /\ T2 \in [Server -> Nat]
  BY DEF Sound, Types, Elected
<1>2. Written(T, D, L, h)
  BY DEF Sound
<1> SUFFICES ASSUME NEW s \in Nat, NEW i \in Nat,
                    s < new, Holds(h[s], s, i), ~ Holds(L[n], s, i)
             PROVE  \E U \in SUBSET Server : Blocks(T2, a, U, s, i)
  BY DEF Safe
<1>3. CASE Lost(h, s, i)
  <2>1. PICK U \in SUBSET Server : Blocks(T, a, U, s, i)
    BY <1>3 DEF Sound, LostIsBlocked
  <2>2. \A q \in U : T2[q] > s /\ a[q][s] < i
    <3> TAKE q \in U
    <3>1. q \in Server /\ T[q] > s /\ a[q][s] < i
      BY <2>1 DEF Blocks
    <3>2. T2[q] >= T[q]
      BY <3>1, ElectedTerms
    <3>3. T[q] \in Nat /\ T2[q] \in Nat
      BY <1>1, <3>1
    <3> QED BY ONLY <3>1, <3>2, <3>3, s \in Nat
  <2>3. Blocks(T2, a, U, s, i)
    BY <2>1, <2>2 DEF Blocks
  <2> QED BY <2>3
<1>4. CASE ~ Lost(h, s, i)
  <2>1. s \in Nat \ {0}
    <3> DEFINE M == h[s]
    <3>1. M \in Log /\ Holds(M, s, i)
      BY <1>1
    <3> HIDE DEF M
    <3> QED BY <3>1, LogType DEF Holds
  <2>2. ASSUME NEW v \in V PROVE a[v][s] < i
    <3>1. v \in Server /\ a[v][s] \in Nat
      BY <1>1
    <3> SUFFICES ASSUME i <= a[v][s] PROVE FALSE
      BY <3>1
    <3>2. Holds(L[v], s, i)
      BY <1>4, <3>1 DEF Sound, Stored
    <3> DEFINE K == L[v]
               M == L[n]
    <3>3. K \in Log /\ M \in Log /\ Traced(K, h) /\ Traced(M, h) /\ Holds(K, s, i)
      BY <1>1, <1>2, <3>1, <3>2 DEF Written
    <3>4. CandidateIsUpToDate(K, LastTerm(M), Len(M))
      BY DEF FindUpToDate
    <3>5. (\A t \in Nat : \A j \in 1..Len(h[t]) : h[t][j].term <= t) /\ (\A t \in Nat : Traced(h[t], h))
      BY <1>2 DEF Written
    <3>6. LastTerm(M) \in Nat
      <4>1. Len(M) \in 0..Len(M)
        BY <3>3, LogType
      <4> HIDE DEF M
      <4> QED BY <3>3, <4>1, TermAtType DEF LastTerm
    <3>7. ~ Holds(M, s, i)
      OBVIOUS
    <3> HIDE DEF K, M
    <3>8. Holds(M, s, i) \/ Lacks(h, LastTerm(M), s, i)
      BY <1>1, <2>1, <3>3, <3>4, <3>5, UpToDateHolds
    <3> QED BY <1>4, <3>6, <3>7, <3>8 DEF Lost
  <2>3. \A q \in V : T2[q] > s /\ a[q][s] < i
    BY <2>2 DEF Elected
  <2>4. IsMajority(V)
    BY DEF Elected
  <2>5. Blocks(T2, a, V, s, i)
    BY <2>3, <2>4 DEF Blocks
  <2> QED BY <2>5
<1> QED BY <1>3, <1>4

\* A majority elects a leader, which appends the first entry of its term.
LEMMA Wins ==
  ASSUME IsFiniteSet(Server), NEW T, NEW D, NEW L, NEW h, NEW a, NEW w, Sound(T, D, L, h, a, w),
         NEW n \in Server, NEW V \in SUBSET Server, NEW new \in Nat, NEW T2, NEW D2,
         Elected(T, T2, D, D2, V, n, new),
         FindUpToDate(V, L, n),
         NEW K \in Log, Extended(L[n], K, new),
         NEW L2 \in [Server -> Log], NEW h2 \in [Nat -> Log], NEW a2,
         Lengthened(L, n, K, L2), Replaced(h, new, K, h2), OneMore(a, n, new, Len(K), a2)
  PROVE  Sound(T2, D2, L2, h2, a2, w) /\ Grows(h, a, h2, a2)
<1>1. /\ L \in [Server -> Log] /\ T \in [Server -> Nat] /\ w \in Nat
      /\ \A q \in Server : T[q] \in Nat
  BY DEF Sound, Types
<1>2. /\ \A q \in Server : T2[q] >= T[q] /\ T[q] < new
      /\ Top(T2, h, new)
      /\ Len(h[new]) = 0
  BY ElectedTerms
<1>3. Safe(T2, L, h, a, n, new)
  BY ElectedIsSafe
<1>4. new \in Nat \ {0}
  BY <1>1, <1>2
<1>5. Len(K) <= new + w
  <2>1. Len(K) = Len(L[n]) + 1
    BY DEF Extended
  <2>2. Len(L[n]) \in Nat
    BY <1>1, LogType
  <2>3. Len(L[n]) <= T[n] + w
    BY DEF Sound, Short
  <2>4. T[n] < new /\ T[n] \in Nat
    BY <1>1, <1>2
  <2> QED BY ONLY <1>1, <2>1, <2>2, <2>3, <2>4, new \in Nat
<1>6. \A q \in Server : D2[q] /\ q # n => D[q] /\ T2[q] = T[q] /\ T[q] # new
  <2> TAKE q \in Server
  <2>1. T[q] # new
    BY <1>1, <1>2
  <2> QED BY <2>1 DEF Elected
<1>7. Extends(T, T2, D, D2, L, L2, h, h2, a, a2, w, w, n, new, K)
  <2>1. T2 \in [Server -> Nat] /\ D2 \in [Server -> BOOLEAN] /\ T2[n] = new
    BY DEF Elected
  <2>2. w >= w
    BY <1>1
  <2> QED BY <1>1, <1>2, <1>5, <1>6, <2>1, <2>2 DEF Extends, Lengthened
<1> QED BY <1>2, <1>3, <1>4, <1>7, ExtendsSound

-----------------------------------------------------------------------------
(***************************************************************************)
(* What a follower and a leader make of a message.                         *)
(***************************************************************************)
\* A node moves to a known term and follows.
LEMMA Follows ==
  ASSUME IsFiniteSet(Server), NEW T, NEW D, NEW L, NEW h, NEW a, NEW w, Sound(T, D, L, h, a, w),
         NEW p \in Server, NEW t \in Nat, T[p] <= t, Known(T, h, t)
  PROVE  Sound([T EXCEPT ![p] = t], [D EXCEPT ![p] = FALSE], L, h, a, w)
<1> DEFINE T2 == [T EXCEPT ![p] = t]
           D2 == [D EXCEPT ![p] = FALSE]
<1>1. T \in [Server -> Nat] /\ D \in [Server -> BOOLEAN]
  BY DEF Sound, Types
<1>2. T2 \in [Server -> Nat] /\ D2 \in [Server -> BOOLEAN]
  BY <1>1
<1>3. /\ T2[p] = t /\ \A q \in Server : q # p => T2[q] = T[q]
      /\ ~ D2[p] /\ \A q \in Server : q # p => D2[q] = D[q]
  BY <1>1
<1> HIDE DEF T2, D2
<1>4. \A q \in Server : T2[q] >= T[q]
  <2> TAKE q \in Server
  <2>1. T[q] \in Nat /\ (q = p => T2[q] = t) /\ (q # p => T2[q] = T[q])
    BY <1>1, <1>3
  <2> QED BY <2>1
<1>5. \A q \in Server : Known(T, h, T2[q])
  <2> TAKE q \in Server
  <2>1. T[q] \in Nat /\ (q = p => T2[q] = t) /\ (q # p => T2[q] = T[q])
    BY <1>1, <1>3
  <2>2. T[q] <= T[q]
    BY <2>1
  <2> QED BY <2>1, <2>2 DEF Known
<1>6. \A q \in Server : D2[q] => D[q] /\ T2[q] = T[q]
  BY <1>3
<1>7. Sound(T2, D2, L, h, a, w)
  BY <1>2, <1>4, <1>5, <1>6, TermsRise
<1> QED BY <1>7 DEF T2, D2

\* A node accepts a request.
LEMMA Accepts ==
  ASSUME IsFiniteSet(Server), NEW T, NEW D, NEW L, NEW h, NEW a, NEW w, Sound(T, D, L, h, a, w),
         NEW p \in Server, NEW m, m.prev \in Nat, m.entries \in Log,
         NEW t \in Nat, T[p] <= t, Len(h[t]) > 0, Slice(m, h[t]),
         HasEntry(L[p], m.prev, m.prev_term)
  PROVE  /\ Sound([T EXCEPT ![p] = t], [D EXCEPT ![p] = FALSE],
                  [L EXCEPT ![p] = Merged(L[p], m)], h, Acks(a, p, t, End(m)), w)
         /\ Grows(h, a, h, Acks(a, p, t, End(m)))
<1> DEFINE T2 == [T EXCEPT ![p] = t]
           D2 == [D EXCEPT ![p] = FALSE]
<1>1. T \in [Server -> Nat] /\ D \in [Server -> BOOLEAN] /\ h \in [Nat -> Log]
  BY DEF Sound, Types
<1>2. T2[p] = t /\ ~ D2[p]
  BY <1>1
<1>3. Known(T, h, t)
  BY DEF Known
<1>4. Sound(T2, D2, L, h, a, w)
  BY <1>3, Follows
<1> HIDE DEF T2, D2
<1>5. Sound(T2, D2, [L EXCEPT ![p] = Merged(L[p], m)], h, Acks(a, p, t, End(m)), w)
  BY <1>2, <1>4, Merges
<1>6. Grows(h, a, h, Acks(a, p, t, End(m)))
  <2>1. a \in [Server -> [Nat -> Nat]] /\ End(m) \in Nat
    BY EndType DEF Sound, Types
  <2>2. OneMore(a, p, t, End(m), Acks(a, p, t, End(m)))
    BY <2>1, AcksGrow
  <2>3. \A s \in Nat : PrefixOf(h[s], h[s])
    BY <1>1, PrefixReflexive
  <2> QED BY <2>2, <2>3 DEF Grows, OneMore
<1> QED BY <1>5, <1>6 DEF T2, D2

\* The commit index that it takes from the request is decided, and so is its own.
LEMMA AcceptsCommit ==
  ASSUME IsFiniteSet(Server), NEW T, NEW D, NEW L, NEW h, NEW a, NEW w, Sound(T, D, L, h, a, w),
         NEW p \in Server, NEW m, m.prev \in Nat, m.entries \in Log, m.commit \in Nat,
         NEW t \in Nat, T[p] <= t, Len(h[t]) > 0, Slice(m, h[t]),
         HasEntry(L[p], m.prev, m.prev_term),
         m.commit <= End(m), Decided(h, a, h[t], m.commit, t),
         NEW c \in Nat, Decided(h, a, L[p], c, T[p])
  PROVE  LET c2 == Max({c, Min({m.commit, Len(Merged(L[p], m))})})
         IN  c2 \in Nat /\ c2 >= c /\ Decided(h, a, Merged(L[p], m), c2, t)
<1> DEFINE lg == L[p]
           merged == Merged(L[p], m)
<1>1. /\ lg \in Log /\ h \in [Nat -> Log] /\ h[t] \in Log /\ T[p] \in Nat
      /\ a \in [Server -> [Nat -> Nat]]
  BY DEF Sound, Types
<1>2. /\ merged \in Log
      /\ \A i \in 1..End(m) : i <= Len(merged) /\ merged[i] = h[t][i]
      /\ \A k \in 0..Len(lg) :
            k <= Len(h[t]) /\ (\A j \in 1..k : lg[j] = h[t][j])
            => k <= Len(merged) /\ \A j \in 1..k : merged[j] = lg[j]
  BY MergedLog
<1> HIDE DEF merged, lg
<1>3. Len(merged) \in Nat /\ Len(lg) \in Nat /\ Len(h[t]) \in Nat /\ End(m) \in Nat
  BY <1>1, <1>2, LogType, EndType
<1>4. Decided(h, a, merged, c, t)
  <2>1. CASE c = 0
    BY <2>1 DEF Decided
  <2>2. CASE c # 0
    <3>1. PICK s \in Nat, i \in Nat :
             /\ s <= T[p] /\ Chosen(h, a, s, i) /\ c <= i
             /\ c <= Len(lg) /\ \A j \in 1..c : lg[j] = h[s][j]
      BY <2>2 DEF Decided, lg
    <3>2. s <= t
      <4>1. T[p] \in Nat /\ T[p] <= t /\ s <= T[p]
        BY <1>1, <3>1
      <4> QED BY ONLY <4>1, s \in Nat, t \in Nat
    <3>3. i <= Len(h[t]) /\ \A j \in 1..i : h[t][j] = h[s][j]
      <4>1. Chosen(h, a, s, i) /\ t >= s
        BY <3>1, <3>2
      <4>2. Holds(h[t], s, i) /\ \A j \in 1..i : h[t][j] = h[s][j]
        BY <4>1, ChosenIsHeld
      <4> QED BY <4>2 DEF Holds
    <3>4. c <= Len(h[t])
      BY <1>3, <3>1, <3>3
    <3>5. \A j \in 1..c : lg[j] = h[t][j]
      BY <3>1, <3>3
    <3>6. c \in 0..Len(lg)
      BY <1>3, <3>1
    <3>7. c <= Len(merged) /\ \A j \in 1..c : merged[j] = lg[j]
      BY <1>2, <3>4, <3>5, <3>6
    <3>8. \A j \in 1..c : merged[j] = h[s][j]
      BY <3>1, <3>7
    <3> QED BY <3>1, <3>2, <3>7, <3>8 DEF Decided
  <2> QED BY <2>1, <2>2
<1>5. m.commit <= Len(merged) /\ Decided(h, a, merged, m.commit, t)
  <2>1. CASE m.commit = 0
    BY <1>3, <2>1 DEF Decided
  <2>2. CASE m.commit # 0
    <3>1. m.commit \in 1..End(m) /\ \A j \in 1..m.commit : j \in 1..End(m)
      BY <1>3, <2>2
    <3>2. m.commit <= Len(merged) /\ \A j \in 1..m.commit : merged[j] = h[t][j]
      BY <1>2, <3>1
    <3>3. PICK s \in Nat, i \in Nat :
             /\ s <= t /\ Chosen(h, a, s, i) /\ m.commit <= i
             /\ \A j \in 1..m.commit : h[t][j] = h[s][j]
      BY <2>2 DEF Decided
    <3>4. \A j \in 1..m.commit : merged[j] = h[s][j]
      BY <3>2, <3>3
    <3> QED BY <3>2, <3>3, <3>4 DEF Decided
  <2> QED BY <2>1, <2>2
<1>6. Min({m.commit, Len(merged)}) = m.commit
  BY <1>3, <1>5, MinOfTwo
<1>7. Max({c, m.commit}) = IF c >= m.commit THEN c ELSE m.commit
  BY MaxOfTwo
<1>8. Max({c, m.commit}) \in Nat /\ Max({c, m.commit}) >= c /\ Decided(h, a, merged, Max({c, m.commit}), t)
  BY <1>4, <1>5, <1>7
<1> QED BY <1>6, <1>8 DEF merged

\* The commit index of a leader that counts what its peers acknowledged.
Counted(lg, t, c, n, mt) ==
    LET stored == {i \in 0..Len(lg) : IsMajority({n} \cup {p \in Peers(n) : mt[p] >= i})}
    IN  IF Max(stored) > c /\ TermAt(lg, Max(stored)) = t THEN Max(stored) ELSE c

\* It is decided, and does not go back.
LEMMA CountedIsDecided ==
  ASSUME IsFiniteSet(Server), NEW T, NEW D, NEW L, NEW h, NEW a, NEW w, Sound(T, D, L, h, a, w),
         NEW n \in Server, D[n], NEW mt \in [Server -> Nat],
         \A p \in Server : mt[p] <= a[p][T[n]],
         NEW c \in Nat, Decided(h, a, L[n], c, T[n])
  PROVE  LET c2 == Counted(L[n], T[n], c, n, mt)
         IN  /\ c2 \in Nat /\ c2 >= c /\ Decided(h, a, L[n], c2, T[n])
             /\ c2 # c => Chosen(h, a, T[n], c2)
<1> DEFINE lg == L[n]
           t == T[n]
           stored == {i \in 0..Len(lg) : IsMajority({n} \cup {p \in Peers(n) : mt[p] >= i})}
           top == Max(stored)
<1>1. /\ lg \in Log /\ t \in Nat /\ lg = h[t] /\ h \in [Nat -> Log]
      /\ a \in [Server -> [Nat -> Nat]] /\ a[n][t] = Len(lg)
  BY DEF Sound, Types, Written, Acknowledged
<1>2. Len(lg) \in Nat
  BY <1>1, LogType
<1> HIDE DEF lg, t
<1>3. ASSUME top > c, TermAt(lg, top) = t
      PROVE  top \in Nat /\ Decided(h, a, lg, top, t) /\ Chosen(h, a, t, top)
  <2>1. stored # {}
    <3>1. IsMajority({n} \cup {p \in Peers(n) : mt[p] >= 0})
      <4>1. {n} \cup {p \in Peers(n) : mt[p] >= 0} = Server
        BY DEF Peers
      <4>2. Cardinality(Server) \in Nat /\ Cardinality(Server) # 0
        BY FS_CardinalityType, FS_EmptySet
      <4> QED BY <4>1, <4>2 DEF IsMajority
    <3>2. 0 \in 0..Len(lg)
      BY <1>2
    <3> QED BY <3>1, <3>2
  <2>2. stored \in SUBSET Nat /\ \A i \in stored : i <= Len(lg)
    BY <1>2
  <2> HIDE DEF stored
  <2>3. top \in stored
    BY <1>2, <2>1, <2>2, MaxIsGreatest
  <2>4. /\ top \in 0..Len(lg)
        /\ IsMajority({n} \cup {p \in Peers(n) : mt[p] >= top})
    BY <2>3 DEF stored
  <2> HIDE DEF top
  <2>5. top \in Nat /\ top \in 1..Len(lg) /\ lg[top].term = t
    BY <1>2, <1>3, <2>4 DEF TermAt
  <2>6. Holds(h[t], t, top)
    BY <1>1, <2>5 DEF Holds
  <2> DEFINE Q == {n} \cup {p \in Peers(n) : mt[p] >= top}
             R == {p \in Server : a[p][t] >= top}
  <2>7. Q \subseteq R
    <3>1. n \in R
      <4>1. Len(lg) >= top
        BY ONLY <1>2, <2>5
      <4> QED BY <1>1, <4>1
    <3>2. ASSUME NEW p \in Peers(n), mt[p] >= top PROVE p \in R
      <4>1. p \in Server /\ mt[p] \in Nat /\ mt[p] <= a[p][t] /\ a[p][t] \in Nat
        BY <1>1 DEF Peers, t
      <4>2. a[p][t] >= top
        BY ONLY <2>5, <3>2, <4>1
      <4> QED BY <4>1, <4>2
    <3> QED BY <3>1, <3>2
  <2>8. Q \in SUBSET Server /\ R \in SUBSET Server /\ IsMajority(Q)
    BY <2>4 DEF Peers
  <2> HIDE DEF Q, R
  <2>9. IsMajority(R)
    BY <2>7, <2>8, MajorityGrows
  <2>10. Chosen(h, a, t, top)
    BY <2>6, <2>9 DEF Chosen, R
  <2>11. Decided(h, a, lg, top, t)
    <3>1. t <= t /\ top <= top /\ top <= Len(lg) /\ \A j \in 1..top : lg[j] = h[t][j]
      <4>1. t <= t /\ top <= top /\ top <= Len(lg)
        BY ONLY <1>1, <1>2, <2>5
      <4> QED BY <1>1, <4>1
    <3> QED BY <1>1, <2>5, <2>10, <3>1 DEF Decided
  <2> QED BY <2>5, <2>10, <2>11
<1>4. Counted(lg, t, c, n, mt) = IF top > c /\ TermAt(lg, top) = t THEN top ELSE c
  BY DEF Counted
<1> HIDE DEF top
<1>5. c >= c /\ Decided(h, a, lg, c, t)
  BY DEF lg, t
<1>6. CASE top > c /\ TermAt(lg, top) = t
  BY <1>3, <1>4, <1>6 DEF lg, t
<1>7. CASE ~ (top > c /\ TermAt(lg, top) = t)
  BY <1>4, <1>5, <1>7 DEF lg, t
<1> QED BY <1>6, <1>7

-----------------------------------------------------------------------------
(***************************************************************************)
(* Messages.                                                               *)
(***************************************************************************)
\* A request is of a leader's log and of what was decided of it, and reaches as far
\* as that when one batch holds the log; a reply tells what its sender acknowledged.
Fine(T, h, a, m) ==
    /\ m.term \in Nat
    /\ \/ /\ m.type = "append"
          /\ m.prev \in Nat /\ m.entries \in Log /\ m.commit \in Nat
          /\ Len(h[m.term]) > 0 /\ Slice(m, h[m.term])
          /\ Decided(h, a, h[m.term], m.commit, m.term)
          /\ Len(h[m.term]) <= MaxBatch => m.commit <= End(m)
       \/ /\ m.type = "reply"
          /\ m.match \in Nat /\ m.success \in BOOLEAN
          /\ Known(T, h, m.term)
          /\ m.success => a[m.src][m.term] >= m.match

\* It stays so.
LEMMA FineGrows ==
  ASSUME IsFiniteSet(Server), MaxBatch \in Nat, NEW T \in [Server -> Nat], NEW T2 \in [Server -> Nat],
         NEW h \in [Nat -> Log], NEW a \in [Server -> [Nat -> Nat]],
         NEW h2 \in [Nat -> Log], NEW a2 \in [Server -> [Nat -> Nat]],
         \A q \in Server : T2[q] >= T[q], Grows(h, a, h2, a2),
         NEW m, m.src \in Server, Fine(T, h, a, m)
  PROVE  Fine(T2, h2, a2, m)
<1> DEFINE t == m.term
           K == h[t]
           K2 == h2[t]
<1>1. t \in Nat /\ K \in Log /\ K2 \in Log /\ PrefixOf(K, K2)
  BY DEF Fine, Grows
<1>2. Len(K) \in Nat /\ Len(K2) \in Nat /\ Len(K) <= Len(K2) /\ \A j \in 1..Len(K) : K2[j] = K[j]
  <2> HIDE DEF K, K2
  <2> QED BY <1>1, LogType DEF PrefixOf
<1>3. CASE m.type = "append"
  <2>1. /\ m.prev \in Nat /\ m.entries \in Log /\ m.commit \in Nat
        /\ Len(K) > 0 /\ Slice(m, K) /\ Decided(h, a, K, m.commit, t)
        /\ (Len(K) <= MaxBatch => m.commit <= End(m))
    BY <1>3 DEF Fine
  <2> HIDE DEF t, K, K2
  <2>2. Len(K2) > 0
    BY <1>2, <2>1
  <2>3. Slice(m, K2)
    BY <1>1, <2>1, SliceGrows
  <2>4. Decided(h2, a2, K2, m.commit, t)
    <3>1. CASE m.commit = 0
      BY <3>1 DEF Decided
    <3>2. CASE m.commit # 0
      <4>1. m.commit <= Len(K)
        BY <2>1, <3>2 DEF Decided
      <4>2. m.commit <= Len(K2) /\ m.commit \in 0..m.commit /\ t <= t
        BY ONLY <1>1, <1>2, <2>1, <4>1
      <4>3. \A j \in 1..m.commit : K2[j] = K[j]
        BY ONLY <1>2, <2>1, <4>1
      <4> QED BY <1>1, <2>1, <4>2, <4>3, DecidedGrows
    <3> QED BY <3>1, <3>2
  <2>5. Len(K2) <= MaxBatch => m.commit <= End(m)
    BY <1>2, <2>1
  <2> QED BY <1>1, <1>3, <2>1, <2>2, <2>3, <2>4, <2>5 DEF Fine, t, K, K2
<1>4. CASE m.type = "reply"
  <2>1. /\ m.match \in Nat /\ m.success \in BOOLEAN
        /\ Known(T, h, t) /\ (m.success => a[m.src][t] >= m.match)
    BY <1>4 DEF Fine
  <2> HIDE DEF t
  <2>2. Known(T2, h2, t)
    <3>1. CASE Len(h[t]) > 0
      BY <1>2, <3>1 DEF Known
    <3>2. ASSUME NEW p \in Server, t <= T[p] PROVE t <= T2[p]
      <4>1. T[p] \in Nat /\ T2[p] \in Nat /\ T2[p] >= T[p]
        OBVIOUS
      <4> QED BY ONLY <1>1, <3>2, <4>1
    <3> QED BY <2>1, <3>1, <3>2 DEF Known
  <2>3. m.success => a2[m.src][t] >= m.match
    <3>1. a2[m.src][t] >= a[m.src][t]
      BY <1>1 DEF Grows
    <3>2. a2[m.src][t] \in Nat /\ a[m.src][t] \in Nat
      BY <1>1
    <3> QED BY ONLY <2>1, <3>1, <3>2
  <2> QED BY <1>1, <1>4, <2>1, <2>2, <2>3 DEF Fine, t
<1> QED BY <1>3, <1>4 DEF Fine

\* A leader's request is fine, whatever it starts from.
LEMMA RequestIsFine ==
  ASSUME NEW T, NEW D, NEW L, NEW h, NEW a, NEW w, Sound(T, D, L, h, a, w),
         NEW n \in Server, D[n], NEW m, m.type = "append", m.term = T[n],
         NEW prev \in 0..Len(L[n]), MaxBatch \in Nat,
         m.prev = prev, m.prev_term = TermAt(L[n], prev), m.entries = Batch(L[n], prev, MaxBatch),
         m.commit \in Nat, Decided(h, a, L[n], m.commit, T[n])
  PROVE  /\ Fine(T, h, a, m)
         /\ Len(L[n]) <= MaxBatch => End(m) = Len(L[n])
<1> DEFINE K == L[n]
<1>1. K \in Log /\ K = h[T[n]] /\ Len(K) > 0 /\ T[n] \in Nat
  BY DEF Sound, Types, Written
<1> HIDE DEF K
<1>2. Len(K) \in Nat /\ prev \in 0..Len(K)
  BY <1>1, LogType DEF K
<1>3. CutFrom(Batch(K, prev, MaxBatch), K, prev, MaxBatch)
  BY <1>1, <1>2, BatchIsSlice
<1>4. m.entries = Batch(K, prev, MaxBatch) /\ m.prev_term = TermAt(K, prev) /\ Decided(h, a, K, m.commit, T[n])
  BY DEF K
<1>5. Slice(m, K) /\ m.entries \in Log /\ m.prev \in Nat
  BY <1>2, <1>3, <1>4 DEF Slice, CutFrom
<1>6. m.commit <= Len(K)
  BY <1>2, <1>4 DEF Decided
<1>7. Len(K) <= MaxBatch => m.commit <= End(m)
  BY <1>3, <1>4, <1>6 DEF End, CutFrom
<1>8. Fine(T, h, a, m)
  BY <1>1, <1>4, <1>5, <1>7 DEF Fine
<1>9. Len(K) <= MaxBatch => End(m) = Len(K)
  BY <1>3, <1>4 DEF End, CutFrom
<1> QED BY <1>8, <1>9 DEF K

-----------------------------------------------------------------------------
(***************************************************************************)
(* Links.                                                                  *)
(***************************************************************************)
Message ==
    [type : {"append"}, src : Server, dst : Server, term : Nat, prev : Nat, prev_term : Nat,
     entries : Log, commit : Nat]
    \cup [type : {"reply"}, src : Server, dst : Server, term : Nat, success : BOOLEAN, match : Nat]

\* What n may have sent to p.
Sent(T, h, a, n, p) == {m \in Message : m.src = n /\ m.dst = p /\ Fine(T, h, a, m)}

\* Every link carries what its sender may have sent.
Linked(ls, T, h, a) ==
    /\ ls \in [Server \X Server -> Seq(Message)]
    /\ \A n, p \in Server : ls[<<n, p>>] \in Seq(Sent(T, h, a, n, p))

\* What is on a link stays true as terms, histories and acknowledgements grow.
LEMMA LinkedGrows ==
  ASSUME IsFiniteSet(Server), MaxBatch \in Nat, NEW T \in [Server -> Nat], NEW T2 \in [Server -> Nat],
         NEW h \in [Nat -> Log], NEW a \in [Server -> [Nat -> Nat]],
         NEW h2 \in [Nat -> Log], NEW a2 \in [Server -> [Nat -> Nat]],
         \A q \in Server : T2[q] >= T[q], Grows(h, a, h2, a2),
         NEW ls, Linked(ls, T, h, a)
  PROVE  Linked(ls, T2, h2, a2)
<1>1. ASSUME NEW n \in Server, NEW p \in Server
      PROVE  ls[<<n, p>>] \in Seq(Sent(T2, h2, a2, n, p))
  <2>1. Sent(T, h, a, n, p) \subseteq Sent(T2, h2, a2, n, p)
    <3> SUFFICES ASSUME NEW m \in Message, m.src = n, m.dst = p, Fine(T, h, a, m)
                 PROVE  Fine(T2, h2, a2, m)
      BY DEF Sent
    <3> QED BY FineGrows
  <2> DEFINE s == ls[<<n, p>>]
             A == Sent(T, h, a, n, p)
             B == Sent(T2, h2, a2, n, p)
  <2>2. s \in Seq(A)
    BY DEF Linked
  <2> HIDE DEF s, A, B
  <2>3. A \subseteq B
    BY <2>1 DEF A, B
  <2>4. s \in Seq(B)
    BY <2>2, <2>3
  <2> QED BY <2>4 DEF s, B
<1> QED BY <1>1 DEF Linked

\* A message is received,
LEMMA LinkedReceives ==
  ASSUME NEW T, NEW h, NEW a, NEW ls, Linked(ls, T, h, a),
         NEW n \in Server, NEW p \in Server, ls[<<n, p>>] # <<>>
  PROVE  /\ Head(ls[<<n, p>>]) \in Sent(T, h, a, n, p)
         /\ Linked([ls EXCEPT ![<<n, p>>] = Tail(@)], T, h, a)
<1> DEFINE s == ls[<<n, p>>]
           ls2 == [ls EXCEPT ![<<n, p>>] = Tail(@)]
           A == Sent(T, h, a, n, p)
<1>1. s \in Seq(A) /\ s \in Seq(Message) /\ s # <<>> /\ ls \in [Server \X Server -> Seq(Message)]
  BY DEF Linked
<1> HIDE DEF s, A
<1>2. Head(s) \in A /\ Tail(s) \in Seq(A) /\ Tail(s) \in Seq(Message)
  BY <1>1, HeadTailProperties
<1>3. ls2 \in [Server \X Server -> Seq(Message)]
  BY <1>1, <1>2 DEF s
<1>4. ASSUME NEW q \in Server, NEW r \in Server
      PROVE  ls2[<<q, r>>] \in Seq(Sent(T, h, a, q, r))
  <2>1. CASE q = n /\ r = p
    BY <1>1, <1>2, <2>1 DEF s, A
  <2>2. CASE ~ (q = n /\ r = p)
    <3>1. ls2[<<q, r>>] = ls[<<q, r>>]
      BY <1>1, <2>2
    <3> QED BY <3>1 DEF Linked
  <2> QED BY <2>1, <2>2
<1>5. Linked(ls2, T, h, a)
  BY <1>3, <1>4 DEF Linked
<1> QED BY <1>2, <1>5 DEF s, A

\* sent,
LEMMA LinkedSends ==
  ASSUME NEW T, NEW h, NEW a, NEW ls, Linked(ls, T, h, a),
         NEW n \in Server, NEW p \in Server, NEW m \in Sent(T, h, a, n, p)
  PROVE  Linked([ls EXCEPT ![<<n, p>>] = Append(@, m)], T, h, a)
<1> DEFINE s == ls[<<n, p>>]
           ls2 == [ls EXCEPT ![<<n, p>>] = Append(@, m)]
           A == Sent(T, h, a, n, p)
<1>1. s \in Seq(A) /\ s \in Seq(Message) /\ ls \in [Server \X Server -> Seq(Message)] /\ m \in A /\ m \in Message
  BY DEF Linked, Sent
<1> HIDE DEF s, A
<1>2. Append(s, m) \in Seq(A) /\ Append(s, m) \in Seq(Message)
  BY <1>1
<1>3. ls2 \in [Server \X Server -> Seq(Message)]
  BY <1>1, <1>2 DEF s
<1>4. ASSUME NEW q \in Server, NEW r \in Server
      PROVE  ls2[<<q, r>>] \in Seq(Sent(T, h, a, q, r))
  <2>1. CASE q = n /\ r = p
    BY <1>1, <1>2, <2>1 DEF s, A
  <2>2. CASE ~ (q = n /\ r = p)
    <3>1. ls2[<<q, r>>] = ls[<<q, r>>]
      BY <1>1, <2>2
    <3> QED BY <3>1 DEF Linked
  <2> QED BY <2>1, <2>2
<1> QED BY <1>3, <1>4 DEF Linked

\* sent to several,
LEMMA LinkedRequests ==
  ASSUME NEW T, NEW h, NEW a, NEW ls, Linked(ls, T, h, a), NEW n \in Server, NEW S,
         \A p \in Server : p \in S => Compacted!Request(n, p) \in Sent(T, h, a, n, p)
  PROVE  Linked(Compacted!Requested(ls, n, S), T, h, a)
<1> DEFINE ls2 == Compacted!Requested(ls, n, S)
<1>1. ls \in [Server \X Server -> Seq(Message)]
  BY DEF Linked
<1>2. \A q, r \in Server :
         ls2[<<q, r>>] = IF q = n /\ r \in S THEN Append(ls[<<q, r>>], Compacted!Request(n, r))
                         ELSE ls[<<q, r>>]
  BY <1>1 DEF Compacted!Requested
<1>3. DOMAIN ls2 = Server \X Server /\ ls2 = [l \in Server \X Server |-> ls2[l]]
  BY <1>1 DEF Compacted!Requested
<1> HIDE DEF ls2
<1>4. ASSUME NEW q \in Server, NEW r \in Server
      PROVE  ls2[<<q, r>>] \in Seq(Sent(T, h, a, q, r)) /\ ls2[<<q, r>>] \in Seq(Message)
  <2> DEFINE s == ls[<<q, r>>]
             A == Sent(T, h, a, q, r)
             m == Compacted!Request(n, r)
  <2>1. s \in Seq(A) /\ s \in Seq(Message)
    BY <1>1 DEF Linked
  <2>2. CASE q = n /\ r \in S
    <3>1. m \in A /\ m \in Message
      BY <2>2 DEF Sent
    <3>2. ls2[<<q, r>>] = Append(s, m)
      BY <1>2, <2>2
    <3> HIDE DEF s, A, m
    <3>3. Append(s, m) \in Seq(A) /\ Append(s, m) \in Seq(Message)
      BY <2>1, <3>1
    <3> QED BY <3>2, <3>3 DEF A
  <2>3. CASE ~ (q = n /\ r \in S)
    <3>1. ls2[<<q, r>>] = s
      BY <1>2, <2>3
    <3> QED BY <2>1, <3>1
  <2> QED BY <2>2, <2>3
<1>5. ls2 \in [Server \X Server -> Seq(Message)]
  <2>1. \A l \in Server \X Server : ls2[l] \in Seq(Message)
    BY <1>4
  <2> QED BY <1>3, <2>1
<1>6. Linked(ls2, T, h, a)
  BY <1>4, <1>5 DEF Linked
<1> QED BY <1>6 DEF ls2

\* or lost with the server they were for, which gets the rest of them.
Ends(s) == {SubSeq(s, i, Len(s)) : i \in 1..(Len(s) + 1)}

LEMMA SuffixType ==
  ASSUME NEW A, NEW s \in Seq(A), NEW e \in Ends(s)
  PROVE  e \in Seq(A)
<1>1. PICK i \in 1..(Len(s) + 1) : e = SubSeq(s, i, Len(s))
  BY DEF Ends
<1>2. \A j \in i..Len(s) : s[j] \in A
  BY <1>1
<1> QED BY <1>1, <1>2

LEMMA LinkedCut ==
  ASSUME NEW T, NEW h, NEW a, NEW ls, Linked(ls, T, h, a), NEW n \in Server,
         NEW left, \A q \in Server : left[q] \in Ends(ls[<<q, n>>])
  PROVE  Linked([l \in DOMAIN ls |-> IF l[2] = n THEN left[l[1]] ELSE ls[l]], T, h, a)
<1> DEFINE ls2 == [l \in DOMAIN ls |-> IF l[2] = n THEN left[l[1]] ELSE ls[l]]
<1>1. ls \in [Server \X Server -> Seq(Message)]
  BY DEF Linked
<1>2. \A q \in Server :
         left[q] \in Seq(Message) /\ left[q] \in Seq(Sent(T, h, a, q, n))
  <2> TAKE q \in Server
  <2>1. ls[<<q, n>>] \in Seq(Message) /\ ls[<<q, n>>] \in Seq(Sent(T, h, a, q, n))
    BY DEF Linked
  <2>2. left[q] \in Ends(ls[<<q, n>>])
    OBVIOUS
  <2> QED BY <2>1, <2>2, SuffixType
<1>3. ls2 \in [Server \X Server -> Seq(Message)]
  <2> SUFFICES ASSUME NEW l \in Server \X Server PROVE ls2[l] \in Seq(Message)
    BY <1>1
  <2>1. PICK q \in Server, r \in Server : l = <<q, r>>
    OBVIOUS
  <2>2. ls2[l] = IF r = n THEN left[q] ELSE ls[l]
    BY <1>1, <2>1
  <2> HIDE DEF ls2
  <2>3. CASE r = n
    BY <1>2, <2>2, <2>3
  <2>4. CASE r # n
    BY <1>1, <2>2, <2>4
  <2> QED BY <2>3, <2>4
<1>4. ASSUME NEW q \in Server, NEW r \in Server
      PROVE  ls2[<<q, r>>] \in Seq(Sent(T, h, a, q, r))
  <2>1. <<q, r>> \in DOMAIN ls /\ <<q, r>>[1] = q /\ <<q, r>>[2] = r
    BY <1>1
  <2>2. ls2[<<q, r>>] = IF r = n THEN left[q] ELSE ls[<<q, r>>]
    BY <2>1
  <2>3. ls[<<q, r>>] \in Seq(Sent(T, h, a, q, r))
    BY DEF Linked
  <2> HIDE DEF ls2
  <2>4. CASE r = n
    BY <1>2, <2>2, <2>4
  <2>5. CASE r # n
    BY <2>2, <2>3, <2>5
  <2> QED BY <2>4, <2>5
<1> QED BY <1>3, <1>4 DEF Linked

-----------------------------------------------------------------------------
(***************************************************************************)
(* Replication: with what the nodes committed, and what the leaders know   *)
(* of their peers, whatever becomes of the messages.                       *)
(***************************************************************************)
Replicated(T, D, L, c, nx, mt, w, h, a) ==
    /\ Sound(T, D, L, h, a, w)
    /\ c \in [Server -> Nat]
    /\ nx \in [Server -> [Server -> Nat \ {0}]] /\ mt \in [Server -> [Server -> Nat]]
    /\ \A n \in Server : Decided(h, a, L[n], c[n], T[n])
    /\ \A n, p \in Server : D[n] => mt[n][p] <= a[p][T[n]]

\* The steps that this is about: terms do not go down, histories grow.
Advances(T, h, a, T2, h2, a2) ==
    (\A q \in Server : T2[q] >= T[q]) /\ Grows(h, a, h2, a2)

\* What is decided is so for any later term.
LEMMA DecidedLater ==
  ASSUME NEW h, NEW a, NEW K, NEW c, NEW u \in Nat, NEW u2 \in Nat, u <= u2,
         Decided(h, a, K, c, u)
  PROVE  Decided(h, a, K, c, u2)
<1>1. \A t \in Nat : t <= u => t <= u2
  OBVIOUS
<1> QED BY <1>1 DEF Decided

\* Nothing has changed.
LEMMA Same ==
  ASSUME NEW T, NEW D, NEW L, NEW c, NEW nx, NEW mt, NEW w, NEW h, NEW a,
         Replicated(T, D, L, c, nx, mt, w, h, a)
  PROVE  Advances(T, h, a, T, h, a)
<1>1. T \in [Server -> Nat] /\ h \in [Nat -> Log] /\ a \in [Server -> [Nat -> Nat]]
  BY DEF Replicated, Sound, Types
<1>2. \A q \in Server : T[q] >= T[q]
  BY <1>1
<1>3. \A s \in Nat : PrefixOf(h[s], h[s])
  BY <1>1, PrefixReflexive
<1>4. \A q \in Server, s \in Nat : a[q][s] \in Nat
  BY <1>1
<1>5. \A q \in Server, s \in Nat : a[q][s] >= a[q][s]
  BY <1>4
<1> QED BY <1>2, <1>3, <1>5 DEF Advances, Grows

\* A node moves to a known term and follows.
LEMMA ReplicatedFollows ==
  ASSUME IsFiniteSet(Server),
         NEW T, NEW D, NEW L, NEW c, NEW nx, NEW mt, NEW w, NEW h, NEW a,
         Replicated(T, D, L, c, nx, mt, w, h, a),
         NEW p \in Server, NEW t \in Nat, T[p] <= t, Known(T, h, t)
  PROVE  /\ Replicated([T EXCEPT ![p] = t], [D EXCEPT ![p] = FALSE], L, c, nx, mt, w, h, a)
         /\ Advances(T, h, a, [T EXCEPT ![p] = t], h, a)
<1> DEFINE T2 == [T EXCEPT ![p] = t]
           D2 == [D EXCEPT ![p] = FALSE]
<1>1. T \in [Server -> Nat] /\ D \in [Server -> BOOLEAN]
  BY DEF Replicated, Sound, Types
<1>2. /\ T2 \in [Server -> Nat] /\ T2[p] = t /\ \A q \in Server : q # p => T2[q] = T[q]
      /\ ~ D2[p] /\ \A q \in Server : q # p => D2[q] = D[q]
  BY <1>1
<1>3. Sound(T2, D2, L, h, a, w)
  <2>1. Sound(T, D, L, h, a, w)
    BY DEF Replicated
  <2> QED BY <2>1, Follows
<1> HIDE DEF T2, D2
<1>4. \A q \in Server : T2[q] >= T[q]
  <2> TAKE q \in Server
  <2>1. T[q] \in Nat /\ (q = p => T2[q] = t) /\ (q # p => T2[q] = T[q])
    BY <1>1, <1>2
  <2> QED BY <2>1
<1>5. ASSUME NEW q \in Server PROVE Decided(h, a, L[q], c[q], T2[q])
  <2>1. T[q] \in Nat /\ T2[q] \in Nat /\ T[q] <= T2[q]
    BY <1>1, <1>2, <1>4
  <2>2. Decided(h, a, L[q], c[q], T[q])
    BY DEF Replicated
  <2> QED BY <2>1, <2>2, DecidedLater
<1>6. ASSUME NEW n \in Server, NEW q \in Server, D2[n] PROVE mt[n][q] <= a[q][T2[n]]
  BY <1>2, <1>6 DEF Replicated
<1>7. Replicated(T2, D2, L, c, nx, mt, w, h, a)
  BY <1>3, <1>5, <1>6 DEF Replicated
<1>8. Advances(T, h, a, T2, h, a)
  BY <1>4, Same DEF Advances
<1> QED BY <1>7, <1>8 DEF T2, D2

\* A node accepts a request.
LEMMA ReplicatedAccepts ==
  ASSUME IsFiniteSet(Server),
         NEW T, NEW D, NEW L, NEW c, NEW nx, NEW mt, NEW w, NEW h, NEW a,
         Replicated(T, D, L, c, nx, mt, w, h, a),
         NEW p \in Server, NEW m, m.type = "append", Fine(T, h, a, m), T[p] <= m.term,
         HasEntry(L[p], m.prev, m.prev_term), m.commit <= End(m)
  PROVE  LET T2 == [T EXCEPT ![p] = m.term]
             a2 == Acks(a, p, m.term, End(m))
         IN  /\ Replicated(T2, [D EXCEPT ![p] = FALSE], [L EXCEPT ![p] = Merged(L[p], m)],
                           [c EXCEPT ![p] = Max({@, Min({m.commit, Len(Merged(L[p], m))})})],
                           nx, mt, w, h, a2)
             /\ Advances(T, h, a, T2, h, a2)
             /\ End(m) \in Nat /\ a2[p][m.term] >= End(m)
<1> DEFINE t == m.term
           T2 == [T EXCEPT ![p] = t]
           D2 == [D EXCEPT ![p] = FALSE]
           merged == Merged(L[p], m)
           L2 == [L EXCEPT ![p] = merged]
           new == Max({c[p], Min({m.commit, Len(merged)})})
           c2 == [c EXCEPT ![p] = new]
           a2 == Acks(a, p, t, End(m))
<1>1. /\ t \in Nat /\ m.prev \in Nat /\ m.entries \in Log /\ m.commit \in Nat
      /\ Len(h[t]) > 0 /\ Slice(m, h[t]) /\ Decided(h, a, h[t], m.commit, t)
  BY DEF Fine
<1>2. /\ Sound(T, D, L, h, a, w)
      /\ T \in [Server -> Nat] /\ D \in [Server -> BOOLEAN] /\ L \in [Server -> Log]
      /\ h \in [Nat -> Log] /\ a \in [Server -> [Nat -> Nat]]
      /\ c \in [Server -> Nat]
  BY DEF Replicated, Sound, Types
<1> HIDE DEF t
<1>3. Sound(T2, D2, L2, h, a2, w) /\ Grows(h, a, h, a2)
  BY <1>1, <1>2, Accepts DEF t
<1>4. new \in Nat /\ new >= c[p] /\ Decided(h, a, merged, new, t)
  <2>1. c[p] \in Nat /\ Decided(h, a, L[p], c[p], T[p])
    BY <1>2 DEF Replicated
  <2> QED BY <1>1, <1>2, <2>1, AcceptsCommit DEF t
<1>5. /\ T2 \in [Server -> Nat] /\ T2[p] = t /\ \A q \in Server : q # p => T2[q] = T[q]
      /\ ~ D2[p] /\ \A q \in Server : q # p => D2[q] = D[q]
  BY <1>1, <1>2
<1> HIDE DEF new
<1>6. /\ L2[p] = merged /\ \A q \in Server : q # p => L2[q] = L[q]
      /\ c2 \in [Server -> Nat] /\ c2[p] = new /\ \A q \in Server : q # p => c2[q] = c[q]
  BY <1>2, <1>4
<1>7. L2 \in [Server -> Log] /\ a2 \in [Server -> [Nat -> Nat]] /\ merged \in Log
  <2>1. L2 \in [Server -> Log] /\ a2 \in [Server -> [Nat -> Nat]]
    BY <1>3 DEF Sound, Types
  <2>2. L2[p] \in Log
    BY <2>1
  <2> QED BY <1>6, <2>1, <2>2
<1>8. End(m) \in Nat /\ a2[p][t] >= End(m)
  <2>1. End(m) \in Nat
    BY <1>1, EndType
  <2>2. OneMore(a, p, t, End(m), Acks(a, p, t, End(m)))
    BY <1>1, <1>2, <2>1, AcksGrow
  <2> QED BY <2>1, <2>2 DEF OneMore
<1> HIDE DEF T2, D2, L2, c2, a2, merged
<1>9. \A q \in Server : T2[q] >= T[q]
  <2> TAKE q \in Server
  <2>1. T[q] \in Nat /\ (q = p => T2[q] = t) /\ (q # p => T2[q] = T[q])
    BY <1>2, <1>5
  <2>2. T[p] <= t
    BY DEF t
  <2> QED BY <1>1, <2>1, <2>2
<1>10. ASSUME NEW q \in Server PROVE Decided(h, a2, L2[q], c2[q], T2[q])
  <2> DEFINE K == L2[q]
             k == c2[q]
             u == T2[q]
  <2>1. Decided(h, a, K, k, u)
    <3>1. CASE q = p
      BY <1>4, <1>5, <1>6, <3>1
    <3>2. CASE q # p
      BY <1>5, <1>6, <3>2 DEF Replicated
    <3> QED BY <3>1, <3>2
  <2>2. K \in Log /\ k \in Nat /\ u \in Nat
    BY <1>5, <1>6, <1>7
  <2> HIDE DEF K, k, u
  <2>3. CASE k = 0
    BY <2>3 DEF Decided, K, k, u
  <2>4. CASE k # 0
    <3>1. k <= Len(K)
      BY <2>1, <2>4 DEF Decided
    <3>2. k \in 0..k /\ u <= u /\ \A j \in 1..k : K[j] = K[j]
      BY <2>2
    <3>3. Decided(h, a2, K, k, u)
      BY <1>2, <1>3, <1>7, <2>1, <2>2, <3>1, <3>2, DecidedGrows
    <3> QED BY <3>3 DEF K, k, u
  <2> QED BY <2>3, <2>4
<1>11. ASSUME NEW n \in Server, NEW q \in Server, D2[n] PROVE mt[n][q] <= a2[q][T2[n]]
  <2>1. D[n] /\ T2[n] = T[n] /\ T[n] \in Nat
    BY <1>2, <1>5, <1>11
  <2>2. mt[n][q] <= a[q][T[n]] /\ mt[n][q] \in Nat
    BY <2>1 DEF Replicated
  <2>3. a2[q][T[n]] >= a[q][T[n]]
    BY <1>3, <2>1 DEF Grows
  <2>4. a2[q][T[n]] \in Nat /\ a[q][T[n]] \in Nat
    BY <1>2, <1>7, <2>1
  <2>5. mt[n][q] <= a2[q][T[n]]
    BY ONLY <2>2, <2>3, <2>4
  <2> QED BY <2>1, <2>5
<1>12. Replicated(T2, D2, L2, c2, nx, mt, w, h, a2)
  BY <1>3, <1>6, <1>10, <1>11 DEF Replicated
<1>13. Advances(T, h, a, T2, h, a2)
  BY <1>3, <1>9 DEF Advances
<1> QED BY <1>8, <1>12, <1>13 DEF T2, D2, L2, c2, a2, merged, new, t
\* Whoever leads knows of its peers what it knew, or nothing.
Remembers(T, D, mt, T2, D2, mt2) ==
    \A n \in Server : D2[n] => \/ D[n] /\ T2[n] = T[n] /\ mt2[n] = mt[n]
                               \/ \A p \in Server : mt2[n][p] = 0

\* Every log has all it had.
LogsGrow(L, L2) == \A q \in Server : PrefixOf(L[q], L2[q])

\* Logs grow, and with them what is replicated.
LEMMA ReplicatedGrows ==
  ASSUME IsFiniteSet(Server),
         NEW T, NEW D, NEW L, NEW c, NEW nx, NEW mt, NEW w, NEW h, NEW a,
         Replicated(T, D, L, c, nx, mt, w, h, a),
         NEW T2, NEW D2, NEW L2, NEW nx2, NEW mt2, NEW w2, NEW h2, NEW a2,
         Sound(T2, D2, L2, h2, a2, w2), Advances(T, h, a, T2, h2, a2),
         LogsGrow(L, L2), Remembers(T, D, mt, T2, D2, mt2),
         nx2 \in [Server -> [Server -> Nat \ {0}]], mt2 \in [Server -> [Server -> Nat]]
  PROVE  Replicated(T2, D2, L2, c, nx2, mt2, w2, h2, a2)
<1>1. /\ h \in [Nat -> Log] /\ a \in [Server -> [Nat -> Nat]] /\ L \in [Server -> Log]
      /\ h2 \in [Nat -> Log] /\ a2 \in [Server -> [Nat -> Nat]] /\ L2 \in [Server -> Log]
      /\ T \in [Server -> Nat] /\ T2 \in [Server -> Nat] /\ c \in [Server -> Nat]
  BY DEF Replicated, Sound, Types
<1>2. Grows(h, a, h2, a2) /\ \A q \in Server : T2[q] >= T[q]
  BY DEF Advances
<1>3. ASSUME NEW q \in Server PROVE Decided(h2, a2, L2[q], c[q], T2[q])
  <2> DEFINE K == L[q]
             K2 == L2[q]
             k == c[q]
             u == T[q]
             u2 == T2[q]
  <2>1. K \in Log /\ K2 \in Log /\ k \in Nat /\ u \in Nat /\ u2 \in Nat /\ u <= u2
    BY <1>1, <1>2
  <2>2. Decided(h, a, K, k, u) /\ PrefixOf(K, K2)
    BY DEF Replicated, LogsGrow
  <2> HIDE DEF K, K2, k, u, u2
  <2>3. Len(K) \in Nat /\ Len(K2) \in Nat
    BY <2>1, LogType
  <2>4. CASE k = 0
    BY <2>4 DEF Decided, K2, k, u2
  <2>5. CASE k # 0
    <3>1. k <= Len(K)
      BY <2>2, <2>5 DEF Decided
    <3>2. k <= Len(K2) /\ k \in 0..k /\ \A j \in 1..k : K2[j] = K[j]
      <4>1. Len(K) <= Len(K2) /\ \A j \in 1..Len(K) : K[j] = K2[j]
        BY <2>2 DEF PrefixOf
      <4>2. \A j \in 1..k : j \in 1..Len(K)
        BY ONLY <2>1, <2>3, <3>1
      <4> QED BY ONLY <2>1, <2>3, <3>1, <4>1, <4>2
    <3>3. Decided(h2, a2, K2, k, u2)
      BY <1>1, <1>2, <2>1, <2>2, <3>2, DecidedGrows
    <3> QED BY <3>3 DEF K2, k, u2
  <2> QED BY <2>4, <2>5
<1>4. ASSUME NEW n \in Server, NEW q \in Server, D2[n] PROVE mt2[n][q] <= a2[q][T2[n]]
  <2>1. T2[n] \in Nat /\ a2[q][T2[n]] \in Nat
    BY <1>1
  <2>2. CASE D[n] /\ T2[n] = T[n] /\ mt2[n] = mt[n]
    <3>1. mt[n][q] <= a[q][T[n]] /\ mt[n][q] \in Nat
      BY <2>2 DEF Replicated
    <3>2. a2[q][T[n]] >= a[q][T[n]] /\ a[q][T[n]] \in Nat
      BY <1>1, <1>2, <2>1, <2>2 DEF Grows
    <3>3. mt[n][q] <= a2[q][T[n]]
      BY ONLY <2>1, <2>2, <3>1, <3>2
    <3> QED BY <2>2, <3>3
  <2>3. CASE \A p \in Server : mt2[n][p] = 0
    <3>1. mt2[n][q] = 0
      BY <2>3
    <3> QED BY <2>1, <3>1
  <2> QED BY <1>4, <2>2, <2>3 DEF Remembers
<1>5. c \in [Server -> Nat]
  BY <1>1
<1> QED BY <1>3, <1>4, <1>5 DEF Replicated

\* Logs grow when one gets an entry more.
LEMMA LengthenedGrows ==
  ASSUME NEW L \in [Server -> Log], NEW n \in Server, NEW K \in Log, NEW t \in Nat,
         Extended(L[n], K, t), NEW L2, Lengthened(L, n, K, L2)
  PROVE  LogsGrow(L, L2)
<1> SUFFICES ASSUME NEW q \in Server PROVE PrefixOf(L[q], L2[q])
  BY DEF LogsGrow
<1>1. CASE q = n
  <2> DEFINE M == L[n]
  <2>1. M \in Log /\ Extended(M, K, t)
    OBVIOUS
  <2> HIDE DEF M
  <2>2. PrefixOf(M, K)
    BY <2>1, ExtendedHolds
  <2> QED BY <1>1, <2>2 DEF M, Lengthened
<1>2. CASE q # n
  <2>1. L2[q] = L[q] /\ L[q] \in Log
    BY <1>2 DEF Lengthened
  <2> QED BY <2>1, PrefixReflexive
<1> QED BY <1>1, <1>2

\* A leader takes a write.
LEMMA ReplicatedProposes ==
  ASSUME IsFiniteSet(Server),
         NEW T, NEW D, NEW L, NEW c, NEW nx, NEW mt, NEW w, NEW h, NEW a,
         Replicated(T, D, L, c, nx, mt, w, h, a), NEW n \in Server, D[n]
  PROVE  \E h2, a2 :
            /\ Replicated(T, D, [L EXCEPT ![n] = Append(@, [term |-> T[n], write |-> TRUE])],
                          c, nx, mt, w + 1, h2, a2)
            /\ Advances(T, h, a, T, h2, a2)
<1> DEFINE t == T[n]
           e == [term |-> t, write |-> TRUE]
           K == Append(L[n], e)
           L2 == [L EXCEPT ![n] = Append(@, e)]
           h2 == [h EXCEPT ![t] = K]
           a2 == Acks(a, n, t, Len(K))
<1>1. /\ Sound(T, D, L, h, a, w) /\ T \in [Server -> Nat] /\ L \in [Server -> Log]
      /\ h \in [Nat -> Log] /\ a \in [Server -> [Nat -> Nat]]
      /\ nx \in [Server -> [Server -> Nat \ {0}]] /\ mt \in [Server -> [Server -> Nat]]
  BY DEF Replicated, Sound, Types
<1>2. t \in Nat \ {0}
  <2> DEFINE M == h[t]
  <2>1. M \in Log /\ Holds(M, t, Len(M)) /\ t \in Nat
    BY <1>1 DEF Sound, Written
  <2> HIDE DEF M
  <2> QED BY <2>1, LogType DEF Holds
<1>3. K \in Log /\ Extended(L[n], K, t)
  <2>1. e \in Entry /\ e.term = t
    BY <1>2 DEF Entry
  <2>2. L[n] \in Log
    BY <1>1
  <2> HIDE DEF e
  <2>3. Append(L[n], e) \in Log /\ Extended(L[n], Append(L[n], e), e.term)
    BY <2>1, <2>2, AppendExtends
  <2> QED BY <2>1, <2>3
<1> HIDE DEF e, K
<1>4. L2 \in [Server -> Log] /\ Lengthened(L, n, K, L2)
  <2>1. L2 = [L EXCEPT ![n] = K]
    BY <1>1 DEF K
  <2> QED BY <1>1, <1>3, <2>1 DEF Lengthened
<1>5. h2 \in [Nat -> Log] /\ Replaced(h, t, K, h2)
  BY <1>1, <1>2, <1>3 DEF Replaced
<1>6. OneMore(a, n, t, Len(K), a2)
  <2>1. Len(K) \in Nat
    BY <1>3, LogType
  <2> QED BY <1>1, <1>2, <2>1, AcksGrow
<1> HIDE DEF L2, h2, a2, t
<1>7. Sound(T, D, L2, h2, a2, w + 1) /\ Grows(h, a, h2, a2)
  BY <1>1, <1>3, <1>4, <1>5, <1>6, Proposes DEF t
<1>8. LogsGrow(L, L2)
  BY <1>1, <1>2, <1>3, <1>4, LengthenedGrows
<1>9. Advances(T, h, a, T, h2, a2)
  BY <1>7, Same DEF Advances
<1>10. Remembers(T, D, mt, T, D, mt)
  BY DEF Remembers
<1>11. Replicated(T, D, L2, c, nx, mt, w + 1, h2, a2)
  BY <1>1, <1>7, <1>8, <1>9, <1>10, ReplicatedGrows
<1> QED BY <1>9, <1>11 DEF L2, e, t

\* The voters V move to the term t, and n leads.
Elects(T, D, L, nx, mt, n, V, t, Tn, Dn, Ln, nxn, mtn) ==
    /\ t = Max({T[m] : m \in V}) + 1
    /\ Tn = [m \in Server |-> IF m \in V THEN t ELSE T[m]]
    /\ Dn = [m \in Server |-> IF m \in V THEN m = n ELSE D[m]]
    /\ Ln = [L EXCEPT ![n] = Append(@, [term |-> t, write |-> FALSE])]
    /\ nxn = [nx EXCEPT ![n] = [p \in Server |-> Len(L[n]) + 1]]
    /\ mtn = [mt EXCEPT ![n] = [p \in Server |-> 0]]

\* A majority elects a leader.
LEMMA ReplicatedElects ==
  ASSUME IsFiniteSet(Server),
         NEW T, NEW D, NEW L, NEW c, NEW nx, NEW mt, NEW w, NEW h, NEW a,
         Replicated(T, D, L, c, nx, mt, w, h, a),
         NEW n \in Server, NEW V \in SUBSET Server, n \in V, IsMajority(V),
         FindUpToDate(V, L, n),
         NEW t, NEW Tn, NEW Dn, NEW Ln, NEW nxn, NEW mtn,
         Elects(T, D, L, nx, mt, n, V, t, Tn, Dn, Ln, nxn, mtn)
  PROVE  /\ t \in Nat /\ Len(h[t]) = 0 /\ \A q \in Server : T[q] < t
         /\ \E h2, a2 : /\ Replicated(Tn, Dn, Ln, c, nxn, mtn, w, h2, a2)
                        /\ Advances(T, h, a, Tn, h2, a2)
<1> DEFINE new == Max({T[m] : m \in V}) + 1
           T2 == [m \in Server |-> IF m \in V THEN new ELSE T[m]]
           D2 == [m \in Server |-> IF m \in V THEN m = n ELSE D[m]]
           e == [term |-> new, write |-> FALSE]
           K == Append(L[n], e)
           L2 == [L EXCEPT ![n] = Append(@, e)]
           h2 == [h EXCEPT ![new] = K]
           a2 == Acks(a, n, new, Len(K))
           nx2 == [nx EXCEPT ![n] = [p \in Server |-> Len(L[n]) + 1]]
           mt2 == [mt EXCEPT ![n] = [p \in Server |-> 0]]
<1>1. /\ Sound(T, D, L, h, a, w) /\ T \in [Server -> Nat] /\ L \in [Server -> Log]
      /\ D \in [Server -> BOOLEAN]
      /\ h \in [Nat -> Log] /\ a \in [Server -> [Nat -> Nat]]
      /\ nx \in [Server -> [Server -> Nat \ {0}]] /\ mt \in [Server -> [Server -> Nat]]
  BY DEF Replicated, Sound, Types
<1>2. /\ new \in Nat \ {0}
      /\ \A q \in V : T[q] < new
      /\ \E q \in V : new = T[q] + 1
  <2> DEFINE S == {T[m] : m \in V}
  <2>1. S \in SUBSET Nat /\ S # {}
    BY <1>1
  <2>2. PICK top \in Nat : Top(T, h, top)
    BY <1>1 DEF Sound
  <2>3. \A x \in S : x <= top
    BY <2>2 DEF Top
  <2>4. Max(S) \in S /\ \A x \in S : x <= Max(S)
    BY <2>1, <2>3, MaxIsGreatest
  <2>5. \A q \in V : T[q] \in S
    OBVIOUS
  <2>6. \E q \in V : Max(S) = T[q]
    BY <2>4
  <2> HIDE DEF S
  <2>7. Max(S) \in Nat /\ new = Max(S) + 1
    BY <2>1, <2>4 DEF S
  <2> HIDE DEF new
  <2>8. \A q \in V : T[q] <= Max(S) /\ T[q] \in Nat
    BY <1>1, <2>4, <2>5
  <2> QED BY <2>6, <2>7, <2>8
<1> HIDE DEF new
<1>3. Elected(T, T2, D, D2, V, n, new)
  <2>1. T2 \in [Server -> Nat]
    BY <1>1, <1>2
  <2>2. D2 \in [Server -> BOOLEAN]
    BY <1>1
  <2>3. \A q \in V : T2[q] = new /\ (D2[q] => q = n)
    OBVIOUS
  <2>4. \A q \in Server : q \notin V => T2[q] = T[q] /\ D2[q] = D[q]
    OBVIOUS
  <2> HIDE DEF T2, D2
  <2> QED BY <1>2, <2>1, <2>2, <2>3, <2>4 DEF Elected
<1>4. nx2 \in [Server -> [Server -> Nat \ {0}]]
  <2>1. Len(L[n]) + 1 \in Nat \ {0}
    <3>1. Len(L[n]) \in Nat
      BY <1>1, LogType
    <3> QED BY <3>1
  <2> QED BY <1>1, <2>1
<1>5. mt2 \in [Server -> [Server -> Nat]] /\ \A p \in Server : mt2[n][p] = 0
  BY <1>1
<1>6. K \in Log /\ Extended(L[n], K, new)
  <2>1. e \in Entry /\ e.term = new
    BY <1>2 DEF Entry
  <2>2. L[n] \in Log
    BY <1>1
  <2> HIDE DEF e
  <2>3. Append(L[n], e) \in Log /\ Extended(L[n], Append(L[n], e), e.term)
    BY <2>1, <2>2, AppendExtends
  <2> QED BY <2>1, <2>3
<1> HIDE DEF e, K
<1>7. L2 \in [Server -> Log] /\ Lengthened(L, n, K, L2)
  <2>1. L2 = [L EXCEPT ![n] = K]
    BY <1>1 DEF K
  <2> QED BY <1>1, <1>6, <2>1 DEF Lengthened
<1>8. h2 \in [Nat -> Log] /\ Replaced(h, new, K, h2)
  BY <1>1, <1>2, <1>6 DEF Replaced
<1>9. OneMore(a, n, new, Len(K), a2)
  <2>1. Len(K) \in Nat
    BY <1>6, LogType
  <2> QED BY <1>1, <1>2, <2>1, AcksGrow
<1>10. \A q \in Server : q # n /\ D2[q] => D[q] /\ T2[q] = T[q] /\ mt2[q] = mt[q]
  BY <1>1
<1> HIDE DEF T2, D2, L2, h2, a2, nx2, mt2
<1>11. Sound(T2, D2, L2, h2, a2, w) /\ Grows(h, a, h2, a2)
  <2>1. new \in Nat
    BY <1>2
  <2> QED BY <1>1, <1>3, <1>6, <1>7, <1>8, <1>9, <2>1, Wins
<1>12. /\ \A q \in Server : T2[q] >= T[q] /\ T[q] < new
       /\ Len(h[new]) = 0
  <2>1. Sound(T, D, L, h, a, w) /\ new \in Nat /\ Elected(T, T2, D, D2, V, n, new)
    BY <1>1, <1>2, <1>3
  <2> QED BY <2>1, ElectedTerms
<1>13. LogsGrow(L, L2)
  BY <1>1, <1>2, <1>6, <1>7, LengthenedGrows
<1>14. Advances(T, h, a, T2, h2, a2)
  BY <1>11, <1>12 DEF Advances
<1>15. Remembers(T, D, mt, T2, D2, mt2)
  BY <1>5, <1>10 DEF Remembers
<1>16. Replicated(T2, D2, L2, c, nx2, mt2, w, h2, a2)
  BY <1>4, <1>5, <1>11, <1>13, <1>14, <1>15, ReplicatedGrows
<1>17. new \in Nat /\ Len(h[new]) = 0 /\ \A q \in Server : T[q] < new
  BY <1>2, <1>12
<1>18. t = new /\ Tn = T2 /\ Dn = D2 /\ Ln = L2 /\ nxn = nx2 /\ mtn = mt2
  BY DEF Elects, T2, D2, L2, nx2, mt2, e, new
<1> QED BY <1>14, <1>16, <1>17, <1>18

\* What a leader knows of its peers after a reply that tells of success.
Matched(T, mt, n, m) ==
    IF m.term = T[n] THEN [mt[n] EXCEPT ![m.src] = Max({@, m.match})] ELSE mt[n]

\* A leader counts.
LEMMA ReplicatedCounts ==
  ASSUME IsFiniteSet(Server),
         NEW T, NEW D, NEW L, NEW c, NEW nx, NEW mt, NEW w, NEW h, NEW a,
         Replicated(T, D, L, c, nx, mt, w, h, a), NEW n \in Server, D[n],
         NEW m, m.type = "reply", m.success, m.src \in Server, Fine(T, h, a, m),
         NEW next2 \in [Server -> Nat \ {0}]
  PROVE  LET mtn == Matched(T, mt, n, m)
             c2 == Counted(L[n], T[n], c[n], n, mtn)
         IN  /\ mtn \in [Server -> Nat]
             /\ c2 \in Nat /\ c2 >= c[n] /\ (c2 # c[n] => Chosen(h, a, T[n], c2))
             /\ Decided(h, a, L[n], c2, T[n])
             /\ Replicated(T, D, L, [c EXCEPT ![n] = c2], [nx EXCEPT ![n] = next2],
                           [mt EXCEPT ![n] = mtn], w, h, a)
<1> DEFINE mtn == Matched(T, mt, n, m)
           c2 == Counted(L[n], T[n], c[n], n, mtn)
           cc == [c EXCEPT ![n] = c2]
           nn == [nx EXCEPT ![n] = next2]
           mm == [mt EXCEPT ![n] = mtn]
<1>1. /\ Sound(T, D, L, h, a, w) /\ T \in [Server -> Nat]
      /\ a \in [Server -> [Nat -> Nat]] /\ c \in [Server -> Nat]
      /\ nx \in [Server -> [Server -> Nat \ {0}]] /\ mt \in [Server -> [Server -> Nat]]
      /\ \A p \in Server : mt[n][p] <= a[p][T[n]]
  BY DEF Replicated, Sound, Types
<1>2. m.match \in Nat /\ a[m.src][m.term] >= m.match /\ m.term \in Nat
  BY DEF Fine
<1>3. mtn \in [Server -> Nat] /\ \A p \in Server : mtn[p] <= a[p][T[n]]
  <2>1. CASE m.term = T[n]
    <3> DEFINE x == mt[n][m.src]
               top == Max({x, m.match})
    <3>1. x \in Nat
      BY <1>1
    <3>2. top = IF x >= m.match THEN x ELSE m.match
      BY <1>2, <3>1, MaxOfTwo
    <3>3. top \in Nat /\ top <= a[m.src][T[n]]
      BY <1>1, <1>2, <2>1, <3>1, <3>2
    <3> HIDE DEF top
    <3>4. mtn = [mt[n] EXCEPT ![m.src] = top]
      BY <2>1 DEF Matched, top
    <3>5. mtn \in [Server -> Nat]
      BY <1>1, <3>3, <3>4
    <3>6. \A p \in Server : mtn[p] = IF p = m.src THEN top ELSE mt[n][p]
      BY <1>1, <3>4
    <3> HIDE DEF mtn
    <3> QED BY <1>1, <3>3, <3>5, <3>6
  <2>2. CASE m.term # T[n]
    BY <1>1, <2>2 DEF Matched
  <2> QED BY <2>1, <2>2
<1> HIDE DEF mtn
<1>4. c[n] \in Nat /\ Decided(h, a, L[n], c[n], T[n])
  BY <1>1 DEF Replicated
<1>5. /\ c2 \in Nat /\ c2 >= c[n] /\ Decided(h, a, L[n], c2, T[n])
      /\ c2 # c[n] => Chosen(h, a, T[n], c2)
  BY <1>1, <1>3, <1>4, CountedIsDecided
<1> HIDE DEF c2
<1>6. cc \in [Server -> Nat] /\ nn \in [Server -> [Server -> Nat \ {0}]] /\ mm \in [Server -> [Server -> Nat]]
  BY <1>1, <1>3, <1>5
<1>7. ASSUME NEW q \in Server PROVE Decided(h, a, L[q], cc[q], T[q])
  <2>1. Decided(h, a, L[q], c[q], T[q])
    BY DEF Replicated
  <2>2. cc[q] = IF q = n THEN c2 ELSE c[q]
    BY <1>1
  <2> HIDE DEF cc
  <2>3. CASE q = n
    BY <1>5, <2>2, <2>3
  <2>4. CASE q # n
    BY <2>1, <2>2, <2>4
  <2> QED BY <2>3, <2>4
<1>8. ASSUME NEW q \in Server, NEW p \in Server, D[q] PROVE mm[q][p] <= a[p][T[q]]
  <2>1. CASE q = n
    BY <1>1, <1>3, <2>1
  <2>2. CASE q # n
    BY <1>1, <1>8, <2>2 DEF Replicated
  <2> QED BY <2>1, <2>2
<1> HIDE DEF cc, nn, mm
<1>9. Replicated(T, D, L, cc, nn, mm, w, h, a)
  BY <1>1, <1>6, <1>7, <1>8 DEF Replicated
<1> QED BY <1>3, <1>5, <1>9 DEF cc, nn, mm, c2, mtn

\* A leader tries an earlier entry, or what it counted is not what it knew last.
LEMMA ReplicatedTries ==
  ASSUME NEW T, NEW D, NEW L, NEW c, NEW nx, NEW mt, NEW w, NEW h, NEW a,
         Replicated(T, D, L, c, nx, mt, w, h, a),
         NEW nx2 \in [Server -> [Server -> Nat \ {0}]]
  PROVE  Replicated(T, D, L, c, nx2, mt, w, h, a)
BY DEF Replicated

\* A node restarts, behind in what it knows to be committed.
LEMMA ReplicatedRestarts ==
  ASSUME IsFiniteSet(Server),
         NEW T, NEW D, NEW L, NEW c, NEW nx, NEW mt, NEW w, NEW h, NEW a,
         Replicated(T, D, L, c, nx, mt, w, h, a), NEW n \in Server, NEW k \in 0..c[n]
  PROVE  Replicated(T, [D EXCEPT ![n] = FALSE], L, [c EXCEPT ![n] = k], nx, mt, w, h, a)
<1> DEFINE D2 == [D EXCEPT ![n] = FALSE]
           c2 == [c EXCEPT ![n] = k]
<1>1. /\ Sound(T, D, L, h, a, w) /\ T \in [Server -> Nat] /\ D \in [Server -> BOOLEAN]
      /\ h \in [Nat -> Log] /\ c \in [Server -> Nat]
  BY DEF Replicated, Sound, Types
<1>2. D2 = [D EXCEPT ![n] = FALSE] /\ [T EXCEPT ![n] = T[n]] = T
  BY <1>1
<1>3. T[n] \in Nat /\ T[n] <= T[n]
  BY <1>1
<1>4. Known(T, h, T[n])
  BY <1>3 DEF Known
<1>5. Sound([T EXCEPT ![n] = T[n]], [D EXCEPT ![n] = FALSE], L, h, a, w)
  BY <1>1, <1>3, <1>4, Follows
<1>6. Sound(T, D2, L, h, a, w)
  BY <1>2, <1>5
<1>7. c2 \in [Server -> Nat] /\ c2[n] = k /\ \A q \in Server : q # n => c2[q] = c[q]
  BY <1>1
<1>8. \A q \in Server : D2[q] => D[q]
  BY <1>1
<1> HIDE DEF D2, c2
<1>9. ASSUME NEW q \in Server PROVE Decided(h, a, L[q], c2[q], T[q])
  <2>1. Decided(h, a, L[q], c[q], T[q])
    BY DEF Replicated
  <2>2. CASE q # n
    BY <1>7, <2>1, <2>2
  <2>3. CASE q = n /\ k = 0
    BY <1>7, <2>3 DEF Decided
  <2>4. CASE q = n /\ k # 0
    <3>1. c[n] # 0 /\ c[n] \in Nat /\ k \in Nat /\ k <= c[n]
      BY <1>1, <2>4
    <3>2. PICK t \in Nat, i \in Nat :
             /\ t <= T[n] /\ Chosen(h, a, t, i) /\ c[n] <= i
             /\ c[n] <= Len(L[n]) /\ \A j \in 1..c[n] : L[n][j] = h[t][j]
      BY <2>1, <2>4, <3>1 DEF Decided
    <3>3. Len(L[n]) \in Nat
      BY <1>1, LogType DEF Sound, Types
    <3>4. k <= i /\ k <= Len(L[n]) /\ \A j \in 1..k : j \in 1..c[n]
      BY ONLY <3>1, <3>2, <3>3
    <3>5. Decided(h, a, L[n], k, T[n])
      BY <3>2, <3>4 DEF Decided
    <3> QED BY <1>7, <2>4, <3>5
  <2> QED BY <2>2, <2>3, <2>4
<1>10. Replicated(T, D2, L, c2, nx, mt, w, h, a)
  BY <1>6, <1>7, <1>8, <1>9 DEF Replicated
<1> QED BY <1>10 DEF D2, c2

\* No two nodes differ on what both have committed.
LEMMA ReplicatedAgree ==
  ASSUME IsFiniteSet(Server),
         NEW T, NEW D, NEW L, NEW c, NEW nx, NEW mt, NEW w, NEW h, NEW a,
         Replicated(T, D, L, c, nx, mt, w, h, a), NEW n \in Server, NEW p \in Server,
         NEW i \in 1..Min({c[n], c[p]})
  PROVE  L[n][i] = L[p][i]
<1> DEFINE K == L[n]
           M == L[p]
           k == c[n]
           d == c[p]
           u == T[n]
           v == T[p]
<1>1. /\ Sound(T, D, L, h, a, w) /\ K \in Log /\ M \in Log /\ k \in Nat /\ d \in Nat
      /\ u \in Nat /\ v \in Nat /\ Decided(h, a, K, k, u) /\ Decided(h, a, M, d, v)
  BY DEF Replicated, Sound, Types
<1>2. i \in Nat \ {0} /\ i <= k /\ i <= d
  <2>1. Min({k, d}) = IF k <= d THEN k ELSE d
    BY <1>1, MinOfTwo
  <2> QED BY <1>1, <2>1
<1> HIDE DEF K, M, k, d, u, v
<1>3. K[i] = M[i]
  BY <1>1, <1>2, DecidedAgree
<1> QED BY <1>3 DEF K, M

-----------------------------------------------------------------------------
(***************************************************************************)
(* Catching up (CatchUp.tla).                                              *)
(***************************************************************************)
CatchUpHolds(T, D, L, c, b, s, nx, mt, ls, w, h, a) ==
    /\ Replicated(T, D, L, c, nx, mt, w, h, a)
    /\ b \in [Server -> Nat] /\ s \in [Server -> Nat]
    /\ Linked(ls, T, h, a)

\* The invariant of catching up: some histories and acknowledgements explain the state.
CatchUpInv ==
    \E h, a : CatchUpHolds(term, leads, log, commit, base, snapshot, next, match, links, writes, h, a)

\* A request reaches as far as what it calls committed.
RequestsCover ==
    \A n, p \in Server : \A i \in DOMAIN links[<<n, p>>] :
        LET m == links[<<n, p>>][i] IN m.type = "append" => m.commit <= End(m)

\* What CatchUp knows of logs is what this module does.
LEMMA SameOperators ==
  /\ \A S : Compacted!Max(S) = Max(S) /\ Compacted!Min(S) = Min(S)
  /\ \A lg, i : Compacted!TermAt(lg, i) = TermAt(lg, i)
  /\ \A lg : Compacted!LastTerm(lg) = LastTerm(lg)
  /\ \A lg, i, t : Compacted!HasEntry(lg, i, t) = HasEntry(lg, i, t)
  /\ \A lg, prev, max : Compacted!Batch(lg, prev, max) = Batch(lg, prev, max)
  /\ \A lg, prev, batch : Compacted!AppendNewEntries(lg, prev, batch) = AppendNewEntries(lg, prev, batch)
  /\ \A lg, t, i : Compacted!CandidateIsUpToDate(lg, t, i) = CandidateIsUpToDate(lg, t, i)
  /\ \A n : Compacted!Peers(n) = Peers(n)
  /\ \A S : Compacted!IsMajority(S) = IsMajority(S)
<1>1. \A S : Compacted!Max(S) = Max(S) /\ Compacted!Min(S) = Min(S)
  BY DEF Compacted!Max, Max, Compacted!Min, Min
<1>2. \A lg, i : Compacted!TermAt(lg, i) = TermAt(lg, i)
  BY DEF Compacted!TermAt, TermAt
<1>3. \A lg : Compacted!LastTerm(lg) = LastTerm(lg)
  BY <1>2 DEF Compacted!LastTerm, LastTerm
<1>4. \A lg, i, t : Compacted!HasEntry(lg, i, t) = HasEntry(lg, i, t)
  BY <1>2 DEF Compacted!HasEntry, HasEntry
<1>5. \A lg, prev, max : Compacted!Batch(lg, prev, max) = Batch(lg, prev, max)
  BY <1>1 DEF Compacted!Batch, Batch
<1>6. \A lg, prev, batch : Compacted!Disagreements(lg, prev, batch) = Disagreements(lg, prev, batch)
  BY <1>4 DEF Compacted!Disagreements, Disagreements
<1>7. \A lg, prev, batch : Compacted!KeptLength(lg, prev, batch) = KeptLength(lg, prev, batch)
  BY <1>1, <1>6 DEF Compacted!KeptLength, KeptLength
<1>8. \A lg, prev, batch : Compacted!AppendNewEntries(lg, prev, batch) = AppendNewEntries(lg, prev, batch)
  BY <1>6, <1>7 DEF Compacted!AppendNewEntries, AppendNewEntries
<1>9. \A lg, t, i : Compacted!CandidateIsUpToDate(lg, t, i) = CandidateIsUpToDate(lg, t, i)
  BY <1>3 DEF Compacted!CandidateIsUpToDate, CandidateIsUpToDate
<1>10. (\A n : Compacted!Peers(n) = Peers(n)) /\ (\A S : Compacted!IsMajority(S) = IsMajority(S))
  <2>1. \A S : Compacted!Cardinality(S) = Cardinality(S)
    BY DEF Compacted!Cardinality, Cardinality, Compacted!IsFiniteSet, IsFiniteSet
  <2> QED BY <2>1 DEF Compacted!Peers, Peers, Compacted!IsMajority, IsMajority
<1> QED BY <1>1, <1>2, <1>3, <1>4, <1>5, <1>8, <1>9, <1>10

\* A leader asks in a request only for what it may.
LEMMA RequestIsSent ==
  ASSUME MaxBatch \in Nat, NEW h, NEW a, NEW w,
         Sound(term', leads', log', h, a, w),
         NEW n \in Server, NEW p \in Server, leads'[n], next'[n][p] \in Nat \ {0},
         base[n] \in Nat, commit[n] \in Nat, Decided(h, a, log'[n], commit[n], term'[n])
  PROVE  Compacted!Request(n, p) \in Sent(term', h, a, n, p)
<1> DEFINE K == log'[n]
           prev == Compacted!Prev(n, p)
           m == Compacted!Request(n, p)
<1>1. K \in Log /\ term'[n] \in Nat
  BY DEF Sound, Types
<1>2. Len(K) \in Nat
  BY <1>1, LogType
<1>3. prev \in 0..Len(K)
  <2> DEFINE x == next'[n][p] - 1
  <2>1. x \in Nat
    OBVIOUS
  <2> HIDE DEF x
  <2>2. Max({x, base[n]}) \in Nat
    BY <2>1, MaxOfTwo
  <2> QED BY <1>2, <2>2, SameOperators DEF Compacted!Prev, x
<1>4. m = [type |-> "append", src |-> n, dst |-> p, term |-> term'[n], prev |-> prev,
           prev_term |-> TermAt(K, prev), entries |-> Batch(K, prev, MaxBatch), commit |-> commit[n]]
  BY SameOperators DEF Compacted!Request
<1> HIDE DEF K, prev, m
<1>5. TermAt(K, prev) \in Nat
  BY <1>1, <1>3, TermAtType
<1>6. Batch(K, prev, MaxBatch) \in Log
  BY <1>1, <1>3, BatchType DEF Log
<1>7. m \in Message /\ m.src = n /\ m.dst = p
  BY <1>1, <1>2, <1>3, <1>4, <1>5, <1>6 DEF Message
<1>8. Fine(term', h, a, m)
  <2>1. /\ m.type = "append" /\ m.term = term'[n] /\ m.prev = prev
        /\ m.prev_term = TermAt(log'[n], prev) /\ m.entries = Batch(log'[n], prev, MaxBatch)
        /\ m.commit = commit[n] /\ prev \in 0..Len(log'[n])
    BY <1>3, <1>4 DEF K
  <2>2. m.commit \in Nat /\ Decided(h, a, log'[n], m.commit, term'[n])
    BY <2>1
  <2> QED BY <2>1, <2>2, RequestIsFine
<1> QED BY <1>7, <1>8 DEF Sent, m

\* To as many peers as it likes.
LEMMA Requests ==
  ASSUME MaxBatch \in Nat, NEW h, NEW a, NEW w, NEW c, NEW nx, NEW mt,
         Replicated(term', leads', log', c, next', mt, w, h, a),
         NEW n \in Server, leads'[n], base[n] \in Nat, commit[n] \in Nat,
         Decided(h, a, log'[n], commit[n], term'[n]),
         NEW ls, Linked(ls, term', h, a), NEW S
  PROVE  Linked(Compacted!Requested(ls, n, S), term', h, a)
<1>1. Sound(term', leads', log', h, a, w) /\ \A p \in Server : next'[n][p] \in Nat \ {0}
  BY DEF Replicated
<1>2. \A p \in Server : p \in S => Compacted!Request(n, p) \in Sent(term', h, a, n, p)
  BY <1>1, RequestIsSent
<1> QED BY <1>2, LinkedRequests

\* What links carry is carried by them after a step.
LEMMA LinkedAdvances ==
  ASSUME IsFiniteSet(Server), MaxBatch \in Nat,
         NEW T, NEW D, NEW L, NEW c, NEW nx, NEW mt, NEW w, NEW h, NEW a,
         NEW T2, NEW D2, NEW L2, NEW c2, NEW nx2, NEW mt2, NEW w2, NEW h2, NEW a2,
         Replicated(T, D, L, c, nx, mt, w, h, a), Replicated(T2, D2, L2, c2, nx2, mt2, w2, h2, a2),
         Advances(T, h, a, T2, h2, a2), NEW ls, Linked(ls, T, h, a)
  PROVE  Linked(ls, T2, h2, a2)
<1>1. /\ T \in [Server -> Nat] /\ T2 \in [Server -> Nat]
      /\ h \in [Nat -> Log] /\ a \in [Server -> [Nat -> Nat]]
      /\ h2 \in [Nat -> Log] /\ a2 \in [Server -> [Nat -> Nat]]
  BY DEF Replicated, Sound, Types
<1>2. (\A q \in Server : T2[q] >= T[q]) /\ Grows(h, a, h2, a2)
  BY DEF Advances
<1> QED BY <1>1, <1>2, LinkedGrows

\* An election (_win_election) keeps the invariant.
LEMMA CatchUpElects ==
  ASSUME IsFiniteSet(Server), MaxBatch \in Nat, NEW h, NEW a,
         CatchUpHolds(term, leads, log, commit, base, snapshot, next, match, links, writes, h, a),
         NEW n \in Server, NEW voters \in SUBSET Server, Compacted!Elect(n, voters)
  PROVE  CatchUpInv'
<1> DEFINE new == Max({term[m] : m \in voters}) + 1
           T2 == [m \in Server |-> IF m \in voters THEN new ELSE term[m]]
           D2 == [m \in Server |-> IF m \in voters THEN m = n ELSE leads[m]]
           L2 == [log EXCEPT ![n] = Append(@, [term |-> new, write |-> FALSE])]
           nx2 == [next EXCEPT ![n] = [p \in Server |-> Len(log[n]) + 1]]
           mt2 == [match EXCEPT ![n] = [p \in Server |-> 0]]
<1>1. n \in voters /\ IsMajority(voters) /\ FindUpToDate(voters, log, n)
  BY SameOperators DEF Compacted!Elect, Compacted!Preferred, FindUpToDate
<1>2. /\ term' = T2 /\ leads' = D2 /\ log' = L2 /\ next' = nx2 /\ match' = mt2
      /\ commit' = commit /\ base' = base /\ snapshot' = snapshot /\ writes' = writes
      /\ links' = Compacted!Requested(links, n, Peers(n) \ {})
  BY SameOperators DEF Compacted!Elect, Compacted!Replicate, Compacted!bounds
<1>3. /\ Replicated(term, leads, log, commit, next, match, writes, h, a)
      /\ base \in [Server -> Nat] /\ snapshot \in [Server -> Nat] /\ Linked(links, term, h, a)
  BY DEF CatchUpHolds
<1>4. /\ Elects(term, leads, log, next, match, n, voters, new, T2, D2, L2, nx2, mt2)
      /\ D2[n]
  BY <1>1 DEF Elects
<1> HIDE DEF T2, D2, L2, nx2, mt2, new
<1>5. PICK h2, a2 : /\ Replicated(term', leads', log', commit, next', match', writes, h2, a2)
                    /\ Advances(term, h, a, term', h2, a2)
  BY <1>1, <1>2, <1>3, <1>4, ReplicatedElects
<1>6. Linked(links, term', h2, a2)
  BY <1>3, <1>5, LinkedAdvances
<1>7. leads'[n] /\ base[n] \in Nat /\ commit[n] \in Nat
  BY <1>2, <1>3, <1>4, <1>5 DEF Replicated
<1>8. Decided(h2, a2, log'[n], commit[n], term'[n])
  BY <1>5 DEF Replicated
<1>9. Linked(links', term', h2, a2)
  BY <1>2, <1>5, <1>6, <1>7, <1>8, Requests
<1>10. CatchUpHolds(term', leads', log', commit', base', snapshot', next', match', links', writes', h2, a2)
  BY <1>2, <1>3, <1>5, <1>9 DEF CatchUpHolds
<1> QED BY <1>10 DEF CatchUpInv

\* A leader that appends a client's command (submit) keeps it.
LEMMA CatchUpWrites ==
  ASSUME IsFiniteSet(Server), MaxBatch \in Nat, NEW h, NEW a,
         CatchUpHolds(term, leads, log, commit, base, snapshot, next, match, links, writes, h, a),
         NEW n \in Server, Compacted!Write(n)
  PROVE  CatchUpInv'
<1> DEFINE L2 == [log EXCEPT ![n] = Append(@, [term |-> term[n], write |-> TRUE])]
<1>1. leads[n]
  BY DEF Compacted!Write
<1>2. /\ term' = term /\ leads' = leads /\ log' = L2 /\ next' = next /\ match' = match
      /\ commit' = commit /\ base' = base /\ snapshot' = snapshot /\ writes' = writes + 1
      /\ links' = Compacted!Requested(links, n, Peers(n) \ awaiting[n])
  BY SameOperators DEF Compacted!Write, Compacted!Replicate
<1>3. /\ Replicated(term, leads, log, commit, next, match, writes, h, a)
      /\ base \in [Server -> Nat] /\ snapshot \in [Server -> Nat] /\ Linked(links, term, h, a)
  BY DEF CatchUpHolds
<1>4. \E h2, a2 : /\ Replicated(term, leads, L2, commit, next, match, writes + 1, h2, a2)
                  /\ Advances(term, h, a, term, h2, a2)
  BY <1>1, <1>3, ReplicatedProposes
<1> HIDE DEF L2
<1>5. PICK h2, a2 : /\ Replicated(term', leads', log', commit, next', match', writes', h2, a2)
                    /\ Advances(term, h, a, term', h2, a2)
  BY <1>2, <1>4
<1>6. Linked(links, term', h2, a2)
  BY <1>3, <1>5, LinkedAdvances
<1>7. leads'[n] /\ base[n] \in Nat /\ commit[n] \in Nat
  BY <1>1, <1>2, <1>3, <1>5 DEF Replicated
<1>8. Decided(h2, a2, log'[n], commit[n], term'[n])
  BY <1>5 DEF Replicated
<1>9. Linked(links', term', h2, a2)
  BY <1>2, <1>5, <1>6, <1>7, <1>8, Requests
<1>10. CatchUpHolds(term', leads', log', commit', base', snapshot', next', match', links', writes', h2, a2)
  BY <1>2, <1>3, <1>5, <1>9 DEF CatchUpHolds
<1> QED BY <1>10 DEF CatchUpInv

\* The heartbeat, on time or not.
LEMMA CatchUpBeats ==
  ASSUME IsFiniteSet(Server), MaxBatch \in Nat, NEW h, NEW a,
         CatchUpHolds(term, leads, log, commit, base, snapshot, next, match, links, writes, h, a),
         NEW n \in Server,
         Compacted!Heartbeat(n) \/ (\E p \in Server : Compacted!Overtake(n, p))
  PROVE  CatchUpInv'
<1>1. leads[n]
  BY DEF Compacted!Heartbeat, Compacted!Overtake
<1>2. /\ term' = term /\ leads' = leads /\ log' = log /\ next' = next /\ match' = match
      /\ commit' = commit /\ base' = base /\ snapshot' = snapshot /\ writes' = writes
      /\ \E S : links' = Compacted!Requested(links, n, S)
  <2>1. CASE Compacted!Heartbeat(n)
    BY <2>1 DEF Compacted!Heartbeat, Compacted!Replicate, Compacted!logs, Compacted!bounds
  <2>2. CASE \E p \in Server : Compacted!Overtake(n, p)
    BY <2>2 DEF Compacted!Overtake, Compacted!logs, Compacted!leading
  <2> QED BY <2>1, <2>2
<1>3. /\ Replicated(term', leads', log', commit, next', match', writes', h, a)
      /\ base \in [Server -> Nat] /\ snapshot \in [Server -> Nat] /\ Linked(links, term', h, a)
  BY <1>2 DEF CatchUpHolds
<1>4. leads'[n] /\ base[n] \in Nat /\ commit[n] \in Nat
  BY <1>1, <1>2, <1>3 DEF Replicated
<1>5. Decided(h, a, log'[n], commit[n], term'[n])
  BY <1>3 DEF Replicated
<1>6. PICK S : links' = Compacted!Requested(links, n, S)
  BY <1>2
<1>7. Linked(links', term', h, a)
  BY <1>3, <1>4, <1>5, <1>6, Requests
<1>8. CatchUpHolds(term', leads', log', commit', base', snapshot', next', match', links', writes', h, a)
  BY <1>2, <1>3, <1>7 DEF CatchUpHolds
<1> QED BY <1>8 DEF CatchUpInv

\* A message is lost.
LEMMA CatchUpLoses ==
  ASSUME NEW h, NEW a,
         CatchUpHolds(term, leads, log, commit, base, snapshot, next, match, links, writes, h, a),
         NEW n \in Server, NEW p \in Server, Compacted!Lose(<<n, p>>)
  PROVE  CatchUpInv'
<1>1. /\ term' = term /\ leads' = leads /\ log' = log /\ next' = next /\ match' = match
      /\ commit' = commit /\ base' = base /\ snapshot' = snapshot /\ writes' = writes
      /\ links[<<n, p>>] # <<>> /\ links' = [links EXCEPT ![<<n, p>>] = Tail(@)]
  BY DEF Compacted!Lose, Compacted!logs, Compacted!leading, Compacted!Received
<1>2. Linked(links', term', h, a)
  BY <1>1, LinkedReceives DEF CatchUpHolds
<1>3. CatchUpHolds(term', leads', log', commit', base', snapshot', next', match', links', writes', h, a)
  BY <1>1, <1>2 DEF CatchUpHolds
<1> QED BY <1>3 DEF CatchUpInv

\* A node takes a snapshot of what it applied.
LEMMA CatchUpSnapshots ==
  ASSUME NEW h, NEW a,
         CatchUpHolds(term, leads, log, commit, base, snapshot, next, match, links, writes, h, a),
         NEW n \in Server, Compacted!TakeSnapshot(n)
  PROVE  CatchUpInv'
<1>1. /\ term' = term /\ leads' = leads /\ log' = log /\ next' = next /\ match' = match
      /\ commit' = commit /\ base' = base /\ snapshot' = [snapshot EXCEPT ![n] = commit[n]]
      /\ writes' = writes /\ links' = links
  BY DEF Compacted!TakeSnapshot, Compacted!leading, Compacted!bounds
<1>2. snapshot' \in [Server -> Nat]
  BY <1>1 DEF CatchUpHolds, Replicated
<1>3. CatchUpHolds(term', leads', log', commit', base', snapshot', next', match', links', writes', h, a)
  BY <1>1, <1>2 DEF CatchUpHolds
<1> QED BY <1>3 DEF CatchUpInv

\* A node restarts from its snapshot.
LEMMA CatchUpRestarts ==
  ASSUME IsFiniteSet(Server), NEW h, NEW a,
         CatchUpHolds(term, leads, log, commit, base, snapshot, next, match, links, writes, h, a),
         NEW n \in Server, Compacted!Restart(n)
  PROVE  CatchUpInv'
<1>1. /\ Replicated(term, leads, log, commit, next, match, writes, h, a)
      /\ base \in [Server -> Nat] /\ snapshot \in [Server -> Nat] /\ Linked(links, term, h, a)
  BY DEF CatchUpHolds
<1>2. PICK k \in snapshot[n]..commit[n] : commit' = [commit EXCEPT ![n] = k]
  BY DEF Compacted!Restart
<1>3. k \in 0..commit[n]
  <2>1. snapshot[n] \in Nat /\ commit[n] \in Nat
    BY <1>1 DEF Replicated
  <2> QED BY <2>1
<1>4. /\ term' = term /\ leads' = [leads EXCEPT ![n] = FALSE] /\ log' = log
      /\ next' = next /\ match' = match /\ base' = [base EXCEPT ![n] = snapshot[n]]
      /\ snapshot' = snapshot /\ writes' = writes
  BY DEF Compacted!Restart
<1>9. PICK left :
         /\ \A q \in Server : left[q] \in Ends(links[<<q, n>>])
         /\ links' = [l \in DOMAIN links |-> IF l[2] = n THEN left[l[1]] ELSE links[l]]
  BY DEF Compacted!Restart, Compacted!Left, Ends
<1>5. Replicated(term', leads', log', commit', next', match', writes', h, a)
  BY <1>1, <1>2, <1>3, <1>4, ReplicatedRestarts
<1>6. Linked(links', term', h, a)
  <2> DEFINE short == [l \in DOMAIN links |-> IF l[2] = n THEN left[l[1]] ELSE links[l]]
  <2>1. Linked(short, term, h, a)
    BY <1>1, <1>9, LinkedCut
  <2>2. links' = short /\ term' = term
    BY <1>4, <1>9
  <2> HIDE DEF short
  <2> QED BY <2>1, <2>2
<1>7. base' \in [Server -> Nat] /\ snapshot' \in [Server -> Nat]
  BY <1>1, <1>4
<1>8. CatchUpHolds(term', leads', log', commit', base', snapshot', next', match', links', writes', h, a)
  BY <1>5, <1>6, <1>7 DEF CatchUpHolds
<1> QED BY <1>8 DEF CatchUpInv

\* A reply is sent back.
LEMMA RepliesAreSent ==
  ASSUME NEW T, NEW h, NEW a, NEW ls, Linked(ls, T, h, a), NEW n \in Server, NEW p \in Server,
         NEW t \in Nat, NEW success \in BOOLEAN, NEW index \in Nat,
         Known(T, h, t), success => a[p][t] >= index
  PROVE  Linked([ls EXCEPT ![<<p, n>>] =
                    Append(@, [type |-> "reply", src |-> p, dst |-> n, term |-> t,
                               success |-> success, match |-> index])], T, h, a)
<1> DEFINE m == [type |-> "reply", src |-> p, dst |-> n, term |-> t,
                 success |-> success, match |-> index]
<1>1. m \in Message /\ m.src = p /\ m.dst = n
  BY DEF Message
<1>2. Fine(T, h, a, m)
  BY DEF Fine
<1>3. m \in Sent(T, h, a, p, n)
  BY <1>1, <1>2 DEF Sent
<1> HIDE DEF m
<1>4. Linked([ls EXCEPT ![<<p, n>>] = Append(@, m)], T, h, a)
  BY <1>3, LinkedSends
<1> QED BY <1>4 DEF m

\* What is on a link is fine, and from whom to whom the link is.
LEMMA OnLink ==
  ASSUME NEW T, NEW h, NEW a, NEW ls, Linked(ls, T, h, a), NEW n \in Server, NEW p \in Server,
         ls[<<n, p>>] # <<>>
  PROVE  LET m == Head(ls[<<n, p>>]) IN
         /\ m.src = n /\ m.dst = p /\ m.term \in Nat /\ Fine(T, h, a, m)
         /\ Linked([ls EXCEPT ![<<n, p>>] = Tail(@)], T, h, a)
<1>1. /\ Head(ls[<<n, p>>]) \in Sent(T, h, a, n, p)
      /\ Linked([ls EXCEPT ![<<n, p>>] = Tail(@)], T, h, a)
  BY LinkedReceives
<1> QED BY <1>1 DEF Sent, Fine

\* Somebody has had the term of a request, and of a reply.
LEMMA TermIsKnown ==
  ASSUME NEW T, NEW h, NEW a, NEW m, Fine(T, h, a, m)
  PROVE  Known(T, h, m.term)
BY DEF Fine, Known

\* A follower answers.
LEMMA CatchUpAppends ==
  ASSUME IsFiniteSet(Server), MaxBatch \in Nat, NEW h, NEW a,
         CatchUpHolds(term, leads, log, commit, base, snapshot, next, match, links, writes, h, a),
         NEW p \in Server, NEW n \in Server, links[<<p, n>>] # <<>>,
         Head(links[<<p, n>>]).type = "append" =>
            Head(links[<<p, n>>]).commit <= End(Head(links[<<p, n>>])),
         Compacted!HandleAppend(Head(links[<<p, n>>]))
  PROVE  CatchUpInv'
<1> DEFINE m == Head(links[<<p, n>>])
           ls == [links EXCEPT ![<<p, n>>] = Tail(@)]
           Answer(t, success, index) ==
              [ls EXCEPT ![<<n, p>>] = Append(@, [type |-> "reply", src |-> n, dst |-> p, term |-> t,
                                                  success |-> success, match |-> index])]
<1>1. /\ Replicated(term, leads, log, commit, next, match, writes, h, a)
      /\ base \in [Server -> Nat] /\ snapshot \in [Server -> Nat] /\ Linked(links, term, h, a)
  BY DEF CatchUpHolds
<1>2. /\ m.src = p /\ m.dst = n /\ m.term \in Nat /\ Fine(term, h, a, m)
      /\ Linked(ls, term, h, a)
  BY <1>1, OnLink
<1>3. m.type = "append" /\ m.commit <= End(m)
  BY DEF Compacted!HandleAppend
<1>4. /\ base' = base /\ snapshot' = snapshot /\ next' = next /\ match' = match /\ writes' = writes
  BY SMTT(30) DEF Compacted!HandleAppend, Compacted!leading, Compacted!bounds
<1>5. \A success, index : Compacted!Reply(m, success, index) => links' = Answer(term'[n], success, index)
  BY <1>2 DEF Compacted!Reply, Compacted!Received
<1>6. term \in [Server -> Nat] /\ log \in [Server -> Log] /\ leads \in [Server -> BOOLEAN]
  BY <1>1 DEF Replicated, Sound, Types
<1> DEFINE lg == AppendNewEntries(log[n], m.prev, m.entries)
<1>7. \/ /\ term' = term /\ leads' = leads /\ log' = log /\ commit' = commit
         /\ links' = Answer(term'[n], FALSE, 0)
      \/ /\ m.term >= term[n]
         /\ term' = [term EXCEPT ![n] = m.term] /\ leads' = [leads EXCEPT ![n] = FALSE]
         /\ log' = log /\ commit' = commit
         /\ links' = Answer(term'[n], FALSE, 0)
      \/ /\ m.term >= term[n]
         /\ term' = [term EXCEPT ![n] = m.term] /\ leads' = [leads EXCEPT ![n] = FALSE]
         /\ HasEntry(log[n], m.prev, m.prev_term)
         /\ log' = [log EXCEPT ![n] = lg]
         /\ commit' = [commit EXCEPT ![n] = Max({@, Min({m.commit, Len(lg)})})]
         /\ links' = Answer(term'[n], TRUE, End(m))
  BY <1>2, <1>5, SameOperators DEF Compacted!HandleAppend, Compacted!Holds, End
<1> HIDE DEF Answer, lg
<1>8. ASSUME NEW a2, NEW success \in BOOLEAN, NEW index \in Nat,
             Replicated(term', leads', log', commit', next', match', writes', h, a2),
             Advances(term, h, a, term', h, a2),
             success => a2[n][term'[n]] >= index,
             links' = Answer(term'[n], success, index)
      PROVE  CatchUpInv'
  <2>1. Linked(ls, term', h, a2)
    BY <1>1, <1>2, <1>8, LinkedAdvances
  <2>2. term'[n] \in Nat
    BY <1>8 DEF Replicated, Sound, Types
  <2>3. Known(term', h, term'[n])
    BY <2>2 DEF Known
  <2>4. Linked(links', term', h, a2)
    BY <1>8, <2>1, <2>2, <2>3, RepliesAreSent DEF Answer
  <2>5. CatchUpHolds(term', leads', log', commit', base', snapshot', next', match', links', writes', h, a2)
    BY <1>1, <1>4, <1>8, <2>4 DEF CatchUpHolds
  <2> QED BY <2>5 DEF CatchUpInv
<1>9. CASE /\ term' = term /\ leads' = leads /\ log' = log /\ commit' = commit
           /\ links' = Answer(term'[n], FALSE, 0)
  <2>1. Replicated(term', leads', log', commit', next', match', writes', h, a)
    BY <1>1, <1>4, <1>9
  <2>2. Advances(term, h, a, term', h, a)
    BY <1>1, <1>9, Same
  <2> QED BY <1>8, <1>9, <2>1, <2>2
<1>10. CASE /\ m.term >= term[n]
            /\ term' = [term EXCEPT ![n] = m.term] /\ leads' = [leads EXCEPT ![n] = FALSE]
            /\ log' = log /\ commit' = commit
            /\ links' = Answer(term'[n], FALSE, 0)
  <2>1. Known(term, h, m.term)
    BY <1>2, TermIsKnown
  <2>2. term[n] <= m.term
    BY <1>2, <1>6, <1>10
  <2>3. /\ Replicated([term EXCEPT ![n] = m.term], [leads EXCEPT ![n] = FALSE], log, commit, next, match,
                      writes, h, a)
        /\ Advances(term, h, a, [term EXCEPT ![n] = m.term], h, a)
    BY <1>1, <1>2, <2>1, <2>2, ReplicatedFollows
  <2>4. /\ Replicated(term', leads', log', commit', next', match', writes', h, a)
        /\ Advances(term, h, a, term', h, a)
    BY <1>4, <1>10, <2>3
  <2> QED BY <1>8, <1>10, <2>4
<1>11. CASE /\ m.term >= term[n]
            /\ term' = [term EXCEPT ![n] = m.term] /\ leads' = [leads EXCEPT ![n] = FALSE]
            /\ HasEntry(log[n], m.prev, m.prev_term)
            /\ log' = [log EXCEPT ![n] = lg]
            /\ commit' = [commit EXCEPT ![n] = Max({@, Min({m.commit, Len(lg)})})]
            /\ links' = Answer(term'[n], TRUE, End(m))
  <2> DEFINE a2 == Acks(a, n, m.term, End(m))
             T2 == [term EXCEPT ![n] = m.term]
  <2>1. term[n] <= m.term
    BY <1>2, <1>6, <1>11
  <2>2. /\ Replicated(T2, [leads EXCEPT ![n] = FALSE], [log EXCEPT ![n] = Merged(log[n], m)],
                      [commit EXCEPT ![n] = Max({@, Min({m.commit, Len(Merged(log[n], m))})})],
                      next, match, writes, h, a2)
        /\ Advances(term, h, a, T2, h, a2)
        /\ End(m) \in Nat /\ a2[n][m.term] >= End(m)
    BY <1>1, <1>2, <1>3, <1>11, <2>1, ReplicatedAccepts
  <2> HIDE DEF a2
  <2>3. Merged(log[n], m) = lg
    BY DEF Merged, lg
  <2>4. T2[n] = m.term
    BY <1>2, <1>6
  <2>5. /\ Replicated(term', leads', log', commit', next', match', writes', h, a2)
        /\ Advances(term, h, a, term', h, a2)
        /\ End(m) \in Nat /\ a2[n][term'[n]] >= End(m)
    BY <1>4, <1>11, <2>2, <2>3, <2>4
  <2> QED BY <1>8, <1>11, <2>5
<1> QED BY <1>7, <1>9, <1>10, <1>11

\* A leader learns of a success.
LEMMA CatchUpSucceeds ==
  ASSUME IsFiniteSet(Server), MaxBatch \in Nat, NEW h, NEW a,
         CatchUpHolds(term, leads, log, commit, base, snapshot, next, match, links, writes, h, a),
         NEW p \in Server, NEW n \in Server, links[<<p, n>>] # <<>>,
         Head(links[<<p, n>>]).type = "reply", Compacted!HandleSuccess(Head(links[<<p, n>>]))
  PROVE  CatchUpInv'
<1> DEFINE m == Head(links[<<p, n>>])
           ls == [links EXCEPT ![<<p, n>>] = Tail(@)]
           own == m.term = term[n]
           mt == Matched(term, match, n, m)
           nx == IF own THEN [next[n] EXCEPT ![m.src] = mt[m.src] + 1] ELSE next[n]
           c2 == Counted(log[n], term[n], commit[n], n, mt)
<1>1. /\ Replicated(term, leads, log, commit, next, match, writes, h, a)
      /\ base \in [Server -> Nat] /\ snapshot \in [Server -> Nat] /\ Linked(links, term, h, a)
  BY DEF CatchUpHolds
<1>2. /\ m.src = p /\ m.dst = n /\ m.term \in Nat /\ Fine(term, h, a, m)
      /\ Linked(ls, term, h, a)
  BY <1>1, OnLink
<1>3. m.type = "reply" /\ Compacted!HandleSuccess(m) /\ m.success /\ leads[n]
  BY <1>2 DEF Compacted!HandleSuccess
<1>4. ls = [links EXCEPT ![<<m.src, n>>] = Tail(@)]
  BY <1>2
<1> HIDE DEF m, ls
<1>5. mt = IF own THEN [match[n] EXCEPT ![m.src] = Compacted!Max({@, m.match})] ELSE match[n]
  BY SameOperators DEF Matched
<1>6. c2 = Compacted!CommitIndex(n, mt)
  BY SameOperators DEF Counted, Compacted!CommitIndex
<1>7. /\ term' = term /\ leads' = leads /\ log' = log /\ base' = base /\ snapshot' = snapshot
      /\ writes' = writes /\ match' = [match EXCEPT ![n] = mt] /\ next' = [next EXCEPT ![n] = nx]
      /\ commit' = [commit EXCEPT ![n] = c2]
      /\ \E S : links' = Compacted!Requested(ls, n, S)
  <2> HIDE DEF mt, c2
  <2>1. /\ term' = term /\ leads' = leads /\ log' = log /\ base' = base /\ snapshot' = snapshot
        /\ writes' = writes
    BY <1>3, ZenonT(60) DEF Compacted!HandleSuccess, Compacted!bounds
  <2>2. /\ match' = [match EXCEPT ![n] = mt] /\ next' = [next EXCEPT ![n] = nx]
        /\ commit' = [commit EXCEPT ![n] = c2]
    BY <1>2, <1>3, <1>5, <1>6, ZenonT(60) DEF Compacted!HandleSuccess
  <2>3. \E S : links' = Compacted!Requested(ls, n, S)
    BY <1>2, <1>3, <1>4, ZenonT(60)
    DEF Compacted!HandleSuccess, Compacted!Replicate, Compacted!Received
  <2> QED BY <2>1, <2>2, <2>3
<1> HIDE DEF c2
<1>8. /\ next[n] \in [Server -> Nat \ {0}] /\ next \in [Server -> [Server -> Nat \ {0}]]
      /\ commit \in [Server -> Nat]
  BY <1>1 DEF Replicated
<1>9. mt \in [Server -> Nat]
  BY <1>1, <1>2, <1>3, <1>8, ReplicatedCounts
<1> HIDE DEF mt
<1>10. nx \in [Server -> Nat \ {0}]
  BY <1>2, <1>8, <1>9
<1> HIDE DEF nx
<1>11. Replicated(term', leads', log', commit', next', match', writes', h, a)
  <2>1. Replicated(term, leads, log, [commit EXCEPT ![n] = c2], [next EXCEPT ![n] = nx],
                   [match EXCEPT ![n] = mt], writes, h, a)
    BY <1>1, <1>2, <1>3, <1>10, ReplicatedCounts DEF mt, c2
  <2> QED BY <1>7, <2>1
<1>12. leads'[n] /\ base[n] \in Nat /\ commit[n] \in Nat
  BY <1>1, <1>3, <1>7, <1>8
<1>13. Decided(h, a, log'[n], commit[n], term'[n])
  BY <1>1, <1>7 DEF Replicated
<1>14. PICK S : links' = Compacted!Requested(ls, n, S)
  BY <1>7
<1>15. Linked(ls, term', h, a)
  BY <1>2, <1>7
<1>16. Linked(links', term', h, a)
  BY <1>11, <1>12, <1>13, <1>14, <1>15, Requests
<1>17. CatchUpHolds(term', leads', log', commit', base', snapshot', next', match', links', writes', h, a)
  BY <1>1, <1>7, <1>11, <1>16 DEF CatchUpHolds
<1> QED BY <1>17 DEF CatchUpInv

\* A leader learns of a failure.
LEMMA CatchUpFails ==
  ASSUME IsFiniteSet(Server), MaxBatch \in Nat, NEW h, NEW a,
         CatchUpHolds(term, leads, log, commit, base, snapshot, next, match, links, writes, h, a),
         NEW p \in Server, NEW n \in Server, links[<<p, n>>] # <<>>,
         Compacted!HandleFailure(Head(links[<<p, n>>]))
  PROVE  CatchUpInv'
<1> DEFINE m == Head(links[<<p, n>>])
           ls == [links EXCEPT ![<<p, n>>] = Tail(@)]
<1>1. /\ Replicated(term, leads, log, commit, next, match, writes, h, a)
      /\ base \in [Server -> Nat] /\ snapshot \in [Server -> Nat] /\ Linked(links, term, h, a)
  BY DEF CatchUpHolds
<1>2. /\ m.src = p /\ m.dst = n /\ m.term \in Nat /\ Fine(term, h, a, m)
      /\ Linked(ls, term, h, a)
  BY <1>1, OnLink
<1>3. /\ term' = term /\ leads' = leads /\ log' = log /\ commit' = commit /\ base' = base
      /\ snapshot' = snapshot /\ match' = match /\ writes' = writes /\ leads[n]
      /\ next' = IF m.term = term[n] THEN [next EXCEPT ![n][p] = Max({1, @ - 1})] ELSE next
      /\ \E S : links' = Compacted!Requested(ls, n, S)
  BY <1>2, SameOperators
     DEF Compacted!HandleFailure, Compacted!Replicate, Compacted!Received, Compacted!bounds, Compacted!logs
<1>4. next \in [Server -> [Server -> Nat \ {0}]] /\ commit \in [Server -> Nat]
  BY <1>1 DEF Replicated
<1>5. next' \in [Server -> [Server -> Nat \ {0}]]
  <2> DEFINE x == next[n][p] - 1
  <2>1. x \in Nat
    BY <1>4
  <2> HIDE DEF x
  <2>2. Max({1, x}) \in Nat \ {0}
    BY <2>1, MaxOfTwo
  <2>3. next' = IF m.term = term[n] THEN [next EXCEPT ![n][p] = Max({1, x})] ELSE next
    BY <1>3, <1>4 DEF x
  <2> QED BY <1>4, <2>2, <2>3
<1>6. Replicated(term', leads', log', commit', next', match', writes', h, a)
  BY <1>1, <1>3, <1>5, ReplicatedTries
<1>7. leads'[n] /\ base[n] \in Nat /\ commit[n] \in Nat
  BY <1>1, <1>3, <1>4
<1>8. Decided(h, a, log'[n], commit[n], term'[n])
  BY <1>1, <1>3 DEF Replicated
<1>9. PICK S : links' = Compacted!Requested(ls, n, S)
  BY <1>3
<1>10. Linked(ls, term', h, a)
  BY <1>2, <1>3
<1> HIDE DEF ls
<1>11. Linked(links', term', h, a)
  BY <1>6, <1>7, <1>8, <1>9, <1>10, Requests
<1>12. CatchUpHolds(term', leads', log', commit', base', snapshot', next', match', links', writes', h, a)
  BY <1>1, <1>3, <1>6, <1>11 DEF CatchUpHolds
<1> QED BY <1>12 DEF CatchUpInv

\* A reply comes too late.
LEMMA CatchUpIsLate ==
  ASSUME IsFiniteSet(Server), MaxBatch \in Nat, NEW h, NEW a,
         CatchUpHolds(term, leads, log, commit, base, snapshot, next, match, links, writes, h, a),
         NEW p \in Server, NEW n \in Server, links[<<p, n>>] # <<>>,
         Compacted!HandleLateReply(Head(links[<<p, n>>]))
  PROVE  CatchUpInv'
<1> DEFINE m == Head(links[<<p, n>>])
           ls == [links EXCEPT ![<<p, n>>] = Tail(@)]
<1>1. /\ Replicated(term, leads, log, commit, next, match, writes, h, a)
      /\ base \in [Server -> Nat] /\ snapshot \in [Server -> Nat] /\ Linked(links, term, h, a)
  BY DEF CatchUpHolds
<1>2. /\ m.src = p /\ m.dst = n /\ m.term \in Nat /\ Fine(term, h, a, m)
      /\ Linked(ls, term, h, a)
  BY <1>1, OnLink
<1>3. /\ log' = log /\ commit' = commit /\ base' = base /\ snapshot' = snapshot
      /\ next' = next /\ match' = match /\ writes' = writes /\ links' = ls
      /\ \/ /\ m.term > term[n]
            /\ term' = [term EXCEPT ![n] = m.term] /\ leads' = [leads EXCEPT ![n] = FALSE]
         \/ term' = term /\ leads' = leads
  BY <1>2 DEF Compacted!HandleLateReply, Compacted!Received, Compacted!bounds
<1>4. /\ Replicated(term', leads', log', commit', next', match', writes', h, a)
      /\ Advances(term, h, a, term', h, a)
  <2>1. CASE /\ m.term > term[n]
             /\ term' = [term EXCEPT ![n] = m.term] /\ leads' = [leads EXCEPT ![n] = FALSE]
    <3>1. Known(term, h, m.term)
      BY <1>2, TermIsKnown
    <3>2. term[n] <= m.term
      <4>1. term[n] \in Nat
        BY <1>1 DEF Replicated, Sound, Types
      <4> QED BY <1>2, <2>1, <4>1
    <3>3. /\ Replicated([term EXCEPT ![n] = m.term], [leads EXCEPT ![n] = FALSE], log, commit, next,
                        match, writes, h, a)
          /\ Advances(term, h, a, [term EXCEPT ![n] = m.term], h, a)
      BY <1>1, <1>2, <3>1, <3>2, ReplicatedFollows
    <3> QED BY <1>3, <2>1, <3>3
  <2>2. CASE term' = term /\ leads' = leads
    <3>1. Replicated(term', leads', log', commit', next', match', writes', h, a)
      BY <1>1, <1>3, <2>2
    <3>2. Advances(term, h, a, term', h, a)
      BY <1>1, <2>2, Same
    <3> QED BY <3>1, <3>2
  <2> QED BY <1>3, <2>1, <2>2
<1>5. Linked(links', term', h, a)
  BY <1>1, <1>2, <1>3, <1>4, LinkedAdvances
<1>6. CatchUpHolds(term', leads', log', commit', base', snapshot', next', match', links', writes', h, a)
  BY <1>1, <1>3, <1>4, <1>5 DEF CatchUpHolds
<1> QED BY <1>6 DEF CatchUpInv

\* Nothing has happened yet: nobody led and nothing was acknowledged.
LEMMA NothingReplicated ==
  ASSUME IsFiniteSet(Server), Server # {}, NEW T, NEW D, NEW L, NEW c, NEW nx, NEW mt,
         T = [n \in Server |-> 0], D = [n \in Server |-> FALSE], L = [n \in Server |-> <<>>],
         c = [n \in Server |-> 0], nx = [n \in Server |-> [p \in Server |-> 1]],
         mt = [n \in Server |-> [p \in Server |-> 0]]
  PROVE  Replicated(T, D, L, c, nx, mt, 0, [t \in Nat |-> <<>>], [p \in Server |-> [t \in Nat |-> 0]])
<1> DEFINE h == [t \in Nat |-> <<>>]
           a == [p \in Server |-> [t \in Nat |-> 0]]
<1>1. <<>> \in Log /\ Len(<<>>) = 0
  BY DEF Log
<1>2. Types(T, D, L, h, a, 0)
  BY <1>1 DEF Types
<1>3. (\A t \in Nat : h[t] = <<>>) /\ (\A n \in Server : L[n] = <<>> /\ T[n] = 0 /\ ~ D[n] /\ c[n] = 0)
  OBVIOUS
<1>4. \A p \in Server, t \in Nat : a[p][t] = 0
  OBVIOUS
<1> HIDE DEF h, a
<1>5. Traced(<<>>, h)
  BY <1>1 DEF Traced
<1>6. Written(T, D, L, h)
  <2>1. \A t \in Nat : Traced(h[t], h) /\ Len(h[t]) = 0
    BY <1>1, <1>3, <1>5
  <2>2. \A n \in Server : Traced(L[n], h) /\ Len(L[n]) = 0 /\ ~ D[n]
    BY <1>1, <1>3, <1>5
  <2> HIDE <1>3
  <2>3. \A t \in Nat : \A i \in 1..Len(h[t]) : h[t][i].term <= t
    BY <2>1
  <2>4. \A n \in Server : \A i \in 1..Len(L[n]) : L[n][i].term <= T[n]
    BY <2>2
  <2> QED BY <2>1, <2>2, <2>3, <2>4 DEF Written
<1>7. Top(T, h, 0)
  <2>1. {n \in Server : T[n] = 0} = Server
    BY <1>3
  <2>2. IsMajority(Server)
    <3>1. Cardinality(Server) \in Nat
      BY FS_CardinalityType
    <3>2. Cardinality(Server) # 0
      BY FS_EmptySet
    <3> QED BY <3>1, <3>2 DEF IsMajority
  <2>3. (\A n \in Server : T[n] <= 0) /\ (\A t \in Nat : Len(h[t]) = 0)
    BY <1>1, <1>3
  <2> QED BY <2>1, <2>2, <2>3 DEF Top
<1>8. Acknowledged(T, D, L, h, a)
  BY <1>1, <1>3, <1>4 DEF Acknowledged
<1>9. \A t, i \in Nat : ~ Holds(h[t], t, i)
  BY <1>1, <1>3 DEF Holds
<1>10. Stored(L, h, a) /\ LostIsBlocked(T, h, a)
  BY <1>9 DEF Stored, LostIsBlocked
<1>11. Short(T, L, h, 0)
  BY <1>1, <1>3 DEF Short
<1>12. Sound(T, D, L, h, a, 0)
  BY <1>2, <1>6, <1>7, <1>8, <1>10, <1>11 DEF Sound
<1>13. c \in [Server -> Nat] /\ nx \in [Server -> [Server -> Nat \ {0}]] /\ mt \in [Server -> [Server -> Nat]]
  OBVIOUS
<1>14. \A n \in Server : Decided(h, a, L[n], c[n], T[n])
  BY <1>3 DEF Decided
<1>15. \A n, p \in Server : D[n] => mt[n][p] <= a[p][T[n]]
  BY <1>3
<1>16. Replicated(T, D, L, c, nx, mt, 0, h, a)
  BY <1>12, <1>13, <1>14, <1>15 DEF Replicated
<1> QED BY <1>16 DEF h, a

\* Before anything happens nobody led, and the invariant holds.
LEMMA CatchUpBegins ==
  ASSUME IsFiniteSet(Server), Server # {}, Compacted!Init
  PROVE  CatchUpInv
<1> DEFINE h == [t \in Nat |-> <<>>]
           a == [p \in Server |-> [t \in Nat |-> 0]]
<1>1. /\ term = [n \in Server |-> 0] /\ leads = [n \in Server |-> FALSE]
      /\ log = [n \in Server |-> <<>>] /\ commit = [n \in Server |-> 0]
      /\ next = [n \in Server |-> [p \in Server |-> 1]]
      /\ match = [n \in Server |-> [p \in Server |-> 0]]
      /\ base \in [Server -> Nat] /\ snapshot \in [Server -> Nat]
      /\ writes = 0 /\ links = [l \in Server \X Server |-> <<>>]
  BY DEF Compacted!Init
<1>2. Replicated(term, leads, log, commit, next, match, writes, h, a)
  BY <1>1, NothingReplicated
<1> HIDE DEF h, a
<1>3. Linked(links, term, h, a)
  <2>1. links \in [Server \X Server -> Seq(Message)]
    BY <1>1
  <2>2. \A n, p \in Server : links[<<n, p>>] = <<>>
    BY <1>1
  <2>3. \A n, p \in Server : <<>> \in Seq(Sent(term, h, a, n, p))
    OBVIOUS
  <2> QED BY <2>1, <2>2, <2>3 DEF Linked
<1>4. CatchUpHolds(term, leads, log, commit, base, snapshot, next, match, links, writes, h, a)
  BY <1>1, <1>2, <1>3 DEF CatchUpHolds
<1> QED BY <1>4 DEF CatchUpInv

\* Every step keeps the invariant, if the requests reach as far as they commit.
LEMMA CatchUpSteps ==
  ASSUME IsFiniteSet(Server), MaxBatch \in Nat, CatchUpInv, RequestsCover,
         [Compacted!Next]_(Compacted!vars)
  PROVE  CatchUpInv'
<1>1. PICK h, a :
         CatchUpHolds(term, leads, log, commit, base, snapshot, next, match, links, writes, h, a)
  BY DEF CatchUpInv
<1>2. CASE UNCHANGED Compacted!vars
  <2>1. /\ term' = term /\ leads' = leads /\ log' = log /\ commit' = commit /\ base' = base
        /\ snapshot' = snapshot /\ next' = next /\ match' = match /\ links' = links /\ writes' = writes
    BY <1>2 DEF Compacted!vars, Compacted!logs, Compacted!leading, Compacted!bounds
  <2>2. CatchUpHolds(term', leads', log', commit', base', snapshot', next', match', links', writes', h, a)
    BY <1>1, <2>1
  <2> QED BY <2>2 DEF CatchUpInv
<1>3. ASSUME NEW n \in Server,
             \/ Compacted!Write(n) \/ Compacted!Heartbeat(n) \/ Compacted!TakeSnapshot(n)
             \/ Compacted!Restart(n)
             \/ \E voters \in SUBSET Server : Compacted!Elect(n, voters)
             \/ \E p \in Server : Compacted!Overtake(n, p)
      PROVE  CatchUpInv'
  <2>1. CASE Compacted!Write(n)
    BY <1>1, <2>1, CatchUpWrites
  <2>2. CASE Compacted!Heartbeat(n) \/ \E p \in Server : Compacted!Overtake(n, p)
    BY <1>1, <2>2, CatchUpBeats
  <2>3. CASE Compacted!TakeSnapshot(n)
    BY <1>1, <2>3, CatchUpSnapshots
  <2>4. CASE Compacted!Restart(n)
    BY <1>1, <2>4, CatchUpRestarts
  <2>5. CASE \E voters \in SUBSET Server : Compacted!Elect(n, voters)
    BY <1>1, <2>5, CatchUpElects
  <2> QED BY <1>3, <2>1, <2>2, <2>3, <2>4, <2>5
<1>4. ASSUME NEW l \in DOMAIN links, Compacted!Handle(l) \/ Compacted!Lose(l)
      PROVE  CatchUpInv'
  <2>1. links \in [Server \X Server -> Seq(Message)] /\ Linked(links, term, h, a)
    BY <1>1 DEF CatchUpHolds, Linked
  <2>2. PICK p \in Server, n \in Server : l = <<p, n>>
    BY <2>1
  <2>3. CASE Compacted!Lose(l)
    BY <1>1, <2>2, <2>3, CatchUpLoses
  <2>4. CASE Compacted!Handle(l)
    <3> DEFINE m == Head(links[<<p, n>>])
    <3>1. links[<<p, n>>] # <<>> /\ (Compacted!HandleAppend(m) \/ Compacted!HandleReply(m))
      BY <2>2, <2>4 DEF Compacted!Handle
    <3>2. m.type = "append" => m.commit <= End(m)
      <4>1. links[<<p, n>>] \in Seq(Message)
        BY <2>1
      <4>2. 1 \in DOMAIN links[<<p, n>>] /\ m = links[<<p, n>>][1]
        BY <3>1, <4>1
      <4> HIDE DEF m
      <4> QED BY <4>2 DEF RequestsCover
    <3>3. CASE Compacted!HandleAppend(m)
      BY <1>1, <3>1, <3>2, <3>3, CatchUpAppends
    <3>4. CASE m.type = "reply" /\ Compacted!HandleSuccess(m)
      BY <1>1, <3>1, <3>4, CatchUpSucceeds
    <3>5. CASE Compacted!HandleFailure(m)
      BY <1>1, <3>1, <3>5, CatchUpFails
    <3>6. CASE Compacted!HandleLateReply(m)
      BY <1>1, <3>1, <3>6, CatchUpIsLate
    <3> QED BY <3>1, <3>3, <3>4, <3>5, <3>6 DEF Compacted!HandleReply
  <2> QED BY <1>4, <2>3, <2>4
<1> QED BY <1>2, <1>3, <1>4 DEF Compacted!Next

\* What has been applied is the same everywhere.
LEMMA CatchUpAgrees ==
  ASSUME IsFiniteSet(Server), CatchUpInv
  PROVE  AppliedAgree
<1>1. PICK h, a :
         CatchUpHolds(term, leads, log, commit, base, snapshot, next, match, links, writes, h, a)
  BY DEF CatchUpInv
<1>2. Replicated(term, leads, log, commit, next, match, writes, h, a)
  BY <1>1 DEF CatchUpHolds
<1>3. ASSUME NEW n \in Server, NEW p \in Server, NEW i \in 1..Min({commit[n], commit[p]})
      PROVE  log[n][i] = log[p][i]
  BY <1>2, ReplicatedAgree
<1> QED BY <1>3, SameOperators DEF AppliedAgree

\* Compaction, restarts, lost and overtaken messages or not: no two nodes ever differ
\* on what both have applied, as long as no request calls more committed than it
\* shows.  (The follower takes the smaller of the leader's commit index and its own
\* last index, which may be of an older tail when the batch was cut.)
THEOREM AppliedAgreeWhenCovered ==
  ASSUME IsFiniteSet(Server), Server # {}, MaxBatch \in Nat
  PROVE  Compacted!Spec /\ []RequestsCover => []AppliedAgree
<1>1. Compacted!Init => CatchUpInv
  BY CatchUpBegins
<1>2. CatchUpInv /\ RequestsCover /\ [Compacted!Next]_(Compacted!vars) => CatchUpInv'
  BY CatchUpSteps
<1>3. CatchUpInv => AppliedAgree
  BY CatchUpAgrees
<1> QED BY <1>1, <1>2, <1>3, PTL DEF Compacted!Spec

-----------------------------------------------------------------------------
(***************************************************************************)
(* When one batch holds any log, requests are never cut.                   *)
(***************************************************************************)
\* The bounds of the instance: terms and writes.
WithinBounds ==
    /\ term \in [Server -> 0..MaxTerm]
    /\ writes \in 0..MaxWrites

\* Somebody has the highest term,
LEMMA TopIsReached ==
  ASSUME IsFiniteSet(Server), NEW T, NEW h, NEW top, Top(T, h, top)
  PROVE  \E n \in Server : T[n] = top
<1>1. IsMajority({n \in Server : T[n] = top})
  BY DEF Top
<1>2. {n \in Server : T[n] = top} # {}
  <2> DEFINE k == Cardinality(Server)
  <2>1. k \in Nat
    BY FS_CardinalityType
  <2> HIDE DEF k
  <2>2. ~ (0 >= k \div 2 + 1)
    BY <2>1
  <2>3. Cardinality({}) = 0
    BY FS_EmptySet
  <2>4. ~ IsMajority({})
    BY <2>2, <2>3 DEF IsMajority, k
  <2> QED BY <1>1, <2>4
<1> QED BY <1>2

\* and no term is known that nobody has reached.
LEMMA KnownIsReached ==
  ASSUME IsFiniteSet(Server), NEW T, NEW D, NEW L, NEW h, NEW a, NEW w,
         Sound(T, D, L, h, a, w), NEW t \in Nat, Known(T, h, t)
  PROVE  \E n \in Server : t <= T[n]
<1>1. PICK top \in Nat : Top(T, h, top)
  BY DEF Sound
<1>2. T \in [Server -> Nat] /\ h \in [Nat -> Log]
  BY DEF Sound, Types
<1>3. t <= top
  BY <1>1, <1>2, KnownIsBelow
<1>4. PICK n \in Server : T[n] = top
  BY <1>1, TopIsReached
<1> QED BY <1>3, <1>4

\* Nobody ever had a log that a batch does not hold.
LEMMA OneBatch ==
  ASSUME IsFiniteSet(Server), MaxBatch \in Nat, MaxTerm \in Nat, MaxWrites \in Nat,
         MaxTerm + MaxWrites <= MaxBatch, WithinBounds,
         NEW h, NEW a, Sound(term, leads, log, h, a, writes)
  PROVE  \A t \in Nat : Len(h[t]) <= MaxBatch
<1> TAKE t \in Nat
<1>1. Len(h[t]) \in Nat /\ Len(h[t]) <= t + writes
  BY LogType DEF Sound, Types, Short
<1>2. writes \in Nat /\ writes <= MaxWrites
  BY DEF WithinBounds
<1>3. CASE t <= MaxTerm
  BY ONLY <1>1, <1>2, <1>3, MaxBatch \in Nat, MaxTerm \in Nat, MaxWrites \in Nat,
          MaxTerm + MaxWrites <= MaxBatch
<1>4. CASE t > MaxTerm
  <2>1. PICK top \in Nat : Top(term, h, top)
    BY DEF Sound
  <2>2. \E n \in Server : term[n] = top
    BY <2>1, TopIsReached
  <2>3. top <= MaxTerm
    BY <2>2 DEF WithinBounds
  <2>4. Len(h[t]) = 0
    BY <1>4, <2>1, <2>3 DEF Top
  <2> QED BY <2>4
<1> QED BY <1>3, <1>4

\* Then they reach as far as they commit.
LEMMA ShortRequestsCover ==
  ASSUME IsFiniteSet(Server), Server # {}, MaxBatch \in Nat, MaxTerm \in Nat, MaxWrites \in Nat,
         MaxTerm + MaxWrites <= MaxBatch, WithinBounds, CatchUpInv
  PROVE  RequestsCover
<1>1. PICK h, a :
         CatchUpHolds(term, leads, log, commit, base, snapshot, next, match, links, writes, h, a)
  BY DEF CatchUpInv
<1>2. /\ Sound(term, leads, log, h, a, writes) /\ Linked(links, term, h, a)
      /\ h \in [Nat -> Log]
  BY <1>1 DEF CatchUpHolds, Replicated, Sound, Types
<1>3. \A t \in Nat : Len(h[t]) <= MaxBatch
  BY <1>2, OneBatch
<1>4. ASSUME NEW n \in Server, NEW p \in Server, NEW i \in DOMAIN links[<<n, p>>],
             links[<<n, p>>][i].type = "append"
      PROVE  links[<<n, p>>][i].commit <= End(links[<<n, p>>][i])
  <2> DEFINE m == links[<<n, p>>][i]
  <2>1. links[<<n, p>>] \in Seq(Sent(term, h, a, n, p))
    BY <1>2 DEF Linked
  <2>2. m \in Sent(term, h, a, n, p)
    BY <2>1
  <2>3. Fine(term, h, a, m) /\ m.type = "append"
    BY <1>4, <2>2 DEF Sent
  <2> HIDE DEF m
  <2>4. m.term \in Nat /\ (Len(h[m.term]) <= MaxBatch => m.commit <= End(m))
    BY <2>3 DEF Fine
  <2>5. m.commit <= End(m)
    BY <1>3, <2>4
  <2> QED BY <2>5 DEF m
<1> QED BY <1>4 DEF RequestsCover

\* The bounds are bounds.
LEMMA CatchUpWithinBounds ==
  ASSUME IsFiniteSet(Server), MaxTerm \in Nat, MaxWrites \in Nat, CatchUpInv, WithinBounds,
         [Compacted!Next]_(Compacted!vars)
  PROVE  WithinBounds'
<1>1. PICK h, a :
         CatchUpHolds(term, leads, log, commit, base, snapshot, next, match, links, writes, h, a)
  BY DEF CatchUpInv
<1>2. /\ Replicated(term, leads, log, commit, next, match, writes, h, a) /\ Linked(links, term, h, a)
      /\ Sound(term, leads, log, h, a, writes)
  BY <1>1 DEF CatchUpHolds, Replicated
<1>3. CASE UNCHANGED Compacted!vars
  BY <1>3 DEF WithinBounds, Compacted!vars, Compacted!logs, Compacted!bounds
<1>4. ASSUME NEW n \in Server,
             \/ Compacted!Write(n) \/ Compacted!Heartbeat(n) \/ Compacted!TakeSnapshot(n)
             \/ Compacted!Restart(n) \/ \E p \in Server : Compacted!Overtake(n, p)
      PROVE  WithinBounds'
  <2>1. term' = term /\ (writes' = writes \/ (writes < MaxWrites /\ writes' = writes + 1))
    BY <1>4 DEF Compacted!Write, Compacted!Heartbeat, Compacted!TakeSnapshot, Compacted!Restart,
                Compacted!Overtake, Compacted!logs, Compacted!bounds
  <2> QED BY <2>1 DEF WithinBounds
<1>5. ASSUME NEW n \in Server, NEW voters \in SUBSET Server, Compacted!Elect(n, voters)
      PROVE  WithinBounds'
  <2> DEFINE new == Max({term[m] : m \in voters}) + 1
  <2>1. /\ new <= MaxTerm /\ writes' = writes
        /\ term' = [m \in Server |-> IF m \in voters THEN new ELSE term[m]]
    BY <1>5, SameOperators DEF Compacted!Elect, Compacted!bounds
  <2>2. new \in Nat
    <3> DEFINE S == {term[m] : m \in voters}
    <3>1. n \in voters
      BY <1>5 DEF Compacted!Elect
    <3>2. S \in SUBSET Nat /\ S # {} /\ \A x \in S : x <= MaxTerm
      BY <3>1 DEF WithinBounds
    <3> HIDE DEF S
    <3>3. Max(S) \in S
      BY <3>2, MaxIsGreatest
    <3>4. Max(S) \in Nat
      BY <3>2, <3>3
    <3> QED BY <3>4 DEF S
  <2> HIDE DEF new
  <2> QED BY <2>1, <2>2 DEF WithinBounds
<1>6. ASSUME NEW l \in DOMAIN links, Compacted!Handle(l) \/ Compacted!Lose(l)
      PROVE  WithinBounds'
  <2>1. PICK p \in Server, n \in Server : l = <<p, n>>
    BY <1>2 DEF Linked
  <2> DEFINE m == Head(links[<<p, n>>])
  <2>2. /\ writes' = writes
        /\ \/ term' = term
           \/ links[<<p, n>>] # <<>> /\ term' = [term EXCEPT ![m.dst] = m.term]
    <3>1. CASE Compacted!Lose(l)
      BY <3>1 DEF Compacted!Lose, Compacted!logs
    <3>2. CASE Compacted!Handle(l)
      <4>1. links[<<p, n>>] # <<>> /\ (Compacted!HandleAppend(m) \/ Compacted!HandleReply(m))
        BY <2>1, <3>2 DEF Compacted!Handle
      <4> HIDE DEF m
      <4>2. CASE Compacted!HandleAppend(m)
        BY <4>1, <4>2 DEF Compacted!HandleAppend, Compacted!bounds
      <4>3. CASE Compacted!HandleReply(m)
        BY <4>1, <4>3
           DEF Compacted!HandleReply, Compacted!HandleSuccess, Compacted!HandleFailure,
               Compacted!HandleLateReply, Compacted!logs, Compacted!bounds
      <4> QED BY <4>1, <4>2, <4>3
    <3> QED BY <1>6, <3>1, <3>2
  <2>3. CASE term' = term
    BY <2>2, <2>3 DEF WithinBounds
  <2>4. CASE links[<<p, n>>] # <<>> /\ term' = [term EXCEPT ![m.dst] = m.term]
    <3>1. /\ m.src = p /\ m.dst = n /\ m.term \in Nat /\ Fine(term, h, a, m)
          /\ Linked([links EXCEPT ![<<p, n>>] = Tail(@)], term, h, a)
      <4>1. links[<<p, n>>] # <<>>
        BY <2>4
      <4> QED BY <1>2, <4>1, OnLink
    <3> HIDE DEF m
    <3>2. Known(term, h, m.term)
      BY <3>1, TermIsKnown
    <3>3. m.term <= MaxTerm
      <4>1. PICK q \in Server : m.term <= term[q]
        BY <1>2, <3>1, <3>2, KnownIsReached
      <4> QED BY <3>1, <4>1 DEF WithinBounds
    <3> QED BY <2>2, <2>4, <3>1, <3>3 DEF WithinBounds
  <2> QED BY <2>2, <2>3, <2>4
<1> QED BY <1>3, <1>4, <1>5, <1>6 DEF Compacted!Next

\* No two nodes ever differ on what both have applied (_apply_committed, take_snapshot,
\* _restore), whatever is compacted, restarted, lost or overtaken, when one
\* batch holds any log there can be: no request is cut, so that none calls more
\* committed than it shows.
THEOREM AppliedAgreeHolds ==
  ASSUME IsFiniteSet(Server), Server # {}, MaxBatch \in Nat, MaxTerm \in Nat, MaxWrites \in Nat,
         MaxTerm + MaxWrites <= MaxBatch
  PROVE  Compacted!Spec => []AppliedAgree
<1>1. Compacted!Init => CatchUpInv /\ WithinBounds
  <2>1. Compacted!Init => WithinBounds
    BY DEF Compacted!Init, WithinBounds
  <2> QED BY <2>1, CatchUpBegins
<1>2. CatchUpInv /\ WithinBounds /\ [Compacted!Next]_(Compacted!vars) => CatchUpInv' /\ WithinBounds'
  BY ShortRequestsCover, CatchUpSteps, CatchUpWithinBounds
<1>3. CatchUpInv => AppliedAgree
  BY CatchUpAgrees
<1> QED BY <1>1, <1>2, <1>3, PTL DEF Compacted!Spec

-----------------------------------------------------------------------------
(***************************************************************************)
(* Reads (Reads.tla): the time of a request is echoed, and a leader knows  *)
(* when it sent the last request that each peer acknowledged.              *)
(***************************************************************************)
Asked == [at : Nat, index : Nat, floor : Nat, reign : Nat]

\* A request is from a server that has had its term, a reply to one that has, and a
\* success tells of an entry of the term.
Dated(T, h, i, m) ==
    /\ m.src \in Server /\ m.dst \in Server /\ m.sent \in Nat /\ m.sent <= i
    /\ \/ /\ m.type = "append" /\ m.term <= T[m.src]
          /\ Len(h[m.term]) <= MaxBatch => Holds(h[m.term], m.term, End(m))
       \/ m.type = "reply" /\ (m.success => Holds(h[m.term], m.term, m.match))

\* A request of n, or an answer to one, from before n led as it does.
Outdated(m, n, T) ==
    /\ \/ m.type = "append" /\ m.src = n
       \/ m.type = "reply" /\ m.success /\ m.dst = n
    /\ m.term < T[n]

\* A majority is of a later term, and has acknowledged nothing that n sent since.
Superseded(n, r, T, ac, nt) ==
    \E V \in SUBSET Server :
       /\ IsMajority(V)
       /\ \A q \in V : T[q] > T[n] /\ ac[n][q] < r.at
       /\ \A m \in nt :
             m.type = "reply" /\ m.success /\ m.src \in V /\ m.dst = n => m.sent < r.at

\* What had been told when the read came is in the log of n, up to where it reads
\* if that was in its own term.
Promised(n, r, T, h, a) ==
    \/ r.floor = 0
    \/ \E t, i \in Nat :
          /\ Chosen(h, a, t, i) /\ r.floor \in 1..i /\ h[t][r.floor].write
          /\ t < T[n] \/ (t = T[n] /\ r.floor <= r.index)

\* A read that n holds back.
Waits(n, r, T, D, L, mt, ac, nt, i, h, a) ==
    /\ D[n] /\ r \in Asked /\ r.at <= i
    /\ \A m \in nt : Outdated(m, n, T) => m.sent < r.at
    /\ \A p \in Peers(n) : ac[n][p] >= r.at => Holds(L[n], T[n], mt[n][p])
    /\ r.reign <= T[n] \/ Superseded(n, r, T, ac, nt)
    /\ r.reign <= T[n] => Promised(n, r, T, h, a)

\* A message that does not matter to a read of n.
Mild(m, n, r, T) ==
    /\ Outdated(m, n, T) => m.sent < r.at
    /\ m.type = "reply" /\ m.success /\ m.dst = n => T[m.src] <= T[n]

\* A read of n that the step does not concern.
Undisturbed(n, r, T, L, mt, ac, nt, T2, D2, L2, mt2, ac2, nt2) ==
    /\ T2[n] = T[n] /\ D2[n] /\ PrefixOf(L[n], L2[n]) /\ mt2[n] = mt[n] /\ ac2[n] = ac[n]
    /\ \A m \in nt2 : m \in nt \/ Mild(m, n, r, T)

\* What was held stays held,
LEMMA HoldsGrows ==
  ASSUME NEW K \in Log, NEW M \in Log, PrefixOf(K, M), NEW t, NEW i, Holds(K, t, i)
  PROVE  Holds(M, t, i)
<1>1. Len(K) \in Nat /\ Len(M) \in Nat
  BY LogType
<1> QED BY <1>1 DEF Holds, PrefixOf

\* promised promised,
LEMMA PromisedGrows ==
  ASSUME IsFiniteSet(Server), NEW T \in [Server -> Nat], NEW T2 \in [Server -> Nat],
         NEW h \in [Nat -> Log], NEW a \in [Server -> [Nat -> Nat]],
         NEW h2 \in [Nat -> Log], NEW a2 \in [Server -> [Nat -> Nat]], Grows(h, a, h2, a2),
         NEW n \in Server, NEW r, T2[n] = T[n], Promised(n, r, T, h, a)
  PROVE  Promised(n, r, T2, h2, a2)
<1>1. CASE r.floor = 0
  BY <1>1 DEF Promised
<1>2. ASSUME NEW t \in Nat, NEW i \in Nat,
             Chosen(h, a, t, i), r.floor \in 1..i, h[t][r.floor].write,
             t < T[n] \/ (t = T[n] /\ r.floor <= r.index)
      PROVE  Promised(n, r, T2, h2, a2)
  <2> DEFINE K == h[t]
             M == h2[t]
  <2>1. Chosen(h2, a2, t, i)
    BY <1>2, ChosenGrows
  <2>2. K \in Log /\ M \in Log /\ PrefixOf(K, M) /\ i \in 1..Len(K)
    BY <1>2 DEF Grows, Chosen, Holds
  <2> HIDE DEF K, M
  <2>3. Len(K) \in Nat
    BY <2>2, LogType
  <2>4. r.floor \in 1..Len(K)
    <3> DEFINE f == r.floor
    <3>1. f \in 1..i
      BY <1>2
    <3> HIDE DEF f
    <3>2. f \in 1..Len(K)
      BY <2>2, <2>3, <3>1
    <3> QED BY <3>2 DEF f
  <2>5. M[r.floor] = K[r.floor]
    BY <2>2, <2>4 DEF PrefixOf
  <2>6. M[r.floor].write
    BY <1>2, <2>5 DEF K
  <2> QED BY <1>2, <2>1, <2>6 DEF Promised, M
<1> QED BY <1>1, <1>2 DEF Promised

\* and a read waits, as long as its leader knows nothing new.
LEMMA WaitsOn ==
  ASSUME IsFiniteSet(Server), NEW T \in [Server -> Nat], NEW T2 \in [Server -> Nat],
         NEW h \in [Nat -> Log], NEW a \in [Server -> [Nat -> Nat]],
         NEW h2 \in [Nat -> Log], NEW a2 \in [Server -> [Nat -> Nat]],
         Advances(T, h, a, T2, h2, a2),
         NEW D, NEW D2, NEW L \in [Server -> Log], NEW L2 \in [Server -> Log],
         NEW mt, NEW mt2, NEW ac, NEW ac2, NEW nt, NEW nt2, NEW i \in Nat, NEW i2 \in Nat, i <= i2,
         NEW n \in Server, NEW r, Waits(n, r, T, D, L, mt, ac, nt, i, h, a),
         Undisturbed(n, r, T, L, mt, ac, nt, T2, D2, L2, mt2, ac2, nt2)
  PROVE  Waits(n, r, T2, D2, L2, mt2, ac2, nt2, i2, h2, a2)
<1>1. (\A q \in Server : T2[q] >= T[q]) /\ Grows(h, a, h2, a2)
  BY DEF Advances
<1>2. /\ T2[n] = T[n] /\ D2[n] /\ PrefixOf(L[n], L2[n]) /\ mt2[n] = mt[n] /\ ac2[n] = ac[n]
      /\ \A m \in nt2 : m \in nt \/ Mild(m, n, r, T)
  BY DEF Undisturbed
<1>3. r \in Asked /\ r.at <= i /\ r.at \in Nat
  BY DEF Waits, Asked
<1>4. r.at <= i2
  BY <1>3
<1>5. \A m \in nt2 : Outdated(m, n, T2) => m.sent < r.at
  BY <1>2 DEF Waits, Mild, Outdated
<1>6. ASSUME NEW p \in Peers(n), ac2[n][p] >= r.at PROVE Holds(L2[n], T2[n], mt2[n][p])
  <2> DEFINE K == L[n]
             M == L2[n]
             j == mt[n][p]
             t == T[n]
  <2>1. Holds(K, t, j)
    BY <1>6, <1>2 DEF Waits
  <2>2. K \in Log /\ M \in Log /\ PrefixOf(K, M)
    BY <1>2
  <2> HIDE DEF K, M, j, t
  <2>3. Holds(M, t, j)
    BY <2>1, <2>2, HoldsGrows
  <2> QED BY <1>2, <2>3 DEF M, j, t
<1>7. ASSUME Superseded(n, r, T, ac, nt) PROVE Superseded(n, r, T2, ac2, nt2)
  <2>1. PICK V \in SUBSET Server :
          /\ IsMajority(V)
          /\ \A q \in V : T[q] > T[n] /\ ac[n][q] < r.at
          /\ \A m \in nt :
                m.type = "reply" /\ m.success /\ m.src \in V /\ m.dst = n => m.sent < r.at
    BY <1>7 DEF Superseded
  <2>2. \A q \in V : T2[q] > T2[n] /\ ac2[n][q] < r.at
    <3> TAKE q \in V
    <3>1. T[q] \in Nat /\ T2[q] \in Nat /\ T[n] \in Nat /\ T2[q] >= T[q] /\ T[q] > T[n]
      BY <1>1, <2>1
    <3> QED BY <1>2, <2>1, <3>1
  <2>3. ASSUME NEW m \in nt2, m.type = "reply", m.success, m.src \in V, m.dst = n
        PROVE  m.sent < r.at
    <3>1. CASE m \in nt
      BY <2>1, <2>3, <3>1
    <3>2. CASE Mild(m, n, r, T)
      <4>1. T[m.src] <= T[n] /\ T[m.src] > T[n]
        BY <2>1, <2>3, <3>2 DEF Mild
      <4>2. T[m.src] \in Nat /\ T[n] \in Nat
        BY <2>3
      <4> QED BY <4>1, <4>2
    <3> QED BY <1>2, <3>1, <3>2
  <2> QED BY <2>1, <2>2, <2>3 DEF Superseded
<1>8. r.reign <= T2[n] \/ Superseded(n, r, T2, ac2, nt2)
  BY <1>7, <1>2 DEF Waits
<1>9. ASSUME r.reign <= T2[n] PROVE Promised(n, r, T2, h2, a2)
  <2>1. Promised(n, r, T, h, a)
    BY <1>9, <1>2 DEF Waits
  <2> QED BY <1>1, <1>2, <2>1, PromisedGrows
<1> QED BY <1>3, <1>4, <1>5, <1>6, <1>8, <1>9, <1>2 DEF Waits

\* The leader's own entries are the last ones.
LEMMA HoldsAbove ==
  ASSUME NEW T, NEW D, NEW L, NEW h, NEW a, NEW w, Sound(T, D, L, h, a, w),
         NEW n \in Server, D[n], NEW i, Holds(L[n], T[n], i), NEW j \in Nat, i <= j, j <= Len(L[n])
  PROVE  Holds(L[n], T[n], j)
<1> DEFINE K == L[n]
           t == T[n]
<1>1. /\ K \in Log /\ t \in Nat /\ h \in [Nat -> Log] /\ Traced(K, h)
      /\ \A u \in Nat : \A k \in 1..Len(h[u]) : h[u][k].term <= u
      /\ \A k \in 1..Len(K) : K[k].term <= t
  BY DEF Sound, Types, Written
<1>2. Holds(K, t, i) /\ j <= Len(K)
  OBVIOUS
<1> HIDE DEF K, t
<1>3. Len(K) \in Nat /\ i \in 1..Len(K) /\ K[i].term = t
  BY <1>1, <1>2, LogType DEF Holds
<1>4. j \in 1..Len(K) /\ i \in 1..j
  BY <1>2, <1>3
<1>5. K[i].term <= K[j].term
  BY <1>1, <1>4, TermsSorted
<1>6. K[j].term \in Nat /\ K[j].term <= t
  BY <1>1, <1>4, LogType
<1>7. Holds(K, t, j)
  BY <1>1, <1>3, <1>4, <1>5, <1>6 DEF Holds
<1> QED BY <1>7 DEF K, t

\* The success m is on its way to n, which is in its term or a later one.
Success(m, n, nt, T, h, a, i) ==
    /\ m \in nt /\ m.type = "reply" /\ m.success /\ m.dst = n /\ m.term <= T[n]
    /\ Fine(T, h, a, m) /\ Dated(T, h, i, m)

\* What a leader n notes of the success m.
Learns(n, m, T, mt, ac, mt2, ac2) ==
    /\ mt2[n] = Matched(T, mt, n, m)
    /\ ac2[n] = [ac[n] EXCEPT ![m.src] = Max({@, m.sent})]

\* A leader learns of a success: the reads that it holds back wait on, or may be
\* answered.
LEMMA WaitsMore ==
  ASSUME IsFiniteSet(Server),
         NEW T, NEW D, NEW L, NEW c, NEW nx, NEW mt, NEW w, NEW h, NEW a,
         Replicated(T, D, L, c, nx, mt, w, h, a), NEW n \in Server,
         NEW nt, NEW m, NEW i, Success(m, n, nt, T, h, a, i),
         NEW ac \in [Server -> [Server -> Nat]], NEW mt2, NEW ac2, Learns(n, m, T, mt, ac, mt2, ac2),
         NEW nt2, NEW r, Waits(n, r, T, D, L, mt, ac, nt, i, h, a),
         \A o \in nt2 : o \in nt \/ Mild(o, n, r, T)
  PROVE  Waits(n, r, T, D, L, mt2, ac2, nt2, i, h, a)
<1>1. /\ Sound(T, D, L, h, a, w) /\ T \in [Server -> Nat] /\ L \in [Server -> Log]
      /\ D[n] /\ a \in [Server -> [Nat -> Nat]] /\ mt \in [Server -> [Server -> Nat]]
      /\ L[n] = h[T[n]]
      /\ m \in nt /\ m.type = "reply" /\ m.success /\ m.dst = n /\ m.term <= T[n]
      /\ Fine(T, h, a, m) /\ Dated(T, h, i, m)
  BY DEF Waits, Replicated, Sound, Types, Written, Success
<1>2. r \in Asked /\ r.at <= i /\ r.at \in Nat
  BY DEF Waits, Asked
<1>3. /\ m.src \in Server /\ m.sent \in Nat /\ m.term \in Nat /\ m.match \in Nat
      /\ Holds(h[m.term], m.term, m.match) /\ T[n] \in Nat
  BY <1>1 DEF Fine, Dated
<1> DEFINE s == m.src
<1>4. /\ \A p \in Server : p # s => ac2[n][p] = ac[n][p]
      /\ ac[n][s] \in Nat /\ ac2[n][s] = IF ac[n][s] >= m.sent THEN ac[n][s] ELSE m.sent
  <2>1. ac[n] \in [Server -> Nat]
    OBVIOUS
  <2>2. Max({ac[n][s], m.sent}) = IF ac[n][s] >= m.sent THEN ac[n][s] ELSE m.sent
    <3> DEFINE x == ac[n][s]
               y == m.sent
    <3>1. x \in Nat /\ y \in Nat
      BY <1>3, <2>1
    <3> HIDE DEF x, y
    <3>2. Max({x, y}) = IF x >= y THEN x ELSE y
      BY <3>1, MaxOfTwo
    <3> QED BY <3>2 DEF x, y
  <2> QED BY <1>3, <2>1, <2>2 DEF Learns
<1>5. /\ \A p \in Server : p # s => mt2[n][p] = mt[n][p]
      /\ m.term # T[n] => mt2[n][s] = mt[n][s]
      /\ m.term = T[n] => mt2[n][s] = Max({mt[n][s], m.match})
  <2>1. mt[n] \in [Server -> Nat]
    BY <1>1
  <2> QED BY <1>3, <2>1 DEF Matched, Learns
<1>6. ASSUME NEW o \in nt2, Outdated(o, n, T) PROVE o.sent < r.at
  BY <1>6 DEF Waits, Mild
<1>7. ASSUME NEW p \in Peers(n), ac2[n][p] >= r.at PROVE Holds(L[n], T[n], mt2[n][p])
  <2>1. p \in Server
    BY DEF Peers
  <2>2. CASE p # s
    BY <1>4, <1>5, <1>7, <2>1, <2>2 DEF Waits
  <2>3. CASE p = s /\ m.term = T[n]
    <3> DEFINE k == mt[n][s]
               j == m.match
               K == L[n]
    <3>1. K \in Log /\ k \in Nat /\ j \in Nat /\ Holds(K, T[n], j)
      BY <1>1, <1>3, <2>3
    <3>2. k <= a[s][T[n]] /\ a[s][T[n]] \in Nat
      BY <1>1, <1>3 DEF Replicated
    <3>3. a[s][T[n]] <= Len(K)
      BY <1>1, <1>3 DEF Sound, Acknowledged
    <3>4. mt2[n][p] = Max({k, j})
      BY <1>5, <2>3
    <3> HIDE DEF k, j
    <3>5. k <= Len(K) /\ j <= k => Holds(K, T[n], k)
      BY <1>1, <3>1, HoldsAbove
    <3> HIDE DEF K
    <3>6. Len(K) \in Nat
      BY <3>1, LogType
    <3>7. Max({k, j}) = IF k >= j THEN k ELSE j
      BY <3>1, MaxOfTwo
    <3>8. k <= Len(K)
      BY <3>1, <3>2, <3>3, <3>6
    <3>9. Holds(K, T[n], Max({k, j}))
      BY <3>1, <3>5, <3>7, <3>8
    <3> QED BY <3>4, <3>9 DEF K
  <2>4. CASE p = s /\ m.term # T[n]
    <3>1. m.sent < r.at
      <4>1. m.term < T[n]
        <5> DEFINE x == m.term
                   y == T[n]
        <5>1. x \in Nat /\ y \in Nat /\ x <= y /\ x # y
          BY <1>1, <1>3, <2>4
        <5> HIDE DEF x, y
        <5>2. x < y
          BY <5>1
        <5> QED BY <5>2 DEF x, y
      <4>2. Outdated(m, n, T)
        BY <1>1, <4>1 DEF Outdated
      <4> QED BY <1>1, <4>2 DEF Waits
    <3>2. ac[n][p] >= r.at
      BY <1>2, <1>3, <1>4, <1>7, <2>4, <3>1
    <3> QED BY <1>5, <2>4, <3>2 DEF Waits
  <2> QED BY <2>2, <2>3, <2>4
<1>8. ASSUME Superseded(n, r, T, ac, nt) PROVE Superseded(n, r, T, ac2, nt2)
  <2>1. PICK V \in SUBSET Server :
          /\ IsMajority(V)
          /\ \A q \in V : T[q] > T[n] /\ ac[n][q] < r.at
          /\ \A o \in nt :
                o.type = "reply" /\ o.success /\ o.src \in V /\ o.dst = n => o.sent < r.at
    BY <1>8 DEF Superseded
  <2>2. ASSUME NEW q \in V PROVE ac2[n][q] < r.at
    <3>1. CASE q # s
      BY <1>4, <2>1, <3>1
    <3>2. CASE q = s
      <4>1. m.sent < r.at
        BY <1>1, <2>1, <3>2
      <4> QED BY <1>4, <2>1, <3>2, <4>1
    <3> QED BY <3>1, <3>2
  <2>3. ASSUME NEW o \in nt2, o.type = "reply", o.success, o.src \in V, o.dst = n
        PROVE  o.sent < r.at
    <3>1. CASE o \in nt
      BY <2>1, <2>3, <3>1
    <3>2. CASE Mild(o, n, r, T)
      <4>1. T[o.src] <= T[n] /\ T[o.src] > T[n]
        BY <2>1, <2>3, <3>2 DEF Mild
      <4>2. T[o.src] \in Nat /\ T[n] \in Nat
        BY <1>1, <2>3
      <4> QED BY <4>1, <4>2
    <3> QED BY <3>1, <3>2
  <2> QED BY <2>1, <2>2, <2>3 DEF Superseded
<1>9. /\ r.reign <= T[n] \/ Superseded(n, r, T, ac2, nt2)
      /\ r.reign <= T[n] => Promised(n, r, T, h, a)
  BY <1>8 DEF Waits
<1> QED BY <1>1, <1>2, <1>6, <1>7, <1>9 DEF Waits

\* The last write up to i.
LEMMA LastWriteIsLast ==
  ASSUME NEW K, NEW i \in Nat
  PROVE  /\ LastWrite(K, i) \in 0..i /\ (LastWrite(K, i) # 0 => K[LastWrite(K, i)].write)
         /\ \A j \in 1..i : K[j].write => j <= LastWrite(K, i)
<1> DEFINE S == {0} \cup {j \in 1..i : K[j].write}
<1>1. S \in SUBSET Nat /\ S # {} /\ \A x \in S : x <= i
  OBVIOUS
<1> HIDE DEF S
<1>2. Max(S) \in S /\ \A x \in S : x <= Max(S)
  BY <1>1, MaxIsGreatest
<1>3. LastWrite(K, i) = Max(S)
  BY DEF LastWrite, S
<1> QED BY <1>2, <1>3 DEF S

\* The read is confirmed, and what it waits for is committed: c2, as a leader counts it.
Ready(n, r, K, t, c, mtn, acn, c2) ==
    Confirmed(n, acn, r.at) /\ c2 = Counted(K, t, c, n, mtn) /\ c2 >= r.index

\* Once a majority acknowledged what was sent since the read, nobody had been elected
\* when it came, and the leader has committed an entry of its own term, and with it
\* all that had been told.
LEMMA AnswersWell ==
  ASSUME IsFiniteSet(Server), NEW T, NEW D, NEW L, NEW h, NEW a, NEW w, Sound(T, D, L, h, a, w),
         NEW n \in Server, NEW mt, mt[n] \in [Server -> Nat], NEW ac, ac[n] \in [Server -> Nat],
         NEW nt, NEW i, NEW r, Waits(n, r, T, D, L, mt, ac, nt, i, h, a),
         NEW c \in Nat, NEW c2 \in Nat, Ready(n, r, L[n], T[n], c, mt[n], ac[n], c2)
  PROVE  r.reign <= T[n] /\ LastWrite(L[n], c2) >= r.floor
<1> DEFINE K == L[n]
           t == T[n]
           W == {n} \cup {p \in Peers(n) : ac[n][p] >= r.at}
<1>1. /\ D[n] /\ K \in Log /\ t \in Nat /\ K = h[t] /\ Len(K) > 0 /\ Holds(K, t, Len(K)) /\ Traced(K, h)
      /\ h \in [Nat -> Log] /\ T \in [Server -> Nat]
      /\ \A u \in Nat : \A k \in 1..Len(h[u]) : h[u][k].term <= u
  BY DEF Waits, Sound, Types, Written
<1>2. r \in Asked /\ r.at \in Nat /\ r.index \in Nat /\ r.floor \in Nat /\ r.reign \in Nat
  BY DEF Waits, Asked
<1>3. W \in SUBSET Server /\ IsMajority(W)
  BY DEF Ready, Confirmed, Peers
<1>4. r.reign <= T[n]
  <2> SUFFICES ASSUME Superseded(n, r, T, ac, nt) PROVE FALSE
    BY DEF Waits
  <2>1. PICK V \in SUBSET Server : IsMajority(V) /\ \A q \in V : T[q] > T[n] /\ ac[n][q] < r.at
    BY DEF Superseded
  <2> HIDE DEF W
  <2>2. PICK q \in Server : q \in W /\ q \in V
    BY <1>3, <2>1, MajoritiesMeet
  <2>3. T[q] > T[n] /\ T[n] \in Nat /\ ac[n][q] < r.at /\ ac[n][q] \in Nat
    BY <1>1, <2>1, <2>2
  <2>4. q # n
    BY <2>3
  <2>5. ac[n][q] >= r.at
    BY <2>2, <2>4 DEF W
  <2> QED BY <1>2, <2>3, <2>5
<1>5. Promised(n, r, T, h, a)
  BY <1>4 DEF Waits
<1> DEFINE Own == {j \in 1..Len(K) : K[j].term = t}
           first == Min(Own)
<1>6. /\ first \in Nat /\ first \in 1..Len(K) /\ Holds(K, t, first)
      /\ \A j \in Nat : Holds(K, t, j) => first <= j
  <2> HIDE DEF K, t
  <2>1. Len(K) \in Nat
    BY <1>1, LogType
  <2>2. Own \in SUBSET Nat /\ Own # {}
    <3>1. Len(K) \in Own
      BY <1>1, <2>1 DEF Holds
    <3>2. Own \in SUBSET Nat
      BY <2>1
    <3> HIDE DEF Own
    <3> QED BY <3>1, <3>2
  <2> DEFINE O == Own
  <2>3. O \in SUBSET Nat /\ O # {}
    BY <2>2
  <2> HIDE DEF O
  <2>4. Min(O) \in O /\ \A x \in O : Min(O) <= x
    BY <2>3, MinIsLeast
  <2>5. first \in Own /\ \A x \in Own : first <= x
    BY <2>4 DEF O
  <2> HIDE DEF first
  <2>6. \A j \in Nat : Holds(K, t, j) => j \in Own
    BY DEF Holds
  <2> QED BY <2>1, <2>5, <2>6 DEF Holds
<1> HIDE DEF first
<1> DEFINE stored == {j \in 0..Len(K) : IsMajority({n} \cup {p \in Peers(n) : mt[n][p] >= j})}
           top == Max(stored)
<1>7. first \in stored
  <2> DEFINE Q == {n} \cup {p \in Peers(n) : mt[n][p] >= first}
  <2>1. Q \in SUBSET Server
    BY DEF Peers
  <2>2. \A p \in Peers(n) : ac[n][p] >= r.at => Holds(K, t, mt[n][p]) /\ mt[n][p] \in Nat
    BY DEF Waits, Peers
  <2>3. \A p \in Peers(n) : ac[n][p] >= r.at => first <= mt[n][p] /\ mt[n][p] \in Nat
    BY <1>6, <2>2
  <2>4. W \subseteq Q
    BY <1>6, <2>3
  <2> HIDE DEF W, Q
  <2>5. IsMajority(Q)
    BY <1>3, <2>1, <2>4, MajorityGrows
  <2> HIDE DEF K
  <2>6. Len(K) \in Nat
    BY <1>1, LogType
  <2>7. first \in 0..Len(K)
    BY <1>6, <2>6
  <2> QED BY <2>5, <2>7 DEF Q
<1>8. top \in 0..Len(K) /\ first <= top
  <2> HIDE DEF K
  <2>1. Len(K) \in Nat
    BY <1>1, LogType
  <2>2. \A x \in stored : x \in 0..Len(K)
    OBVIOUS
  <2> HIDE DEF stored
  <2>3. stored \in SUBSET Nat /\ stored # {} /\ \A x \in stored : x <= Len(K)
    BY <1>7, <2>1, <2>2
  <2>4. top \in stored /\ \A x \in stored : x <= top
    BY <2>1, <2>3, MaxIsGreatest
  <2> HIDE DEF top
  <2> QED BY <1>7, <2>2, <2>4
<1>9. TermAt(K, top) = t
  <2> HIDE DEF top
  <2>1. top \in Nat /\ top # 0 /\ top <= Len(K)
    BY <1>6, <1>8
  <2>2. Holds(K, t, top)
    BY <1>1, <1>6, <1>8, <2>1, HoldsAbove
  <2> QED BY <2>1, <2>2 DEF Holds, TermAt
<1>10. c2 = IF top > c /\ TermAt(K, top) = t THEN top ELSE c
  BY DEF Ready, Counted
<1> HIDE DEF top, stored
<1>11. first <= c2
  <2>1. top \in Nat
    BY <1>8
  <2> QED BY <1>6, <1>8, <1>9, <1>10, <2>1
<1> HIDE DEF K, t
<1>12. Len(K) \in Nat
  BY <1>1, LogType
<1>13. CASE r.floor = 0
  <2>1. LastWrite(K, c2) \in 0..c2
    BY LastWriteIsLast
  <2> QED BY <1>4, <1>13, <2>1 DEF K
<1>14. ASSUME NEW u \in Nat, NEW k \in Nat, Chosen(h, a, u, k), r.floor \in 1..k, h[u][r.floor].write,
              u < t \/ (u = t /\ r.floor <= r.index)
       PROVE  LastWrite(K, c2) >= r.floor
  <2> DEFINE f == r.floor
  <2>1. f \in Nat /\ f \in 1..k /\ h[u][f].write
    BY <1>2, <1>14
  <2>2. f <= c2 /\ K[f].write
    <3>1. CASE u = t
      <4>1. f <= r.index
        BY <1>1, <1>14, <3>1
      <4> HIDE DEF f
      <4>2. r.index <= c2
        BY <1>2 DEF Ready
      <4> QED BY <1>1, <1>2, <2>1, <3>1, <4>1, <4>2
    <3>2. CASE u < t
      <4>1. Holds(K, u, k) /\ \A j \in 1..k : K[j] = h[u][j]
        <5>1. t \in Nat /\ t >= u /\ Len(h[t]) > 0
          BY <1>1, <3>2
        <5>2. Holds(h[t], u, k) /\ \A j \in 1..k : h[t][j] = h[u][j]
          BY <1>14, <5>1, ChosenIsHeld
        <5> QED BY <1>1, <5>2
      <4>2. k \in 1..Len(K) /\ K[k].term = u
        BY <4>1 DEF Holds
      <4>3. k < first
        <5> SUFFICES ASSUME ~ (k < first) PROVE FALSE
          OBVIOUS
        <5>1. first \in 1..k
          BY <1>6, <4>2
        <5>2. K[first].term <= K[k].term
          BY <1>1, <4>2, <5>1, TermsSorted
        <5>3. K[first].term = t
          BY <1>6 DEF Holds
        <5> QED BY <1>1, <3>2, <4>2, <5>2, <5>3
      <4>4. K[f] = h[u][f]
        BY <2>1, <4>1
      <4> HIDE DEF f
      <4> QED BY <1>6, <1>11, <2>1, <4>3, <4>4
    <3> QED BY <1>14, <3>1, <3>2
  <2> HIDE DEF f
  <2>3. LastWrite(K, c2) >= f
    <3>1. f \in 1..c2
      BY <2>1, <2>2
    <3>2. f <= LastWrite(K, c2) /\ LastWrite(K, c2) \in 0..c2
      BY <2>2, <3>1, LastWriteIsLast
    <3>3. LastWrite(K, c2) \in Nat
      BY <3>2
    <3> QED BY <2>1, <3>2, <3>3
  <2> QED BY <2>3 DEF f
<1> QED BY <1>4, <1>5, <1>13, <1>14 DEF Promised, K, t

\* What a client was told of: a write that a majority acknowledged, and that whoever
\* leads in some term has committed.
Heard(T, D, c, h, a, x) ==
    \/ x = 0
    \/ \E t, i, u \in Nat :
          /\ Chosen(h, a, t, i) /\ x \in 1..i /\ h[t][x].write
          /\ t <= u /\ Len(h[u]) > 0
          /\ \A n \in Server : D[n] /\ T[n] = u => x <= c[n]

\* Who leads has led, and has not forgotten a commitment, or is the first of its term.
LeadersGoOn(T, D, c, h, T2, D2, c2) ==
    \A n \in Server : D2[n] => \/ D[n] /\ T2[n] = T[n] /\ c2[n] >= c[n]
                               \/ Len(h[T2[n]]) = 0

\* What a client was told of stays told.
LEMMA HeardGrows ==
  ASSUME IsFiniteSet(Server), NEW T \in [Server -> Nat], NEW T2 \in [Server -> Nat], NEW D, NEW D2,
         NEW c \in [Server -> Nat], NEW c2 \in [Server -> Nat],
         NEW h \in [Nat -> Log], NEW a \in [Server -> [Nat -> Nat]],
         NEW h2 \in [Nat -> Log], NEW a2 \in [Server -> [Nat -> Nat]], Grows(h, a, h2, a2),
         LeadersGoOn(T, D, c, h, T2, D2, c2), NEW x \in Nat, Heard(T, D, c, h, a, x)
  PROVE  Heard(T2, D2, c2, h2, a2, x)
<1>1. CASE x = 0
  BY <1>1 DEF Heard
<1>2. ASSUME NEW t \in Nat, NEW i \in Nat, NEW u \in Nat,
             Chosen(h, a, t, i), x \in 1..i, h[t][x].write, t <= u, Len(h[u]) > 0,
             \A n \in Server : D[n] /\ T[n] = u => x <= c[n]
      PROVE  Heard(T2, D2, c2, h2, a2, x)
  <2> DEFINE K == h[t]
             M == h2[t]
             U == h[u]
             N == h2[u]
  <2>1. Chosen(h2, a2, t, i)
    BY <1>2, ChosenGrows
  <2>2. K \in Log /\ M \in Log /\ PrefixOf(K, M) /\ i \in 1..Len(K) /\ U \in Log /\ N \in Log /\ PrefixOf(U, N)
    BY <1>2 DEF Grows, Chosen, Holds
  <2> HIDE DEF K, M, U, N
  <2>3. Len(K) \in Nat /\ Len(U) \in Nat /\ Len(N) \in Nat /\ Len(U) <= Len(N)
    BY <2>2, LogType DEF PrefixOf
  <2>4. x \in 1..Len(K)
    BY <1>2, <2>2, <2>3
  <2>5. M[x] = K[x]
    BY <2>2, <2>4 DEF PrefixOf
  <2>6. M[x].write
    BY <1>2, <2>5 DEF K
  <2>7. Len(N) > 0 /\ Len(U) # 0
    <3>1. Len(U) > 0
      BY <1>2 DEF U
    <3> QED BY <2>3, <3>1
  <2>8. ASSUME NEW n \in Server, D2[n], T2[n] = u PROVE x <= c2[n]
    <3>1. D[n] /\ T[n] = u /\ c2[n] >= c[n]
      BY <2>7, <2>8 DEF LeadersGoOn, U
    <3>2. x <= c[n] /\ c[n] \in Nat /\ c2[n] \in Nat
      BY <1>2, <3>1
    <3> QED BY <3>1, <3>2
  <2>9. /\ Chosen(h2, a2, t, i) /\ x \in 1..i /\ h2[t][x].write
        /\ t <= u /\ Len(h2[u]) > 0
        /\ \A n \in Server : D2[n] /\ T2[n] = u => x <= c2[n]
    BY <1>2, <2>1, <2>6, <2>7, <2>8 DEF M, N
  <2> QED BY <2>9 DEF Heard
<1> QED BY <1>1, <1>2 DEF Heard

\* What a leader has committed it may tell.
LEMMA CommittedIsHeard ==
  ASSUME NEW T, NEW D, NEW L, NEW h, NEW a, NEW w, Sound(T, D, L, h, a, w),
         NEW n \in Server, D[n], NEW c, c[n] \in Nat, Decided(h, a, L[n], c[n], T[n]),
         NEW x \in 1..c[n], L[n][x].write
  PROVE  Heard(T, D, c, h, a, x)
<1> DEFINE K == L[n]
           k == c[n]
           v == T[n]
<1>1. /\ v \in Nat /\ Len(h[v]) > 0 /\ \A q \in Server : D[q] /\ T[q] = v => q = n
  BY DEF Sound, Types, Written
<1>2. k \in Nat /\ x \in 1..k /\ K[x].write /\ k # 0
  OBVIOUS
<1>3. PICK t \in Nat, i \in Nat :
         t <= v /\ Chosen(h, a, t, i) /\ k <= i /\ k <= Len(K) /\ \A j \in 1..k : K[j] = h[t][j]
  BY <1>2 DEF Decided
<1>4. \A q \in Server : D[q] /\ T[q] = v => x <= c[q]
  BY <1>1, <1>2
<1> HIDE DEF K, k, v
<1>5. x \in 1..i /\ h[t][x].write /\ x \in Nat
  BY <1>2, <1>3
<1> QED BY <1>1, <1>3, <1>4, <1>5 DEF Heard

\* What was told is told, or the store's last write.
LEMMA ToldOrSeen ==
  ASSUME NEW x \in Nat, NEW y \in Nat, NEW S, S = {x} \/ S = {x} \cup 1..y
  PROVE  Max(S) = x \/ (Max(S) = y /\ y # 0)
<1>1. \A z \in S : z \in Nat /\ z <= x + y
  OBVIOUS
<1>2. x \in S /\ (\A z \in S : z = x \/ (z \in 1..y /\ y \in S))
  OBVIOUS
<1> DEFINE b == x + y
           z == Max(S)
<1>3. S \in SUBSET Nat /\ S # {} /\ b \in Nat /\ \A s \in S : s <= b
  BY <1>1, <1>2
<1> HIDE DEF b
<1>4. z \in S /\ \A s \in S : s <= z
  BY <1>3, MaxIsGreatest
<1> HIDE DEF z
<1>5. z \in Nat /\ (y \in S => y <= z)
  BY <1>3, <1>4
<1>6. z = x \/ (z \in 1..y /\ y \in S)
  BY <1>2, <1>4
<1>7. z = x \/ (z = y /\ y # 0)
  BY <1>5, <1>6
<1> QED BY <1>7 DEF z

\* A read that has just come waits as it should.
LEMMA ReadWaits ==
  ASSUME IsFiniteSet(Server), NEW T, NEW D, NEW L, NEW c, NEW nx, NEW mt, NEW w, NEW h, NEW a,
         Replicated(T, D, L, c, nx, mt, w, h, a), NEW n \in Server, D[n],
         NEW i \in Nat, NEW ac, ac[n] \in [Server -> Nat], \A p \in Server : ac[n][p] <= i,
         NEW nt, \A m \in nt : \/ m.sent \in Nat /\ m.sent <= i
                               \/ m.type = "append" /\ (m.src = n => m.term = T[n]),
         NEW x \in Nat, Heard(T, D, c, h, a, x), NEW r,
         r = [at |-> i + 1, index |-> c[n], floor |-> x, reign |-> Max({T[m] : m \in Server})]
  PROVE  Waits(n, r, T, D, L, mt, ac, nt, i + 1, h, a)
<1>1. /\ Sound(T, D, L, h, a, w) /\ T \in [Server -> Nat] /\ c[n] \in Nat /\ T[n] \in Nat
  BY DEF Replicated, Sound, Types
<1>2. PICK top \in Nat : Top(T, h, top)
  BY <1>1 DEF Sound
<1>3. Max({T[m] : m \in Server}) = top
  <2> DEFINE S == {T[m] : m \in Server}
  <2>1. \E q \in Server : T[q] = top
    BY <1>2, TopIsReached
  <2>2. S \in SUBSET Nat /\ S # {} /\ top \in S /\ \A z \in S : z <= top
    BY <1>1, <1>2, <2>1 DEF Top
  <2> HIDE DEF S
  <2>3. Max(S) \in S /\ \A z \in S : z <= Max(S)
    BY <2>2, MaxIsGreatest
  <2> DEFINE z == Max(S)
  <2>4. z \in Nat /\ z <= top /\ top <= z
    BY <2>2, <2>3
  <2> HIDE DEF z
  <2>5. z = top
    BY <2>4
  <2> QED BY <2>5 DEF S, z
<1>4. r \in Asked /\ r.at = i + 1 /\ r.index = c[n] /\ r.floor = x /\ r.reign = top
  BY <1>1, <1>3 DEF Asked
<1>5. ASSUME NEW m \in nt, Outdated(m, n, T) PROVE m.sent < r.at
  <2>1. m.sent \in Nat /\ m.sent <= i
    <3> SUFFICES ASSUME m.type = "append" /\ (m.src = n => m.term = T[n]) PROVE FALSE
      OBVIOUS
    <3>1. m.term = T[n] /\ m.term < T[n]
      BY <1>5 DEF Outdated
    <3> QED BY <1>1, <3>1
  <2> QED BY <1>4, <2>1
<1>6. ASSUME NEW p \in Peers(n) PROVE ~ (ac[n][p] >= r.at)
  <2>1. p \in Server /\ ac[n][p] \in Nat /\ ac[n][p] <= i
    BY DEF Peers
  <2> QED BY <1>4, <2>1
<1>7. r.reign <= T[n] \/ Superseded(n, r, T, ac, nt)
  <2> SUFFICES ASSUME ~ (r.reign <= T[n]) PROVE Superseded(n, r, T, ac, nt)
    OBVIOUS
  <2> DEFINE V == {q \in Server : T[q] = top}
  <2>1. V \in SUBSET Server /\ IsMajority(V)
    BY <1>2 DEF Top
  <2>2. ASSUME NEW q \in V PROVE T[q] > T[n] /\ ac[n][q] < r.at
    <3>1. T[q] = top /\ q \in Server /\ ac[n][q] \in Nat /\ ac[n][q] <= i
      OBVIOUS
    <3> QED BY <1>1, <1>4, <3>1
  <2>3. ASSUME NEW m \in nt, m.type = "reply" PROVE m.sent < r.at
    <3>1. m.sent \in Nat /\ m.sent <= i
      BY <2>3
    <3> QED BY <1>4, <3>1
  <2> HIDE DEF V
  <2> QED BY <2>1, <2>2, <2>3 DEF Superseded
<1>8. ASSUME r.reign <= T[n] PROVE Promised(n, r, T, h, a)
  <2>1. T[n] = top
    <3>1. T[n] <= top
      BY <1>2 DEF Top
    <3> QED BY <1>1, <1>4, <1>8, <3>1
  <2>2. CASE x = 0
    BY <1>4, <2>2 DEF Promised
  <2>3. ASSUME NEW t \in Nat, NEW k \in Nat, NEW u \in Nat,
               Chosen(h, a, t, k), x \in 1..k, h[t][x].write, t <= u, Len(h[u]) > 0,
               \A q \in Server : D[q] /\ T[q] = u => x <= c[q]
        PROVE  Promised(n, r, T, h, a)
    <3>1. u <= top
      BY <1>2, <2>3 DEF Top
    <3>2. t < T[n] \/ (t = T[n] /\ T[n] = u)
      BY <2>1, <2>3, <3>1
    <3>3. t < T[n] \/ (t = T[n] /\ r.floor <= r.index)
      BY <1>4, <2>3, <3>2
    <3> QED BY <1>4, <2>3, <3>3 DEF Promised
  <2> QED BY <2>2, <2>3 DEF Heard
<1>9. r.at <= i + 1
  BY <1>4
<1> QED BY <1>4, <1>5, <1>6, <1>7, <1>8, <1>9 DEF Waits

\* What is on its way.
Posted(T, h, a, i, m) == Fine(T, h, a, m) /\ Dated(T, h, i, m)

\* What is on its way stays true.
LEMMA PostedGrows ==
  ASSUME IsFiniteSet(Server), MaxBatch \in Nat, NEW T \in [Server -> Nat], NEW T2 \in [Server -> Nat],
         NEW h \in [Nat -> Log], NEW a \in [Server -> [Nat -> Nat]],
         NEW h2 \in [Nat -> Log], NEW a2 \in [Server -> [Nat -> Nat]],
         \A q \in Server : T2[q] >= T[q], Grows(h, a, h2, a2),
         NEW i \in Nat, NEW i2 \in Nat, i <= i2, NEW m, Posted(T, h, a, i, m)
  PROVE  Posted(T2, h2, a2, i2, m)
<1>1. Fine(T, h, a, m) /\ Dated(T, h, i, m)
  BY DEF Posted
<1>2. Fine(T2, h2, a2, m)
  <2>1. m.src \in Server
    BY <1>1 DEF Dated
  <2> QED BY <1>1, <2>1, FineGrows
<1> DEFINE t == m.term
           K == h[t]
           M == h2[t]
           s == m.sent
<1>3. t \in Nat /\ K \in Log /\ M \in Log /\ PrefixOf(K, M)
  BY <1>1 DEF Fine, Grows
<1>4. m.src \in Server /\ m.dst \in Server /\ s \in Nat /\ s <= i
  BY <1>1 DEF Dated
<1> HIDE DEF s
<1>5. s <= i2
  BY <1>4
<1> HIDE DEF K, M, t
<1>6. Len(K) \in Nat /\ Len(M) \in Nat /\ Len(K) <= Len(M)
  BY <1>3, LogType DEF PrefixOf
<1>7. \A j : Holds(K, t, j) => Holds(M, t, j)
  BY <1>3, HoldsGrows
<1>8. CASE /\ m.type = "append" /\ t <= T[m.src]
           /\ Len(K) <= MaxBatch => Holds(K, t, End(m))
  <2>1. t <= T2[m.src]
    <3>1. T[m.src] \in Nat /\ T2[m.src] \in Nat /\ T2[m.src] >= T[m.src]
      BY <1>4
    <3> QED BY <1>3, <1>8, <3>1
  <2>2. Len(M) <= MaxBatch => Len(K) <= MaxBatch
    BY <1>6
  <2>3. Len(M) <= MaxBatch => Holds(M, t, End(m))
    BY <1>7, <1>8, <2>2
  <2> QED BY <1>2, <1>4, <1>5, <1>8, <2>1, <2>3 DEF Posted, Dated, M, t, s
<1>9. CASE m.type = "reply" /\ (m.success => Holds(K, t, m.match))
  <2>1. m.success => Holds(M, t, m.match)
    BY <1>7, <1>9
  <2> QED BY <1>2, <1>4, <1>5, <1>9, <2>1 DEF Posted, Dated, M, t, s
<1> QED BY <1>1, <1>8, <1>9 DEF Dated, K, t

\* What the nodes, the reads and the clients know.
ReadsHolds(T, D, L, c, nx, mt, ac, rd, nt, i, w, x, an, h, a) ==
    /\ Replicated(T, D, L, c, nx, mt, w, h, a)
    /\ i \in Nat /\ x \in Nat
    /\ ac \in [Server -> [Server -> Nat]] /\ \A n, p \in Server : ac[n][p] <= i
    /\ rd \in [Server -> SUBSET Asked]
    /\ \A m \in nt : Posted(T, h, a, i, m)
    /\ \A n \in Server : \A r \in rd[n] : Waits(n, r, T, D, L, mt, ac, nt, i, h, a)
    /\ Heard(T, D, c, h, a, x)
    /\ \A b \in an : b.seen >= b.floor /\ b.of >= b.reign

\* The invariant of reads: some histories and acknowledgements explain the state.
ReadsInv ==
    \E h, a : ReadsHolds(term, leads, log, commit, next, match, acked, reads, net, now, writes,
                         told, answered, h, a)

\* A step keeps all of it, if it sends, notes, tells and answers what it may.
LEMMA ReadsGoOn ==
  ASSUME IsFiniteSet(Server), MaxBatch \in Nat,
         NEW T, NEW D, NEW L, NEW c, NEW nx, NEW mt, NEW ac, NEW rd, NEW nt, NEW i, NEW w, NEW x,
         NEW an, NEW h, NEW a,
         ReadsHolds(T, D, L, c, nx, mt, ac, rd, nt, i, w, x, an, h, a),
         NEW T2, NEW D2, NEW L2, NEW c2, NEW nx2, NEW mt2, NEW ac2, NEW rd2, NEW nt2, NEW i2, NEW w2,
         NEW x2, NEW an2, NEW h2, NEW a2,
         Replicated(T2, D2, L2, c2, nx2, mt2, w2, h2, a2), Advances(T, h, a, T2, h2, a2),
         LeadersGoOn(T, D, c, h, T2, D2, c2),
         i2 \in Nat, i <= i2, ac2 \in [Server -> [Server -> Nat]],
         \A n, p \in Server : ac2[n][p] <= i2,
         rd2 \in [Server -> SUBSET Asked],
         \A m \in nt2 : m \in nt \/ Posted(T2, h2, a2, i2, m),
         \A n \in Server : \A r \in rd2[n] :
            \/ Waits(n, r, T2, D2, L2, mt2, ac2, nt2, i2, h2, a2)
            \/ r \in rd[n] /\ Undisturbed(n, r, T, L, mt, ac, nt, T2, D2, L2, mt2, ac2, nt2),
         x2 = x \/ (x2 \in Nat /\ Heard(T2, D2, c2, h2, a2, x2)),
         \A b \in an2 : b \in an \/ (b.seen >= b.floor /\ b.of >= b.reign)
  PROVE  ReadsHolds(T2, D2, L2, c2, nx2, mt2, ac2, rd2, nt2, i2, w2, x2, an2, h2, a2)
<1>1. /\ h \in [Nat -> Log] /\ a \in [Server -> [Nat -> Nat]] /\ L \in [Server -> Log]
      /\ h2 \in [Nat -> Log] /\ a2 \in [Server -> [Nat -> Nat]] /\ L2 \in [Server -> Log]
      /\ T \in [Server -> Nat] /\ T2 \in [Server -> Nat] /\ c \in [Server -> Nat] /\ c2 \in [Server -> Nat]
  BY DEF ReadsHolds, Replicated, Sound, Types
<1>2. Grows(h, a, h2, a2) /\ \A q \in Server : T2[q] >= T[q]
  BY DEF Advances
<1>3. i \in Nat /\ x \in Nat
  BY DEF ReadsHolds
<1>4. ASSUME NEW m \in nt2 PROVE Posted(T2, h2, a2, i2, m)
  <2>1. CASE m \in nt
    <3>1. Posted(T, h, a, i, m)
      BY <2>1 DEF ReadsHolds
    <3> QED BY <1>1, <1>2, <1>3, <3>1, PostedGrows
  <2> QED BY <2>1
<1>5. ASSUME NEW n \in Server, NEW r \in rd2[n]
      PROVE  Waits(n, r, T2, D2, L2, mt2, ac2, nt2, i2, h2, a2)
  <2>1. CASE r \in rd[n] /\ Undisturbed(n, r, T, L, mt, ac, nt, T2, D2, L2, mt2, ac2, nt2)
    <3>1. Waits(n, r, T, D, L, mt, ac, nt, i, h, a)
      BY <2>1 DEF ReadsHolds
    <3> QED BY <1>1, <1>3, <2>1, <3>1, WaitsOn, ZenonT(60)
  <2> QED BY <2>1
<1>6. x2 \in Nat /\ Heard(T2, D2, c2, h2, a2, x2)
  <2>1. CASE x2 = x
    <3>1. Heard(T, D, c, h, a, x)
      BY DEF ReadsHolds
    <3>2. Heard(T2, D2, c2, h2, a2, x)
      BY <1>1, <1>2, <1>3, <3>1, HeardGrows
    <3> QED BY <1>3, <2>1, <3>2
  <2> QED BY <2>1
<1>7. \A b \in an2 : b.seen >= b.floor /\ b.of >= b.reign
  BY DEF ReadsHolds
<1> QED BY <1>4, <1>5, <1>6, <1>7 DEF ReadsHolds

\* What a leader sends is a request of its own, of no concern to other reads.
RequestOf(m, n, T, h, a, i) ==
    Posted(T, h, a, i, m) /\ m.type = "append" /\ m.src = n /\ m.term = T[n]

\* A request of the sender's own term bears on no read of another leader.
LEMMA RequestIsMild ==
  ASSUME NEW n, NEW T, NEW T2, NEW h, NEW a, NEW i, NEW m, RequestOf(m, n, T2, h, a, i),
         NEW q, q # n \/ T2[n] = T[n], T[n] \in Nat, NEW r
  PROVE  Mild(m, q, r, T)
<1>1. m.type = "append" /\ m.src = n /\ m.term = T2[n]
  BY DEF RequestOf
<1>2. ASSUME Outdated(m, q, T) PROVE FALSE
  <2>1. m.src = q /\ m.term < T[q]
    BY <1>1, <1>2 DEF Outdated
  <2>2. T[n] < T[n]
    BY <1>1, <2>1
  <2> QED BY <2>2
<1> QED BY <1>1, <1>2 DEF Mild

\* What a leader sends is what may be on its way.
LEMMA RequestIsPosted ==
  ASSUME MaxBatch \in Nat, NEW h, NEW a, NEW w, NEW c, NEW mt,
         Replicated(term', leads', log', c, next', mt, w, h, a),
         NEW n \in Server, NEW p \in Server, leads'[n], commit[n] \in Nat,
         Decided(h, a, log'[n], commit[n], term'[n]), now' \in Nat
  PROVE  RequestOf(Request(n, p), n, term', h, a, now')
<1> DEFINE K == log'[n]
           t == term'[n]
           x == next'[n][p] - 1
           prev == Min({x, Len(K)})
           m == Request(n, p)
<1>1. /\ Sound(term', leads', log', h, a, w) /\ K \in Log /\ t \in Nat /\ h \in [Nat -> Log]
      /\ K = h[t] /\ Holds(K, t, Len(K)) /\ term' \in [Server -> Nat]
  BY DEF Replicated, Sound, Types, Written
<1>2. next'[n][p] \in Nat \ {0}
  BY DEF Replicated
<1>3. x \in Nat
  BY <1>2
<1>4. Len(K) \in Nat
  BY <1>1, LogType
<1> HIDE DEF x, K, t
<1>5. prev \in 0..Len(K)
  <2>1. Min({x, Len(K)}) = IF x <= Len(K) THEN x ELSE Len(K)
    BY <1>3, <1>4, MinOfTwo
  <2> QED BY <1>3, <1>4, <2>1
<1> HIDE DEF prev
<1>6. m = [type |-> "append", src |-> n, dst |-> p, term |-> t, sent |-> now', prev |-> prev,
           prev_term |-> TermAt(K, prev), entries |-> Batch(K, prev, MaxBatch), commit |-> commit[n]]
  BY DEF Request, prev, x, K, t
<1> HIDE DEF m
<1>7. /\ m.type = "append" /\ m.src = n /\ m.dst = p /\ m.term = t /\ m.sent = now'
      /\ m.prev = prev /\ m.prev_term = TermAt(K, prev) /\ m.entries = Batch(K, prev, MaxBatch)
      /\ m.commit = commit[n]
  BY <1>6
<1>8. Fine(term', h, a, m) /\ (Len(K) <= MaxBatch => End(m) = Len(K))
  <2>1. /\ m.type = "append" /\ m.term = term'[n] /\ prev \in 0..Len(log'[n])
        /\ m.prev = prev /\ m.prev_term = TermAt(log'[n], prev)
        /\ m.entries = Batch(log'[n], prev, MaxBatch)
        /\ m.commit \in Nat /\ Decided(h, a, log'[n], m.commit, term'[n])
    BY <1>5, <1>7 DEF K, t
  <2> QED BY <1>1, <2>1, RequestIsFine DEF K
<1>9. Dated(term', h, now', m)
  <2>1. now' <= now' /\ t <= t
    BY <1>1
  <2>2. Len(h[t]) <= MaxBatch => Holds(h[t], t, End(m))
    BY <1>1, <1>8
  <2>3. m.term <= term'[m.src]
    BY <1>7, <2>1 DEF t
  <2> QED BY <1>7, <2>1, <2>2, <2>3 DEF Dated
<1> QED BY <1>7, <1>8, <1>9 DEF RequestOf, Posted, m, t

\* What is on its way was just sent, or was already.
LEMMA SentOrOld ==
  ASSUME NEW S, NEW taken, Send(S, taken)
  PROVE  \A m \in net' : m \in S \/ m \in net
BY DEF Send

\* A leader sends to as many peers as it likes.
LEMMA RequestsGo ==
  ASSUME MaxBatch \in Nat, NEW h, NEW a, NEW w, NEW c, NEW mt,
         Replicated(term', leads', log', c, next', mt, w, h, a),
         NEW n \in Server, leads'[n], commit[n] \in Nat,
         Decided(h, a, log'[n], commit[n], term'[n]), now' \in Nat,
         NEW Q \in SUBSET Server, NEW taken, Send({Request(n, p) : p \in Q}, taken)
  PROVE  \A m \in net' : m \in net \/ RequestOf(m, n, term', h, a, now')
<1>1. \A p \in Q : RequestOf(Request(n, p), n, term', h, a, now')
  <2> TAKE p \in Q
  <2>1. p \in Server
    OBVIOUS
  <2> QED BY <2>1, RequestIsPosted
<1>2. \A m \in {Request(n, p) : p \in Q} : RequestOf(m, n, term', h, a, now')
  BY <1>1
<1> QED BY <1>2, SentOrOld

\* An election keeps the invariant: nothing was acknowledged to the new leader yet.
LEMMA ReadsElect ==
  ASSUME IsFiniteSet(Server), MaxBatch \in Nat, NEW h, NEW a,
         ReadsHolds(term, leads, log, commit, next, match, acked, reads, net, now, writes,
                    told, answered, h, a),
         NEW n \in Server, NEW voters \in SUBSET Server, Elect(n, voters)
  PROVE  ReadsInv'
<1> DEFINE new == Max({term[m] : m \in voters}) + 1
           T2 == [m \in Server |-> IF m \in voters THEN new ELSE term[m]]
           D2 == [m \in Server |-> IF m \in voters THEN m = n ELSE leads[m]]
           L2 == [log EXCEPT ![n] = Append(@, [term |-> new, write |-> FALSE])]
           nx2 == [next EXCEPT ![n] = [p \in Server |-> Len(log[n]) + 1]]
           mt2 == [match EXCEPT ![n] = [p \in Server |-> 0]]
           ac2 == [acked EXCEPT ![n] = [p \in Server |-> Never]]
           rd2 == [m \in Server |-> IF m \in voters THEN {} ELSE reads[m]]
<1>1. n \in voters /\ IsMajority(voters) /\ FindUpToDate(voters, log, n)
  BY DEF Elect, FindUpToDate
<1>2. /\ term' = T2 /\ leads' = D2 /\ log' = L2 /\ next' = nx2 /\ match' = mt2 /\ acked' = ac2
      /\ reads' = rd2 /\ commit' = commit /\ now' = now /\ writes' = writes
      /\ told' = told /\ answered' = answered
      /\ Send({Request(n, p) : p \in Peers(n)}, {})
  BY DEF Elect, clients
<1>3. /\ Replicated(term, leads, log, commit, next, match, writes, h, a)
      /\ now \in Nat /\ told \in Nat
      /\ acked \in [Server -> [Server -> Nat]] /\ \A q, p \in Server : acked[q][p] <= now
      /\ reads \in [Server -> SUBSET Asked]
      /\ term \in [Server -> Nat] /\ commit \in [Server -> Nat] /\ log \in [Server -> Log]
  BY DEF ReadsHolds, Replicated, Sound, Types
<1>4. /\ Elects(term, leads, log, next, match, n, voters, new, T2, D2, L2, nx2, mt2)
      /\ D2[n]
  BY <1>1 DEF Elects
<1>5. /\ ac2 \in [Server -> [Server -> Nat]] /\ \A q, p \in Server : ac2[q][p] <= now
      /\ \A q \in Server : q # n => ac2[q] = acked[q]
  BY <1>3 DEF Never
<1>6. rd2 \in [Server -> SUBSET Asked] /\ \A q \in Server : rd2[q] # {} => q \notin voters /\ rd2[q] = reads[q]
  BY <1>3
<1>7. \A q \in Server : /\ q \in voters => T2[q] = new /\ (D2[q] => q = n)
                        /\ q \notin voters => T2[q] = term[q] /\ D2[q] = leads[q]
  OBVIOUS
<1>8. \A q \in Server : q # n => L2[q] = log[q] /\ mt2[q] = match[q]
  BY <1>3 DEF Replicated
<1> HIDE DEF T2, D2, L2, nx2, mt2, ac2, rd2, new
<1>9. /\ new \in Nat /\ Len(h[new]) = 0 /\ \A q \in Server : term[q] < new
      /\ \E h2, a2 : /\ Replicated(T2, D2, L2, commit, nx2, mt2, writes, h2, a2)
                     /\ Advances(term, h, a, T2, h2, a2)
  BY <1>1, <1>3, <1>4, ReplicatedElects
<1>10. PICK h2, a2 : /\ Replicated(term', leads', log', commit', next', match', writes', h2, a2)
                     /\ Advances(term, h, a, term', h2, a2)
  BY <1>2, <1>9
<1>11. Decided(h2, a2, log'[n], commit[n], term'[n]) /\ leads'[n] /\ commit[n] \in Nat /\ now' \in Nat
  BY <1>2, <1>3, <1>4, <1>10 DEF Replicated
<1>12. \A m \in net' : m \in net \/ RequestOf(m, n, term', h2, a2, now')
  <2>1. Peers(n) \in SUBSET Server
    BY DEF Peers
  <2> QED BY <1>2, <1>10, <1>11, <2>1, RequestsGo
<1>13. \A m \in net' : m \in net \/ Posted(term', h2, a2, now', m)
  BY <1>12 DEF RequestOf
<1>14. LeadersGoOn(term, leads, commit, h, term', leads', commit')
  <2> SUFFICES ASSUME NEW q \in Server, leads'[q]
               PROVE  \/ leads[q] /\ term'[q] = term[q] /\ commit'[q] >= commit[q]
                      \/ Len(h[term'[q]]) = 0
    BY DEF LeadersGoOn
  <2>1. commit'[q] \in Nat /\ commit'[q] = commit[q]
    BY <1>2, <1>3
  <2>2. commit'[q] >= commit[q]
    BY <2>1
  <2> QED BY <1>2, <1>7, <1>9, <2>2
<1>15. ASSUME NEW q \in Server, NEW r \in reads'[q]
       PROVE  r \in reads[q] /\ Undisturbed(q, r, term, log, match, acked, net,
                                            term', leads', log', match', acked', net')
  <2>1. q \notin voters /\ r \in reads[q] /\ q # n
    BY <1>1, <1>2, <1>6, <1>15
  <2>2. leads[q]
    BY <2>1 DEF ReadsHolds, Waits
  <2>3. term'[q] = term[q] /\ leads'[q] /\ match'[q] = match[q] /\ acked'[q] = acked[q] /\ log'[q] = log[q]
    BY <1>2, <1>5, <1>7, <1>8, <2>1, <2>2
  <2>4. PrefixOf(log[q], log'[q])
    BY <1>3, <2>3, PrefixReflexive
  <2>5. \A m \in net' : m \in net \/ Mild(m, q, r, term)
    <3>1. term[n] \in Nat
      BY <1>3
    <3> QED BY <1>12, <2>1, <3>1, RequestIsMild
  <2> QED BY <2>1, <2>3, <2>4, <2>5 DEF Undisturbed
<1>16. ReadsHolds(term', leads', log', commit', next', match', acked', reads', net', now', writes',
                  told', answered', h2, a2)
  <2>1. now' \in Nat /\ now <= now'
    BY <1>2, <1>3
  <2> QED BY <1>2, <1>5, <1>6, <1>10, <1>13, <1>14, <1>15, <2>1, ReadsGoOn
<1> QED BY <1>16 DEF ReadsInv

\* If nobody comes to lead, those who lead go on.
LEMMA LeadersStay ==
  ASSUME NEW T, NEW D, NEW c \in [Server -> Nat], NEW h, NEW T2, NEW D2, NEW c2 \in [Server -> Nat],
         \A q \in Server : D2[q] => D[q] /\ T2[q] = T[q], \A q \in Server : c2[q] >= c[q]
  PROVE  LeadersGoOn(T, D, c, h, T2, D2, c2)
BY DEF LeadersGoOn

\* A leader that appends a client's command keeps the invariant.
LEMMA ReadsWrite ==
  ASSUME IsFiniteSet(Server), MaxBatch \in Nat, NEW h, NEW a,
         ReadsHolds(term, leads, log, commit, next, match, acked, reads, net, now, writes,
                    told, answered, h, a),
         NEW n \in Server, Write(n)
  PROVE  ReadsInv'
<1> DEFINE L2 == [log EXCEPT ![n] = Append(@, [term |-> term[n], write |-> TRUE])]
<1>1. leads[n]
  BY DEF Write
<1>2. /\ term' = term /\ leads' = leads /\ log' = L2 /\ next' = next /\ match' = match
      /\ acked' = acked /\ reads' = reads /\ commit' = commit /\ now' = now /\ writes' = writes + 1
      /\ told' = told /\ answered' = answered
      /\ Send({Request(n, p) : p \in Peers(n)}, {})
  BY DEF Write, leading
<1>3. /\ Replicated(term, leads, log, commit, next, match, writes, h, a)
      /\ now \in Nat /\ told \in Nat
      /\ acked \in [Server -> [Server -> Nat]] /\ \A q, p \in Server : acked[q][p] <= now
      /\ reads \in [Server -> SUBSET Asked]
      /\ term \in [Server -> Nat] /\ commit \in [Server -> Nat] /\ log \in [Server -> Log]
  BY DEF ReadsHolds, Replicated, Sound, Types
<1>4. term[n] \in Nat \ {0}
  <2> DEFINE M == h[term[n]]
             t == term[n]
  <2>1. M \in Log /\ Holds(M, t, Len(M)) /\ t \in Nat
    BY <1>1, <1>3 DEF Replicated, Sound, Types, Written
  <2> HIDE DEF M, t
  <2>2. t \in Nat \ {0}
    BY <2>1, LogType DEF Holds
  <2> QED BY <2>2 DEF t
<1>5. \A q \in Server : PrefixOf(log[q], L2[q])
  <2> TAKE q \in Server
  <2>1. CASE q # n
    <3>1. L2[q] = log[q] /\ log[q] \in Log
      BY <1>3, <2>1
    <3> HIDE DEF L2
    <3> QED BY <3>1, PrefixReflexive
  <2>2. CASE q = n
    <3> DEFINE e == [term |-> term[n], write |-> TRUE]
               K == log[n]
    <3>1. e \in Entry /\ K \in Log /\ L2[n] = Append(K, e)
      BY <1>3, <1>4 DEF Entry
    <3> HIDE DEF e, K, L2
    <3>2. Append(K, e) \in Log /\ Extended(K, Append(K, e), e.term)
      BY <3>1, AppendExtends
    <3>3. e.term \in Nat
      BY <3>1 DEF Entry
    <3> DEFINE M == Append(K, e)
               u == e.term
    <3> HIDE DEF M, u
    <3>4. M \in Log /\ Extended(K, M, u) /\ u \in Nat
      BY <3>2, <3>3 DEF M, u
    <3>5. PrefixOf(K, M)
      BY <3>1, <3>4, ExtendedHolds
    <3> QED BY <2>2, <3>1, <3>5 DEF K, M
  <2> QED BY <2>1, <2>2
<1>6. \E h2, a2 : /\ Replicated(term, leads, L2, commit, next, match, writes + 1, h2, a2)
                  /\ Advances(term, h, a, term, h2, a2)
  BY <1>1, <1>3, ReplicatedProposes
<1> HIDE DEF L2
<1>7. PICK h2, a2 : /\ Replicated(term', leads', log', commit', next', match', writes', h2, a2)
                    /\ Advances(term, h, a, term', h2, a2)
  BY <1>2, <1>6
<1>8. Decided(h2, a2, log'[n], commit[n], term'[n]) /\ leads'[n] /\ commit[n] \in Nat /\ now' \in Nat
  BY <1>1, <1>2, <1>3, <1>7 DEF Replicated
<1>9. \A m \in net' : m \in net \/ RequestOf(m, n, term', h2, a2, now')
  <2>1. Peers(n) \in SUBSET Server
    BY DEF Peers
  <2> QED BY <1>2, <1>7, <1>8, <2>1, RequestsGo
<1>10. \A m \in net' : m \in net \/ Posted(term', h2, a2, now', m)
  BY <1>9 DEF RequestOf
<1>11. LeadersGoOn(term, leads, commit, h, term', leads', commit')
  <2>1. \A q \in Server : commit'[q] >= commit[q]
    <3> TAKE q \in Server
    <3>1. commit[q] \in Nat /\ commit'[q] = commit[q]
      BY <1>2, <1>3
    <3> QED BY <3>1
  <2> QED BY <1>2, <1>3, <2>1, LeadersStay
<1>12. ASSUME NEW q \in Server, NEW r \in reads'[q]
       PROVE  r \in reads[q] /\ Undisturbed(q, r, term, log, match, acked, net,
                                            term', leads', log', match', acked', net')
  <2>1. r \in reads[q] /\ leads[q]
    BY <1>2 DEF ReadsHolds, Waits
  <2>2. \A m \in net' : m \in net \/ Mild(m, q, r, term)
    BY <1>2, <1>4, <1>9, RequestIsMild
  <2> QED BY <1>2, <1>5, <2>1, <2>2 DEF Undisturbed
<1>13. ReadsHolds(term', leads', log', commit', next', match', acked', reads', net', now', writes',
                  told', answered', h2, a2)
  <2>1. now' \in Nat /\ now <= now'
    BY <1>2, <1>3
  <2> QED BY <1>2, <1>3, <1>7, <1>10, <1>11, <1>12, <2>1, ReadsGoOn
<1> QED BY <1>13 DEF ReadsInv

\* A heartbeat, and a read that starts with one (_handle_read), keep the invariant.
LEMMA ReadsBeat ==
  ASSUME IsFiniteSet(Server), MaxBatch \in Nat, NEW h, NEW a,
         ReadsHolds(term, leads, log, commit, next, match, acked, reads, net, now, writes,
                    told, answered, h, a),
         NEW n \in Server, Heartbeat(n) \/ Read(n)
  PROVE  ReadsInv'
<1> DEFINE new == [at |-> now + 1, index |-> commit[n], floor |-> told,
                   reign |-> Max({term[m] : m \in Server})]
<1>1. leads[n]
  BY DEF Heartbeat, Read
<1>2. /\ term' = term /\ leads' = leads /\ log' = log /\ next' = next /\ match' = match
      /\ acked' = acked /\ commit' = commit /\ writes' = writes
      /\ told' = told /\ answered' = answered
      /\ Send({Request(n, p) : p \in Peers(n)}, {})
      /\ \/ reads' = reads /\ now' = now
         \/ reads' = [reads EXCEPT ![n] = @ \cup {new}] /\ now' = now + 1
  BY DEF Heartbeat, Read, nodes, leading, clients
<1>3. /\ Replicated(term, leads, log, commit, next, match, writes, h, a)
      /\ now \in Nat /\ told \in Nat
      /\ acked \in [Server -> [Server -> Nat]] /\ \A q, p \in Server : acked[q][p] <= now
      /\ reads \in [Server -> SUBSET Asked]
      /\ term \in [Server -> Nat] /\ commit \in [Server -> Nat] /\ log \in [Server -> Log]
  BY DEF ReadsHolds, Replicated, Sound, Types
<1>4. now' \in Nat /\ now <= now'
  BY <1>2, <1>3
<1>5. /\ Replicated(term', leads', log', commit', next', match', writes', h, a)
      /\ Advances(term, h, a, term', h, a)
  BY <1>2, <1>3, Same
<1>6. Decided(h, a, log'[n], commit[n], term'[n]) /\ leads'[n] /\ commit[n] \in Nat
  BY <1>1, <1>2, <1>3, <1>5 DEF Replicated
<1>7. \A m \in net' : m \in net \/ RequestOf(m, n, term', h, a, now')
  <2>1. Peers(n) \in SUBSET Server
    BY DEF Peers
  <2> QED BY <1>2, <1>4, <1>5, <1>6, <2>1, RequestsGo
<1>8. \A m \in net' : m \in net \/ Posted(term', h, a, now', m)
  BY <1>7 DEF RequestOf
<1>9. LeadersGoOn(term, leads, commit, h, term', leads', commit')
  <2>1. \A q \in Server : commit'[q] >= commit[q]
    <3> TAKE q \in Server
    <3>1. commit[q] \in Nat /\ commit'[q] = commit[q]
      BY <1>2, <1>3
    <3> QED BY <3>1
  <2> QED BY <1>2, <1>3, <2>1, LeadersStay
<1>10. ASSUME NEW q \in Server, NEW r \in reads[q]
       PROVE  Undisturbed(q, r, term, log, match, acked, net,
                          term', leads', log', match', acked', net')
  <2>1. leads[q]
    BY DEF ReadsHolds, Waits
  <2>2. \A m \in net' : m \in net \/ Mild(m, q, r, term)
    <3>1. term[n] \in Nat /\ term'[n] = term[n]
      BY <1>2, <1>3
    <3> QED BY <1>7, <3>1, RequestIsMild
  <2>3. PrefixOf(log[q], log'[q])
    BY <1>2, <1>3, PrefixReflexive
  <2> QED BY <1>2, <2>1, <2>2, <2>3 DEF Undisturbed
<1>11. ASSUME now' = now + 1
       PROVE  Waits(n, new, term', leads', log', match', acked', net', now', h, a)
  <2>1. \A m \in net' : \/ m.sent \in Nat /\ m.sent <= now
                        \/ m.type = "append" /\ (m.src = n => m.term = term[n])
    <3> TAKE m \in net'
    <3>1. CASE m \in net
      BY <3>1 DEF ReadsHolds, Posted, Dated
    <3>2. CASE RequestOf(m, n, term', h, a, now')
      BY <1>2, <3>2 DEF RequestOf
    <3> QED BY <1>7, <3>1, <3>2
  <2>2. Heard(term, leads, commit, h, a, told)
    BY DEF ReadsHolds
  <2>3. acked[n] \in [Server -> Nat] /\ \A p \in Server : acked[n][p] <= now
    BY <1>3
  <2>4. new = [at |-> now + 1, index |-> commit[n], floor |-> told,
               reign |-> Max({term[m] : m \in Server})]
    OBVIOUS
  <2> HIDE DEF new
  <2>5. Waits(n, new, term, leads, log, match, acked, net', now + 1, h, a)
    BY <1>1, <1>3, <2>1, <2>2, <2>3, <2>4, ReadWaits
  <2> QED BY <1>2, <1>11, <2>5
<1> HIDE DEF new
<1>12. reads' \in [Server -> SUBSET Asked] /\ \A q \in Server : \A r \in reads'[q] :
          r \in reads[q] \/ (q = n /\ r = new /\ now' = now + 1)
  <2>1. CASE reads' = reads
    BY <1>3, <2>1
  <2>2. CASE reads' = [reads EXCEPT ![n] = @ \cup {new}] /\ now' = now + 1
    <3>1. new \in Asked
      BY <1>11, <2>2 DEF Waits
    <3> QED BY <1>3, <2>2, <3>1
  <2> QED BY <1>2, <2>1, <2>2
<1>13. ASSUME NEW q \in Server, NEW r \in reads'[q]
       PROVE  \/ Waits(q, r, term', leads', log', match', acked', net', now', h, a)
              \/ r \in reads[q] /\ Undisturbed(q, r, term, log, match, acked, net,
                                               term', leads', log', match', acked', net')
  BY <1>10, <1>11, <1>12
<1>14. acked' \in [Server -> [Server -> Nat]] /\ \A q, p \in Server : acked'[q][p] <= now'
  <2>1. ASSUME NEW q \in Server, NEW p \in Server PROVE acked'[q][p] <= now'
    <3>1. acked[q][p] \in Nat /\ acked[q][p] <= now /\ acked'[q][p] = acked[q][p]
      BY <1>2, <1>3
    <3> QED BY <1>3, <1>4, <3>1
  <2> QED BY <1>2, <1>3, <2>1
<1>15. ReadsHolds(term', leads', log', commit', next', match', acked', reads', net', now', writes',
                  told', answered', h, a)
  BY <1>2, <1>4, <1>5, <1>8, <1>9, <1>12, <1>13, <1>14, ReadsGoOn
<1> QED BY <1>15 DEF ReadsInv

\* A request reaches as far as what it calls committed, and up to an entry of its term.
LastTermOf(m) == IF m.entries = <<>> THEN m.prev_term ELSE m.entries[Len(m.entries)].term
Reaches(m) == m.commit <= End(m) /\ LastTermOf(m) = m.term

\* Every request does.
RequestsReach == \A m \in net : m.type = "append" => Reaches(m)

\* The last entry of such a request is one of its leader's own term.
LEMMA ReachesItsTerm ==
  ASSUME NEW T, NEW D, NEW L, NEW h, NEW a, NEW w, Sound(T, D, L, h, a, w),
         NEW m, m.type = "append", Fine(T, h, a, m), Reaches(m)
  PROVE  Holds(h[m.term], m.term, End(m))
<1> DEFINE t == m.term
           K == h[t]
           B == m.entries
           i == m.prev
<1>1. t \in Nat /\ K \in Log /\ Len(K) > 0 /\ Holds(K, t, Len(K)) /\ B \in Log /\ i \in Nat
  BY DEF Fine, Sound, Types, Written
<1>2. /\ i + Len(B) <= Len(K) /\ m.prev_term = TermAt(K, i)
      /\ \A k \in 1..Len(B) : B[k] = K[i + k]
  BY DEF Fine, Slice
<1>3. t = IF B = <<>> THEN m.prev_term ELSE B[Len(B)].term
  BY DEF Reaches, LastTermOf
<1>4. End(m) = i + Len(B)
  BY DEF End
<1> HIDE DEF t, K, B, i
<1>5. Len(K) \in Nat /\ Len(B) \in Nat
  BY <1>1, LogType
<1>6. t # 0
  BY <1>1, <1>5, LogType DEF Holds
<1>7. CASE B = <<>>
  <2>1. i # 0 /\ K[i].term = t /\ Len(B) = 0
    BY <1>2, <1>3, <1>6, <1>7 DEF TermAt
  <2>2. End(m) \in 1..Len(K) /\ End(m) = i
    BY <1>1, <1>2, <1>4, <1>5, <2>1
  <2> QED BY <2>1, <2>2 DEF Holds, K, t
<1>8. CASE B # <<>>
  <2>1. Len(B) \in 1..Len(B)
    <3>1. Len(B) # 0
      BY <1>1, <1>8 DEF Log
    <3> QED BY <1>5, <3>1
  <2>2. K[i + Len(B)].term = t
    BY <1>2, <1>3, <1>8, <2>1
  <2>3. i + Len(B) \in 1..Len(K)
    BY <1>1, <1>2, <1>5, <2>1
  <2> QED BY <1>4, <2>2, <2>3 DEF Holds, K, t
<1> QED BY <1>7, <1>8

\* The answer to a request.
Answer(m, t, success, index) ==
    [type |-> "reply", src |-> m.dst, dst |-> m.src, term |-> t,
     success |-> success, match |-> index, sent |-> m.sent]

\* An answer bears on a read only if its request did.
LEMMA AnswerIsMild ==
  ASSUME NEW T \in [Server -> Nat], NEW h, NEW i, NEW m, m.type = "append", Dated(T, h, i, m),
         m.term \in Nat, NEW t, NEW success, NEW index,
         success => T[m.dst] <= m.term /\ t = m.term,
         NEW q \in Server, NEW r, Outdated(m, q, T) => m.sent < r.at
  PROVE  Mild(Answer(m, t, success, index), q, r, T)
<1> DEFINE o == Answer(m, t, success, index)
<1>1. /\ o.type = "reply" /\ o.src = m.dst /\ o.dst = m.src /\ o.term = t /\ o.success = success
      /\ o.sent = m.sent
  BY DEF Answer
<1> HIDE DEF o
<1>2. m.src \in Server /\ m.dst \in Server /\ m.term <= T[m.src]
  BY DEF Dated
<1>3. Outdated(o, q, T) => Outdated(m, q, T)
  BY <1>1 DEF Outdated
<1>4. o.success /\ o.dst = q => T[o.src] <= T[q]
  <2> SUFFICES ASSUME o.success, o.dst = q PROVE T[o.src] <= T[q]
    OBVIOUS
  <2>1. T[m.dst] <= m.term /\ m.term <= T[q]
    BY <1>1, <1>2
  <2>2. T[m.dst] \in Nat /\ T[q] \in Nat
    BY <1>2
  <2>3. T[m.dst] <= T[q]
    BY <2>1, <2>2
  <2> QED BY <1>1, <2>3
<1> QED BY <1>1, <1>3, <1>4 DEF Mild, o

\* An answer that tells of what its sender acknowledged may be on its way.
LEMMA AnswerIsPosted ==
  ASSUME NEW T, NEW h, NEW a, NEW i, NEW m, m.src \in Server, m.dst \in Server,
         m.sent \in Nat, m.sent <= i, NEW t \in Nat, Known(T, h, t),
         NEW success \in BOOLEAN, NEW index \in Nat,
         success => a[m.dst][t] >= index /\ Holds(h[t], t, index)
  PROVE  Posted(T, h, a, i, Answer(m, t, success, index))
<1> DEFINE o == Answer(m, t, success, index)
<1>1. /\ o.type = "reply" /\ o.src = m.dst /\ o.dst = m.src /\ o.term = t /\ o.success = success
      /\ o.match = index /\ o.sent = m.sent
  BY DEF Answer
<1> HIDE DEF o
<1>2. Fine(T, h, a, o)
  BY <1>1 DEF Fine
<1>3. Dated(T, h, i, o)
  BY <1>1 DEF Dated
<1> QED BY <1>2, <1>3 DEF Posted, o

\* A follower answers.
LEMMA ReadsAppend ==
  ASSUME IsFiniteSet(Server), MaxBatch \in Nat, NEW h, NEW a,
         ReadsHolds(term, leads, log, commit, next, match, acked, reads, net, now, writes,
                    told, answered, h, a),
         NEW m \in net, m.type = "append" => Reaches(m), HandleAppend(m)
  PROVE  ReadsInv'
<1> DEFINE n == m.dst
           lg == AppendNewEntries(log[n], m.prev, m.entries)
<1>1. /\ Replicated(term, leads, log, commit, next, match, writes, h, a)
      /\ Sound(term, leads, log, h, a, writes)
      /\ now \in Nat /\ told \in Nat
      /\ acked \in [Server -> [Server -> Nat]] /\ \A q, p \in Server : acked[q][p] <= now
      /\ reads \in [Server -> SUBSET Asked] /\ leads \in [Server -> BOOLEAN]
      /\ term \in [Server -> Nat] /\ commit \in [Server -> Nat] /\ log \in [Server -> Log]
      /\ Fine(term, h, a, m) /\ Dated(term, h, now, m)
  BY DEF ReadsHolds, Replicated, Sound, Types, Posted
<1>2. /\ m.type = "append" /\ m.term \in Nat /\ m.src \in Server /\ n \in Server
      /\ m.sent \in Nat /\ m.sent <= now
  BY <1>1 DEF HandleAppend, Fine, Dated
<1>3. /\ next' = next /\ match' = match /\ acked' = acked /\ now' = now /\ writes' = writes
      /\ told' = told /\ answered' = answered
  BY DEF HandleAppend, leading, clients
<1>4. \A success, index : Reply(m, success, index) => Send({Answer(m, term'[n], success, index)}, {m})
  BY DEF Reply, Answer
<1>6. \/ /\ term' = term /\ leads' = leads /\ log' = log /\ commit' = commit /\ reads' = reads
         /\ Send({Answer(m, term'[n], FALSE, 0)}, {m})
      \/ /\ m.term >= term[n]
         /\ term' = [term EXCEPT ![n] = m.term] /\ leads' = [leads EXCEPT ![n] = FALSE]
         /\ reads' = [reads EXCEPT ![n] = {}]
         /\ log' = log /\ commit' = commit
         /\ Send({Answer(m, term'[n], FALSE, 0)}, {m})
      \/ /\ m.term >= term[n]
         /\ term' = [term EXCEPT ![n] = m.term] /\ leads' = [leads EXCEPT ![n] = FALSE]
         /\ reads' = [reads EXCEPT ![n] = {}]
         /\ HasEntry(log[n], m.prev, m.prev_term)
         /\ log' = [log EXCEPT ![n] = lg]
         /\ commit' = [commit EXCEPT ![n] = Max({@, Min({m.commit, Len(lg)})})]
         /\ Send({Answer(m, term'[n], TRUE, End(m))}, {m})
  BY <1>4 DEF HandleAppend, Follow, nodes, End
<1> HIDE DEF lg
<1>7. ASSUME NEW a2, NEW success \in BOOLEAN, NEW index \in Nat,
             Replicated(term', leads', log', commit', next', match', writes', h, a2),
             Advances(term, h, a, term', h, a2),
             success => /\ a2[n][term'[n]] >= index /\ Holds(h[term'[n]], term'[n], index)
                        /\ term[n] <= m.term /\ term'[n] = m.term,
             Send({Answer(m, term'[n], success, index)}, {m}),
             reads' \in [Server -> SUBSET Asked],
             \A q \in Server : reads'[q] # {} =>
                reads'[q] = reads[q] /\ leads'[q] = leads[q] /\ term'[q] = term[q] /\ log'[q] = log[q],
             \A q \in Server : leads'[q] =>
                leads[q] /\ term'[q] = term[q] /\ commit'[q] = commit[q]
      PROVE  ReadsInv'
  <2>1. term' \in [Server -> Nat] /\ term'[n] \in Nat
    BY <1>2, <1>7 DEF Replicated, Sound, Types
  <2>2. Known(term', h, term'[n])
    <3>1. term'[n] <= term'[n]
      BY <2>1
    <3> QED BY <1>2, <3>1 DEF Known
  <2> DEFINE o == Answer(m, term'[n], success, index)
  <2>3. Posted(term', h, a2, now, o)
    BY <1>2, <1>7, <2>1, <2>2, AnswerIsPosted
  <2>4. \A x \in net' : x \in net \/ x = o
    BY <1>7, SentOrOld
  <2>5. LeadersGoOn(term, leads, commit, h, term', leads', commit')
    <3>1. \A q \in Server : leads'[q] => commit'[q] >= commit[q]
      <4> SUFFICES ASSUME NEW q \in Server, leads'[q] PROVE commit'[q] >= commit[q]
        OBVIOUS
      <4>1. commit[q] \in Nat /\ commit'[q] = commit[q]
        BY <1>1, <1>7
      <4> QED BY <4>1
    <3> QED BY <1>7, <3>1 DEF LeadersGoOn
  <2>6. ASSUME NEW q \in Server, NEW r \in reads'[q]
        PROVE  r \in reads[q] /\ Undisturbed(q, r, term, log, match, acked, net,
                                             term', leads', log', match', acked', net')
    <3>1. /\ reads'[q] = reads[q] /\ leads'[q] = leads[q] /\ term'[q] = term[q] /\ log'[q] = log[q]
          /\ r \in reads[q]
      BY <1>7, <2>6
    <3>2. leads[q] /\ (Outdated(m, q, term) => m.sent < r.at)
      BY <3>1 DEF ReadsHolds, Waits
    <3>3. Mild(o, q, r, term)
      BY <1>1, <1>2, <1>7, <3>2, AnswerIsMild
    <3>4. \A x \in net' : x \in net \/ Mild(x, q, r, term)
      BY <2>4, <3>3
    <3>5. PrefixOf(log[q], log'[q])
      BY <1>1, <3>1, PrefixReflexive
    <3> QED BY <1>3, <3>1, <3>2, <3>4, <3>5 DEF Undisturbed
  <2>7. \A x \in net' : x \in net \/ Posted(term', h, a2, now', x)
    BY <1>3, <2>3, <2>4
  <2>8. now' \in Nat /\ now <= now'
    BY <1>1, <1>3
  <2>9. acked' \in [Server -> [Server -> Nat]] /\ \A q, p \in Server : acked'[q][p] <= now'
    BY <1>1, <1>3
  <2>10. told' = told /\ answered' = answered
    BY <1>3
  <2> HIDE DEF o
  <2>11. ReadsHolds(term', leads', log', commit', next', match', acked', reads', net', now', writes',
                    told', answered', h, a2)
    BY <1>7, <2>5, <2>6, <2>7, <2>8, <2>9, <2>10, ReadsGoOn
  <2> QED BY <2>11 DEF ReadsInv
<1>8. CASE /\ term' = term /\ leads' = leads /\ log' = log /\ commit' = commit /\ reads' = reads
           /\ Send({Answer(m, term'[n], FALSE, 0)}, {m})
  <2>1. Replicated(term', leads', log', commit', next', match', writes', h, a)
    BY <1>1, <1>3, <1>8
  <2>2. Advances(term, h, a, term', h, a)
    BY <1>1, <1>8, Same
  <2>3. reads' \in [Server -> SUBSET Asked]
    BY <1>1, <1>8
  <2> QED BY <1>7, <1>8, <2>1, <2>2, <2>3
<1>9. ASSUME term' = [term EXCEPT ![n] = m.term], leads' = [leads EXCEPT ![n] = FALSE],
             reads' = [reads EXCEPT ![n] = {}], \A q \in Server : q # n => log'[q] = log[q],
             \A q \in Server : q # n => commit'[q] = commit[q]
      PROVE  /\ term'[n] = m.term /\ reads' \in [Server -> SUBSET Asked]
             /\ \A q \in Server : reads'[q] # {} =>
                   reads'[q] = reads[q] /\ leads'[q] = leads[q] /\ term'[q] = term[q] /\ log'[q] = log[q]
             /\ \A q \in Server : leads'[q] =>
                   leads[q] /\ term'[q] = term[q] /\ commit'[q] = commit[q]
  <2>1. term'[n] = m.term /\ ~ leads'[n] /\ reads'[n] = {} /\ reads' \in [Server -> SUBSET Asked]
    BY <1>1, <1>2, <1>9
  <2>2. \A q \in Server : q # n =>
           reads'[q] = reads[q] /\ leads'[q] = leads[q] /\ term'[q] = term[q]
    BY <1>1, <1>9
  <2> QED BY <1>9, <2>1, <2>2
<1>10. CASE /\ m.term >= term[n]
            /\ term' = [term EXCEPT ![n] = m.term] /\ leads' = [leads EXCEPT ![n] = FALSE]
            /\ reads' = [reads EXCEPT ![n] = {}]
            /\ log' = log /\ commit' = commit
            /\ Send({Answer(m, term'[n], FALSE, 0)}, {m})
  <2>1. Known(term, h, m.term)
    BY <1>1, TermIsKnown
  <2>2. term[n] <= m.term
    BY <1>1, <1>2, <1>10
  <2>3. /\ Replicated([term EXCEPT ![n] = m.term], [leads EXCEPT ![n] = FALSE], log, commit, next, match,
                      writes, h, a)
        /\ Advances(term, h, a, [term EXCEPT ![n] = m.term], h, a)
    BY <1>1, <1>2, <2>1, <2>2, ReplicatedFollows
  <2>4. /\ Replicated(term', leads', log', commit', next', match', writes', h, a)
        /\ Advances(term, h, a, term', h, a)
    BY <1>3, <1>10, <2>3
  <2>5. /\ reads' \in [Server -> SUBSET Asked]
        /\ \A q \in Server : reads'[q] # {} =>
              reads'[q] = reads[q] /\ leads'[q] = leads[q] /\ term'[q] = term[q] /\ log'[q] = log[q]
        /\ \A q \in Server : leads'[q] =>
              leads[q] /\ term'[q] = term[q] /\ commit'[q] = commit[q]
    BY <1>9, <1>10
  <2> QED BY <1>7, <1>10, <2>4, <2>5
<1>11. CASE /\ m.term >= term[n]
            /\ term' = [term EXCEPT ![n] = m.term] /\ leads' = [leads EXCEPT ![n] = FALSE]
            /\ reads' = [reads EXCEPT ![n] = {}]
            /\ HasEntry(log[n], m.prev, m.prev_term)
            /\ log' = [log EXCEPT ![n] = lg]
            /\ commit' = [commit EXCEPT ![n] = Max({@, Min({m.commit, Len(lg)})})]
            /\ Send({Answer(m, term'[n], TRUE, End(m))}, {m})
  <2> DEFINE a2 == Acks(a, n, m.term, End(m))
             T2 == [term EXCEPT ![n] = m.term]
  <2>1. term[n] <= m.term
    BY <1>1, <1>2, <1>11
  <2>2. Reaches(m) /\ m.commit <= End(m)
    BY <1>2 DEF Reaches
  <2>3. /\ Replicated(T2, [leads EXCEPT ![n] = FALSE], [log EXCEPT ![n] = Merged(log[n], m)],
                      [commit EXCEPT ![n] = Max({@, Min({m.commit, Len(Merged(log[n], m))})})],
                      next, match, writes, h, a2)
        /\ Advances(term, h, a, T2, h, a2)
        /\ End(m) \in Nat /\ a2[n][m.term] >= End(m)
    BY <1>1, <1>2, <1>11, <2>1, <2>2, ReplicatedAccepts
  <2> HIDE DEF a2
  <2>4. Merged(log[n], m) = lg
    BY DEF Merged, lg
  <2>5. /\ \A q \in Server : q # n => log'[q] = log[q]
        /\ \A q \in Server : q # n => commit'[q] = commit[q]
    BY <1>1, <1>11
  <2>6. /\ term'[n] = m.term /\ reads' \in [Server -> SUBSET Asked]
        /\ \A q \in Server : reads'[q] # {} =>
              reads'[q] = reads[q] /\ leads'[q] = leads[q] /\ term'[q] = term[q] /\ log'[q] = log[q]
        /\ \A q \in Server : leads'[q] =>
              leads[q] /\ term'[q] = term[q] /\ commit'[q] = commit[q]
    BY <1>9, <1>11, <2>5
  <2>7. /\ Replicated(term', leads', log', commit', next', match', writes', h, a2)
        /\ Advances(term, h, a, term', h, a2)
    BY <1>3, <1>11, <2>3, <2>4
  <2>8. Holds(h[m.term], m.term, End(m))
    BY <1>1, <1>2, <2>2, ReachesItsTerm
  <2>9. /\ a2[n][term'[n]] >= End(m) /\ Holds(h[term'[n]], term'[n], End(m))
        /\ term[n] <= m.term /\ term'[n] = m.term
    BY <2>1, <2>3, <2>6, <2>8
  <2>10. End(m) \in Nat
    BY <2>3
  <2> QED BY <1>7, <1>11, <2>6, <2>7, <2>9, <2>10
<1> QED BY <1>6, <1>8, <1>10, <1>11

\* A leader learns of a success, and answers the reads that it may.
LEMMA ReadsSucceed ==
  ASSUME IsFiniteSet(Server), MaxBatch \in Nat, NEW h, NEW a,
         ReadsHolds(term, leads, log, commit, next, match, acked, reads, net, now, writes,
                    told, answered, h, a),
         NEW m \in net, m.type = "reply", HandleSuccess(m)
  PROVE  ReadsInv'
<1> DEFINE n == m.dst
           own == m.term = term[n]
           mt == Matched(term, match, n, m)
           nx == IF own THEN [next[n] EXCEPT ![m.src] = mt[m.src] + 1] ELSE next[n]
           ac == AckedAt(n, m)
           c2 == Counted(log[n], term[n], commit[n], n, mt)
           ready == {r \in reads[n] : Confirmed(n, ac, r.at) /\ c2 >= r.index}
           seen == LastWrite(log[n], c2)
           Q == {q \in {m.src} : nx[q] <= Len(log[n])}
<1>1. /\ Replicated(term, leads, log, commit, next, match, writes, h, a)
      /\ Sound(term, leads, log, h, a, writes)
      /\ now \in Nat /\ told \in Nat
      /\ acked \in [Server -> [Server -> Nat]] /\ \A q, p \in Server : acked[q][p] <= now
      /\ reads \in [Server -> SUBSET Asked] /\ leads \in [Server -> BOOLEAN]
      /\ term \in [Server -> Nat] /\ commit \in [Server -> Nat] /\ log \in [Server -> Log]
      /\ next \in [Server -> [Server -> Nat \ {0}]] /\ match \in [Server -> [Server -> Nat]]
      /\ Fine(term, h, a, m) /\ Dated(term, h, now, m)
  BY DEF ReadsHolds, Replicated, Sound, Types, Posted
<1>2. /\ m.success /\ leads[n] /\ m.term <= term[n] /\ m.src \in Server /\ n \in Server
      /\ m.sent \in Nat /\ m.sent <= now
  BY <1>1, SMTT(30) DEF HandleSuccess, Dated
<1>3. /\ term' = term /\ leads' = leads /\ log' = log /\ now' = now /\ writes' = writes
      /\ match' = [match EXCEPT ![n] = mt] /\ next' = [next EXCEPT ![n] = nx]
      /\ acked' = [acked EXCEPT ![n] = ac]
      /\ ApplyAndServe(n, c2, ac)
      /\ Send({Request(n, p) : p \in Q}, {m})
  BY DEF HandleSuccess, CommitIndex, Counted, Matched
<1>4. /\ commit' = [commit EXCEPT ![n] = c2] /\ reads' = [reads EXCEPT ![n] = @ \ ready]
      /\ answered' = answered \cup
            {[floor |-> r.floor, seen |-> seen, reign |-> r.reign, of |-> term[n]] : r \in ready}
      /\ \E B \in BOOLEAN : told' = Max({told} \cup {i \in 1..seen : B})
  <2> DEFINE B == {i \in commit[n] + 1..c2 : log[n][i].write /\ log[n][i].term = term[n]} # {}
                  \/ ready # {}
  <2>1. /\ commit' = [commit EXCEPT ![n] = c2] /\ reads' = [reads EXCEPT ![n] = @ \ ready]
        /\ answered' = answered \cup
              {[floor |-> r.floor, seen |-> seen, reign |-> r.reign, of |-> term[n]] : r \in ready}
        /\ told' = Max({told} \cup {i \in 1..seen : B})
    BY <1>3 DEF ApplyAndServe
  <2>2. B \in BOOLEAN
    OBVIOUS
  <2> HIDE DEF B, seen, ready, c2
  <2> QED BY <2>1, <2>2
<1>5. mt \in [Server -> Nat]
  <2>1. m.match \in Nat
    BY <1>1, <1>2 DEF Fine, HandleSuccess
  <2>2. match[n] \in [Server -> Nat]
    BY <1>1, <1>2
  <2>3. Max({match[n][m.src], m.match}) \in Nat
    <3> DEFINE x == match[n][m.src]
               y == m.match
    <3>1. x \in Nat /\ y \in Nat
      BY <1>2, <2>1, <2>2
    <3> HIDE DEF x, y
    <3>2. Max({x, y}) \in Nat
      BY <3>1, MaxOfTwo
    <3> QED BY <3>2 DEF x, y
  <2> QED BY <2>2, <2>3 DEF Matched
<1>6. nx \in [Server -> Nat \ {0}]
  <2>1. next[n] \in [Server -> Nat \ {0}]
    BY <1>1, <1>2
  <2>2. mt[m.src] + 1 \in Nat \ {0}
    BY <1>2, <1>5
  <2> QED BY <2>1, <2>2
<1>7. ac \in [Server -> Nat] /\ \A p \in Server : ac[p] <= now
  <2> DEFINE x == acked[n][m.src]
             y == m.sent
  <2>1. acked[n] \in [Server -> Nat] /\ \A p \in Server : acked[n][p] <= now
    BY <1>1, <1>2
  <2>2. x \in Nat /\ y \in Nat /\ x <= now /\ y <= now
    BY <1>2, <2>1
  <2>3. ac = [acked[n] EXCEPT ![m.src] = Max({x, y})]
    BY DEF AckedAt
  <2> HIDE DEF x, y, ac
  <2>4. Max({x, y}) \in Nat /\ Max({x, y}) <= now
    BY <2>2, MaxOfTwo
  <2> DEFINE z == Max({x, y})
  <2> HIDE DEF z
  <2>5. z \in Nat /\ z <= now /\ ac = [acked[n] EXCEPT ![m.src] = z]
    BY <2>3, <2>4 DEF z
  <2> QED BY <1>2, <2>1, <2>5
<1>8. ac = [acked[n] EXCEPT ![m.src] = Max({@, m.sent})]
  BY DEF AckedAt
<1>9. /\ c2 \in Nat /\ c2 >= commit[n] /\ (c2 # commit[n] => Chosen(h, a, term[n], c2))
      /\ Decided(h, a, log[n], c2, term[n])
      /\ Replicated(term, leads, log, [commit EXCEPT ![n] = c2], [next EXCEPT ![n] = nx],
                    [match EXCEPT ![n] = mt], writes, h, a)
  <2> HIDE DEF nx
  <2> QED BY <1>1, <1>2, <1>6, ReplicatedCounts
<1> HIDE DEF mt, nx, ac, c2
<1>10. /\ match'[n] = mt /\ acked'[n] = ac /\ commit'[n] = c2
       /\ \A q \in Server : q # n =>
             match'[q] = match[q] /\ acked'[q] = acked[q] /\ commit'[q] = commit[q] /\ reads'[q] = reads[q]
       /\ reads'[n] = reads[n] \ ready
  BY <1>1, <1>2, <1>3, <1>4
<1> DEFINE done == {[floor |-> r.floor, seen |-> seen, reign |-> r.reign, of |-> term[n]] : r \in ready}
<1>11. answered' = answered \cup done
  BY <1>4
<1>12. reads' \in [Server -> SUBSET Asked] /\ \A q \in Server : reads'[q] \subseteq reads[q]
  <2> HIDE DEF ready
  <2> QED BY <1>1, <1>2, <1>4
<1>13. \A r \in ready : r \in reads[n] /\ Confirmed(n, ac, r.at) /\ c2 >= r.index
  OBVIOUS
<1>14. \A b \in done : \E r \in ready : /\ b.floor = r.floor /\ b.seen = seen
                                        /\ b.reign = r.reign /\ b.of = term[n]
  <2> HIDE DEF seen, ready
  <2> QED OBVIOUS
<1> HIDE DEF ready, done
<1>15. /\ Replicated(term', leads', log', commit', next', match', writes', h, a)
       /\ Advances(term, h, a, term', h, a)
  BY <1>1, <1>3, <1>4, <1>9, Same
<1>16. commit' \in [Server -> Nat] /\ \A q \in Server : commit'[q] >= commit[q]
  <2>1. commit' \in [Server -> Nat]
    BY <1>15 DEF Replicated
  <2>2. ASSUME NEW q \in Server PROVE commit'[q] >= commit[q]
    <3>1. commit[q] \in Nat /\ (commit'[q] = commit[q] \/ q = n)
      BY <1>1, <1>10
    <3> QED BY <1>9, <1>10, <3>1
  <2> QED BY <2>1, <2>2
<1>17. LeadersGoOn(term, leads, commit, h, term', leads', commit')
  BY <1>1, <1>3, <1>16, LeadersStay
<1>18. \A o \in net' : o \in net \/ RequestOf(o, n, term', h, a, now')
  <2>1. Q \in SUBSET Server
    BY <1>2
  <2>2. Decided(h, a, log'[n], commit[n], term'[n]) /\ leads'[n] /\ commit[n] \in Nat /\ now' \in Nat
    BY <1>1, <1>2, <1>3 DEF Replicated
  <2> HIDE DEF Q
  <2> QED BY <1>2, <1>3, <1>15, <2>1, <2>2, RequestsGo
<1>19. \A o \in net' : o \in net \/ Posted(term', h, a, now', o)
  BY <1>18 DEF RequestOf
<1>20. ASSUME NEW q \in Server, NEW r PROVE \A o \in net' : o \in net \/ Mild(o, q, r, term)
  <2>1. term[n] \in Nat /\ term'[n] = term[n]
    BY <1>1, <1>2, <1>3
  <2> QED BY <1>18, <2>1, RequestIsMild
<1>21. ASSUME NEW r \in reads[n]
       PROVE  Waits(n, r, term, leads, log, match', acked', net', now, h, a)
  <2>1. Waits(n, r, term, leads, log, match, acked, net, now, h, a)
    BY <1>2 DEF ReadsHolds
  <2>2. Learns(n, m, term, match, acked, match', acked')
    BY <1>8, <1>10 DEF mt, Learns
  <2>3. \A o \in net' : o \in net \/ Mild(o, n, r, term)
    BY <1>2, <1>20
  <2>4. Success(m, n, net, term, h, a, now)
    BY <1>1, <1>2 DEF Success
  <2>5. Replicated(term, leads, log, commit, next, match, writes, h, a)
    BY <1>1
  <2>6. acked \in [Server -> [Server -> Nat]]
    BY <1>1
  <2>7. n \in Server
    BY <1>2
  <2> QED BY <2>1, <2>2, <2>3, <2>4, <2>5, <2>6, <2>7, WaitsMore
<1>22. ASSUME NEW q \in Server, NEW r \in reads'[q]
       PROVE  \/ Waits(q, r, term', leads', log', match', acked', net', now', h, a)
              \/ r \in reads[q] /\ Undisturbed(q, r, term, log, match, acked, net,
                                               term', leads', log', match', acked', net')
  <2>1. r \in reads[q]
    BY <1>12
  <2>2. CASE q = n
    BY <1>3, <1>21, <2>1, <2>2
  <2>3. CASE q # n
    <3>1. leads[q]
      BY <2>1 DEF ReadsHolds, Waits
    <3>2. \A o \in net' : o \in net \/ Mild(o, q, r, term)
      BY <1>20
    <3>3. PrefixOf(log[q], log'[q])
      BY <1>1, <1>3, PrefixReflexive
    <3>4. match'[q] = match[q] /\ acked'[q] = acked[q]
      BY <1>10, <2>3
    <3> QED BY <1>3, <2>1, <3>1, <3>2, <3>3, <3>4 DEF Undisturbed
  <2> QED BY <2>2, <2>3
<1>23. acked' \in [Server -> [Server -> Nat]] /\ \A q, p \in Server : acked'[q][p] <= now'
  <2>1. acked' \in [Server -> [Server -> Nat]]
    BY <1>1, <1>3, <1>7
  <2>2. ASSUME NEW q \in Server, NEW p \in Server PROVE acked'[q][p] <= now'
    <3>1. CASE q = n
      BY <1>3, <1>7, <1>10, <3>1
    <3>2. CASE q # n
      BY <1>1, <1>3, <1>10, <3>2
    <3> QED BY <3>1, <3>2
  <2> QED BY <2>1, <2>2
<1>24. ASSUME NEW b \in done PROVE b.seen >= b.floor /\ b.of >= b.reign
  <2>1. PICK r \in ready : b.floor = r.floor /\ b.seen = seen /\ b.reign = r.reign /\ b.of = term[n]
    BY <1>14
  <2>2. r \in reads[n] /\ Ready(n, r, log[n], term[n], commit[n], match'[n], acked'[n], c2)
    BY <1>10, <1>13 DEF Ready, c2
  <2>3. Waits(n, r, term, leads, log, match', acked', net', now, h, a)
    BY <1>21, <2>2
  <2>4. /\ match'[n] \in [Server -> Nat] /\ acked'[n] \in [Server -> Nat]
        /\ commit[n] \in Nat
    BY <1>1, <1>2, <1>5, <1>7, <1>10
  <2>5. r.reign <= term[n] /\ LastWrite(log[n], c2) >= r.floor
    BY <1>1, <1>2, <1>9, <2>2, <2>3, <2>4, AnswersWell
  <2>6. r.reign \in Nat /\ term[n] \in Nat
    BY <1>1, <1>2, <2>3 DEF Waits, Asked
  <2> QED BY <2>1, <2>5, <2>6 DEF seen
<1>25. told' = told \/ (told' \in Nat /\ Heard(term', leads', commit', h, a, told'))
  <2>1. PICK B \in BOOLEAN : told' = Max({told} \cup {i \in 1..seen : B})
    BY <1>4
  <2>2. /\ seen \in 0..c2 /\ (seen # 0 => log[n][seen].write)
    BY <1>9, LastWriteIsLast
  <2> HIDE DEF seen
  <2>3. seen \in Nat
    BY <1>9, <2>2
  <2>4. told' = told \/ (told' = seen /\ seen # 0)
    <3> DEFINE S == {told} \cup {i \in 1..seen : B}
    <3>1. S = {told} \/ S = {told} \cup 1..seen
      <4>1. CASE B = TRUE
        BY <4>1
      <4>2. CASE B = FALSE
        BY <4>2
      <4> QED BY <4>1, <4>2
    <3>2. told' = Max(S)
      BY <2>1
    <3> HIDE DEF S
    <3> QED BY <1>1, <2>3, <3>1, <3>2, ToldOrSeen
  <2>5. CASE told' = seen /\ seen # 0
    <3>1. commit'[n] \in Nat /\ Decided(h, a, log[n], commit'[n], term[n])
      BY <1>9, <1>10
    <3>2. seen \in 1..commit'[n] /\ log[n][seen].write
      BY <1>9, <1>10, <2>2, <2>5
    <3>3. Heard(term, leads, commit', h, a, seen)
      BY <1>1, <1>2, <3>1, <3>2, CommittedIsHeard
    <3> QED BY <1>3, <2>3, <2>5, <3>3
  <2> QED BY <2>4, <2>5
<1>26. \A b \in answered' : b \in answered \/ (b.seen >= b.floor /\ b.of >= b.reign)
  BY <1>11, <1>24
<1>27. now' \in Nat /\ now <= now'
  BY <1>1, <1>3
<1>28. reads' \in [Server -> SUBSET Asked]
  BY <1>12
<1> HIDE DEF seen
<1>29. ReadsHolds(term', leads', log', commit', next', match', acked', reads', net', now', writes',
                  told', answered', h, a)
  BY <1>15, <1>17, <1>19, <1>22, <1>23, <1>25, <1>26, <1>27, <1>28, ReadsGoOn
<1> QED BY <1>29 DEF ReadsInv

\* A failure has the leader try an earlier entry.
LEMMA ReadsFail ==
  ASSUME IsFiniteSet(Server), MaxBatch \in Nat, NEW h, NEW a,
         ReadsHolds(term, leads, log, commit, next, match, acked, reads, net, now, writes,
                    told, answered, h, a),
         NEW m \in net, HandleFailure(m)
  PROVE  ReadsInv'
<1> DEFINE n == m.dst
<1>1. /\ Replicated(term, leads, log, commit, next, match, writes, h, a)
      /\ now \in Nat /\ told \in Nat
      /\ acked \in [Server -> [Server -> Nat]] /\ \A q, p \in Server : acked[q][p] <= now
      /\ reads \in [Server -> SUBSET Asked]
      /\ term \in [Server -> Nat] /\ commit \in [Server -> Nat] /\ log \in [Server -> Log]
      /\ next \in [Server -> [Server -> Nat \ {0}]]
      /\ m.src \in Server /\ n \in Server
  BY DEF ReadsHolds, Replicated, Sound, Types, Posted, Dated
<1>2. /\ term' = term /\ leads' = leads /\ log' = log /\ commit' = commit /\ match' = match
      /\ acked' = acked /\ reads' = reads /\ now' = now /\ writes' = writes
      /\ told' = told /\ answered' = answered /\ leads[n]
      /\ next' = IF m.term = term[n] THEN [next EXCEPT ![n][m.src] = Max({1, @ - 1})] ELSE next
      /\ Send({Request(n, p) : p \in {m.src}}, {m})
  <2>1. {Request(n, p) : p \in {m.src}} = {Request(n, m.src)}
    OBVIOUS
  <2> QED BY <2>1 DEF HandleFailure, nodes, clients
<1>3. next' \in [Server -> [Server -> Nat \ {0}]]
  <2> DEFINE x == next[n][m.src] - 1
  <2>1. x \in Nat
    BY <1>1
  <2> HIDE DEF x
  <2>2. Max({1, x}) \in Nat \ {0}
    BY <2>1, MaxOfTwo
  <2>3. next' = IF m.term = term[n] THEN [next EXCEPT ![n][m.src] = Max({1, x})] ELSE next
    BY <1>1, <1>2 DEF x
  <2> QED BY <1>1, <2>2, <2>3
<1>4. /\ Replicated(term', leads', log', commit', next', match', writes', h, a)
      /\ Advances(term, h, a, term', h, a)
  <2>1. Replicated(term, leads, log, commit, next, match, writes, h, a)
    BY <1>1
  <2>2. Replicated(term, leads, log, commit, next', match, writes, h, a)
    BY <1>3, <2>1, ReplicatedTries
  <2>3. Advances(term, h, a, term, h, a)
    BY <2>1, Same
  <2> QED BY <1>2, <2>2, <2>3
<1>5. Decided(h, a, log'[n], commit[n], term'[n]) /\ leads'[n] /\ commit[n] \in Nat /\ now' \in Nat
  BY <1>1, <1>2, <1>4 DEF Replicated
<1>6. \A o \in net' : o \in net \/ RequestOf(o, n, term', h, a, now')
  <2>1. {m.src} \in SUBSET Server
    BY <1>1
  <2> QED BY <1>1, <1>2, <1>4, <1>5, <2>1, RequestsGo
<1>7. \A o \in net' : o \in net \/ Posted(term', h, a, now', o)
  BY <1>6 DEF RequestOf
<1>8. LeadersGoOn(term, leads, commit, h, term', leads', commit')
  <2>1. \A q \in Server : commit'[q] >= commit[q]
    <3> TAKE q \in Server
    <3>1. commit[q] \in Nat /\ commit'[q] = commit[q]
      BY <1>1, <1>2
    <3> QED BY <3>1
  <2> QED BY <1>1, <1>2, <2>1, LeadersStay
<1>9. ASSUME NEW q \in Server, NEW r \in reads'[q]
      PROVE  r \in reads[q] /\ Undisturbed(q, r, term, log, match, acked, net,
                                           term', leads', log', match', acked', net')
  <2>1. r \in reads[q] /\ leads[q]
    BY <1>2 DEF ReadsHolds, Waits
  <2>2. \A o \in net' : o \in net \/ Mild(o, q, r, term)
    <3>1. term[n] \in Nat /\ term'[n] = term[n]
      BY <1>1, <1>2
    <3> QED BY <1>6, <3>1, RequestIsMild
  <2>3. PrefixOf(log[q], log'[q])
    BY <1>1, <1>2, PrefixReflexive
  <2> QED BY <1>2, <2>1, <2>2, <2>3 DEF Undisturbed
<1>10. now' \in Nat /\ now <= now'
  BY <1>1, <1>2
<1>11. acked' \in [Server -> [Server -> Nat]] /\ \A q, p \in Server : acked'[q][p] <= now'
  BY <1>1, <1>2
<1>12. reads' \in [Server -> SUBSET Asked] /\ told' = told /\ answered' = answered
  BY <1>1, <1>2
<1>13. ReadsHolds(term', leads', log', commit', next', match', acked', reads', net', now', writes',
                  told', answered', h, a)
  BY <1>4, <1>7, <1>8, <1>9, <1>10, <1>11, <1>12, ReadsGoOn
<1> QED BY <1>13 DEF ReadsInv

\* A reply comes too late.
LEMMA ReadsAreLate ==
  ASSUME IsFiniteSet(Server), MaxBatch \in Nat, NEW h, NEW a,
         ReadsHolds(term, leads, log, commit, next, match, acked, reads, net, now, writes,
                    told, answered, h, a),
         NEW m \in net, HandleLateReply(m)
  PROVE  ReadsInv'
<1> DEFINE n == m.dst
<1>1. /\ Replicated(term, leads, log, commit, next, match, writes, h, a)
      /\ now \in Nat /\ told \in Nat
      /\ acked \in [Server -> [Server -> Nat]] /\ \A q, p \in Server : acked[q][p] <= now
      /\ reads \in [Server -> SUBSET Asked] /\ leads \in [Server -> BOOLEAN]
      /\ term \in [Server -> Nat] /\ commit \in [Server -> Nat] /\ log \in [Server -> Log]
      /\ n \in Server /\ m.term \in Nat /\ Fine(term, h, a, m)
  BY DEF ReadsHolds, Replicated, Sound, Types, Posted, Dated, Fine
<1>2. /\ log' = log /\ commit' = commit /\ next' = next /\ match' = match
      /\ acked' = acked /\ now' = now /\ writes' = writes
      /\ told' = told /\ answered' = answered
      /\ Send({}, {m})
      /\ \/ /\ m.term > term[n]
            /\ term' = [term EXCEPT ![n] = m.term] /\ leads' = [leads EXCEPT ![n] = FALSE]
            /\ reads' = [reads EXCEPT ![n] = {}]
         \/ term' = term /\ leads' = leads /\ reads' = reads
  BY DEF HandleLateReply, Follow, leading, clients
<1>3. /\ Replicated(term', leads', log', commit', next', match', writes', h, a)
      /\ Advances(term, h, a, term', h, a)
      /\ reads' \in [Server -> SUBSET Asked]
      /\ \A q \in Server : reads'[q] # {} =>
            reads'[q] = reads[q] /\ leads'[q] = leads[q] /\ term'[q] = term[q]
      /\ \A q \in Server : leads'[q] => leads[q] /\ term'[q] = term[q]
  <2>1. CASE /\ m.term > term[n]
             /\ term' = [term EXCEPT ![n] = m.term] /\ leads' = [leads EXCEPT ![n] = FALSE]
             /\ reads' = [reads EXCEPT ![n] = {}]
    <3>1. Known(term, h, m.term)
      BY <1>1, TermIsKnown
    <3>2. term[n] <= m.term
      <4>1. term[n] \in Nat
        BY <1>1
      <4> QED BY <1>1, <2>1, <4>1
    <3>3. /\ Replicated([term EXCEPT ![n] = m.term], [leads EXCEPT ![n] = FALSE], log, commit, next,
                        match, writes, h, a)
          /\ Advances(term, h, a, [term EXCEPT ![n] = m.term], h, a)
      BY <1>1, <3>1, <3>2, ReplicatedFollows
    <3>4. /\ Replicated(term', leads', log', commit', next', match', writes', h, a)
          /\ Advances(term, h, a, term', h, a)
      BY <1>2, <2>1, <3>3
    <3>5. ~ leads'[n] /\ reads'[n] = {} /\ reads' \in [Server -> SUBSET Asked]
      BY <1>1, <2>1
    <3>6. \A q \in Server : q # n =>
             reads'[q] = reads[q] /\ leads'[q] = leads[q] /\ term'[q] = term[q]
      BY <1>1, <2>1
    <3> QED BY <3>4, <3>5, <3>6
  <2>2. CASE term' = term /\ leads' = leads /\ reads' = reads
    <3>1. Replicated(term', leads', log', commit', next', match', writes', h, a)
      BY <1>1, <1>2, <2>2
    <3>2. Advances(term, h, a, term', h, a)
      BY <1>1, <2>2, Same
    <3> QED BY <1>1, <2>2, <3>1, <3>2
  <2> QED BY <1>2, <2>1, <2>2
<1>4. \A o \in net' : o \in net
  BY <1>2, SentOrOld
<1>5. LeadersGoOn(term, leads, commit, h, term', leads', commit')
  <2>1. \A q \in Server : commit'[q] >= commit[q]
    <3> TAKE q \in Server
    <3>1. commit[q] \in Nat /\ commit'[q] = commit[q]
      BY <1>1, <1>2
    <3> QED BY <3>1
  <2> QED BY <1>1, <1>2, <1>3, <2>1, LeadersStay
<1>6. ASSUME NEW q \in Server, NEW r \in reads'[q]
      PROVE  r \in reads[q] /\ Undisturbed(q, r, term, log, match, acked, net,
                                           term', leads', log', match', acked', net')
  <2>1. r \in reads[q] /\ leads'[q] = leads[q] /\ term'[q] = term[q]
    BY <1>3
  <2>2. leads[q]
    BY <2>1 DEF ReadsHolds, Waits
  <2>3. PrefixOf(log[q], log'[q])
    BY <1>1, <1>2, PrefixReflexive
  <2> QED BY <1>2, <1>4, <2>1, <2>2, <2>3 DEF Undisturbed
<1>7. now' \in Nat /\ now <= now'
  BY <1>1, <1>2
<1>8. acked' \in [Server -> [Server -> Nat]] /\ \A q, p \in Server : acked'[q][p] <= now'
  BY <1>1, <1>2
<1>9. told' = told /\ answered' = answered
  BY <1>2
<1>10. ReadsHolds(term', leads', log', commit', next', match', acked', reads', net', now', writes',
                  told', answered', h, a)
  BY <1>3, <1>4, <1>5, <1>6, <1>7, <1>8, <1>9, ReadsGoOn
<1> QED BY <1>10 DEF ReadsInv

\* Before anything happens nothing was read, and the invariant holds.
LEMMA ReadsBegin ==
  ASSUME IsFiniteSet(Server), Server # {}, Init
  PROVE  ReadsInv
<1> DEFINE h == [t \in Nat |-> <<>>]
           a == [p \in Server |-> [t \in Nat |-> 0]]
<1>1. /\ term = [n \in Server |-> 0] /\ leads = [n \in Server |-> FALSE]
      /\ log = [n \in Server |-> <<>>] /\ commit = [n \in Server |-> 0]
      /\ next = [n \in Server |-> [p \in Server |-> 1]]
      /\ match = [n \in Server |-> [p \in Server |-> 0]]
      /\ acked = [n \in Server |-> [p \in Server |-> 0]] /\ reads = [n \in Server |-> {}]
      /\ net = {} /\ now = 1 /\ writes = 0 /\ told = 0 /\ answered = {}
  BY DEF Init, Never
<1>2. Replicated(term, leads, log, commit, next, match, writes, h, a)
  BY <1>1, NothingReplicated
<1> HIDE DEF h, a
<1>3. ReadsHolds(term, leads, log, commit, next, match, acked, reads, net, now, writes,
                 told, answered, h, a)
  BY <1>1, <1>2 DEF ReadsHolds, Heard
<1> QED BY <1>3 DEF ReadsInv

\* Every step keeps the invariant, if the requests reach as far as they should.
LEMMA ReadsSteps ==
  ASSUME IsFiniteSet(Server), MaxBatch \in Nat, ReadsInv, RequestsReach, [Next]_vars
  PROVE  ReadsInv'
<1>1. PICK h, a : ReadsHolds(term, leads, log, commit, next, match, acked, reads, net, now, writes,
                             told, answered, h, a)
  BY DEF ReadsInv
<1>2. CASE UNCHANGED vars
  <2>1. /\ term' = term /\ leads' = leads /\ log' = log /\ commit' = commit /\ next' = next
        /\ match' = match /\ acked' = acked /\ reads' = reads /\ net' = net /\ now' = now
        /\ writes' = writes /\ told' = told /\ answered' = answered
    BY <1>2 DEF vars, nodes, leading, clients
  <2>2. ReadsHolds(term', leads', log', commit', next', match', acked', reads', net', now', writes',
                   told', answered', h, a)
    BY <1>1, <2>1
  <2> QED BY <2>2 DEF ReadsInv
<1>3. ASSUME NEW n \in Server,
             \/ Write(n) \/ Heartbeat(n) \/ Read(n)
             \/ \E voters \in SUBSET Server : Elect(n, voters)
      PROVE  ReadsInv'
  <2>1. CASE Write(n)
    BY <1>1, <2>1, ReadsWrite
  <2>2. CASE Heartbeat(n) \/ Read(n)
    BY <1>1, <2>2, ReadsBeat
  <2>3. CASE \E voters \in SUBSET Server : Elect(n, voters)
    BY <1>1, <2>3, ReadsElect
  <2> QED BY <1>3, <2>1, <2>2, <2>3
<1>4. ASSUME NEW m \in net, HandleAppend(m) \/ HandleReply(m)
      PROVE  ReadsInv'
  <2>1. CASE HandleAppend(m)
    <3>1. m.type = "append" => Reaches(m)
      BY DEF RequestsReach
    <3> QED BY <1>1, <2>1, <3>1, ReadsAppend
  <2>2. CASE m.type = "reply" /\ HandleSuccess(m)
    BY <1>1, <2>2, ReadsSucceed
  <2>3. CASE HandleFailure(m)
    BY <1>1, <2>3, ReadsFail
  <2>4. CASE HandleLateReply(m)
    BY <1>1, <2>4, ReadsAreLate
  <2> QED BY <1>4, <2>1, <2>2, <2>3, <2>4 DEF HandleReply
<1> QED BY <1>2, <1>3, <1>4 DEF Next

\* What was answered was right.
LEMMA ReadsAreRight ==
  ASSUME ReadsInv
  PROVE  ReadIndexHolds
BY DEF ReadsInv, ReadsHolds, ReadIndexHolds, ReadsAreFresh, NoChallenger

\* Whoever answers a read from its own store led when the read came, and the store
\* shows whatever any client had been told of (_handle_read, _try_serve_reads): for
\* any number of servers and any order of the messages, as long as every request
\* reaches an entry of its leader's term and what it calls committed.
THEOREM ReadIndexHoldsWhenReached ==
  ASSUME IsFiniteSet(Server), Server # {}, MaxBatch \in Nat
  PROVE  Spec /\ []RequestsReach => []ReadIndexHolds
<1>1. Init => ReadsInv
  BY ReadsBegin
<1>2. ReadsInv /\ RequestsReach /\ [Next]_vars => ReadsInv'
  BY ReadsSteps
<1>3. ReadsInv => ReadIndexHolds
  BY ReadsAreRight
<1> QED BY <1>1, <1>2, <1>3, PTL DEF Spec

\* Requests that one batch completes do so.
LEMMA ShortRequestsReach ==
  ASSUME IsFiniteSet(Server), Server # {}, MaxBatch \in Nat, MaxTerm \in Nat, MaxWrites \in Nat,
         MaxTerm + MaxWrites <= MaxBatch, WithinBounds, ReadsInv
  PROVE  RequestsReach
<1>1. PICK h, a : ReadsHolds(term, leads, log, commit, next, match, acked, reads, net, now, writes,
                             told, answered, h, a)
  BY DEF ReadsInv
<1>2. Sound(term, leads, log, h, a, writes) /\ \A m \in net : Posted(term, h, a, now, m)
  BY <1>1 DEF ReadsHolds, Replicated
<1>3. \A t \in Nat : Len(h[t]) <= MaxBatch
  BY <1>2, OneBatch
<1>4. ASSUME NEW m \in net, m.type = "append" PROVE Reaches(m)
  <2> DEFINE t == m.term
             K == h[t]
             B == m.entries
             i == m.prev
  <2>1. /\ t \in Nat /\ K \in Log /\ B \in Log /\ i \in Nat
        /\ i + Len(B) <= Len(K) /\ m.prev_term = TermAt(K, i)
        /\ \A k \in 1..Len(B) : B[k] = K[i + k]
        /\ m.commit <= End(m) /\ Holds(K, t, End(m))
    BY <1>2, <1>3, <1>4 DEF Posted, Fine, Dated, Slice, Sound, Types
  <2>2. End(m) = i + Len(B)
    BY DEF End
  <2> HIDE DEF t, K, B, i
  <2>3. Len(B) \in Nat /\ i + Len(B) # 0 /\ K[i + Len(B)].term = t
    BY <2>1, <2>2, LogType DEF Holds
  <2>4. CASE B = <<>>
    <3>1. Len(B) = 0
      BY <2>4
    <3>2. m.prev_term = t
      BY <2>1, <2>3, <3>1 DEF TermAt
    <3> QED BY <2>1, <2>4, <3>2 DEF Reaches, LastTermOf, B, t
  <2>5. CASE B # <<>>
    <3>1. Len(B) \in 1..Len(B)
      <4>1. Len(B) # 0
        BY <2>1, <2>5 DEF Log
      <4> QED BY <2>3, <4>1
    <3>2. B[Len(B)].term = t
      BY <2>1, <2>3, <3>1
    <3> QED BY <2>1, <2>5, <3>2 DEF Reaches, LastTermOf, B, t
  <2> QED BY <2>4, <2>5
<1> QED BY <1>4 DEF RequestsReach

\* The bounds hold after every step.
LEMMA ReadsWithinBounds ==
  ASSUME IsFiniteSet(Server), MaxTerm \in Nat, MaxWrites \in Nat, ReadsInv, WithinBounds, [Next]_vars
  PROVE  WithinBounds'
<1>1. PICK h, a : ReadsHolds(term, leads, log, commit, next, match, acked, reads, net, now, writes,
                             told, answered, h, a)
  BY DEF ReadsInv
<1>2. Sound(term, leads, log, h, a, writes) /\ \A m \in net : Posted(term, h, a, now, m)
  BY <1>1 DEF ReadsHolds, Replicated
<1>3. CASE UNCHANGED vars
  BY <1>3 DEF WithinBounds, vars, nodes, clients
<1>4. ASSUME NEW n \in Server, Write(n) \/ Heartbeat(n) \/ Read(n)
      PROVE  WithinBounds'
  <2>1. term' = term /\ (writes' = writes \/ (writes < MaxWrites /\ writes' = writes + 1))
    BY <1>4 DEF Write, Heartbeat, Read, nodes, clients
  <2> QED BY <2>1 DEF WithinBounds
<1>5. ASSUME NEW n \in Server, NEW voters \in SUBSET Server, Elect(n, voters)
      PROVE  WithinBounds'
  <2> DEFINE new == Max({term[m] : m \in voters}) + 1
  <2>1. /\ new <= MaxTerm /\ writes' = writes /\ n \in voters
        /\ term' = [m \in Server |-> IF m \in voters THEN new ELSE term[m]]
    BY <1>5 DEF Elect, clients
  <2>2. new \in Nat
    <3> DEFINE S == {term[m] : m \in voters}
    <3>1. S \in SUBSET Nat /\ S # {} /\ \A x \in S : x <= MaxTerm
      BY <2>1 DEF WithinBounds
    <3> HIDE DEF S
    <3>2. Max(S) \in S
      BY <3>1, MaxIsGreatest
    <3>3. Max(S) \in Nat
      BY <3>1, <3>2
    <3> QED BY <3>3 DEF S
  <2> HIDE DEF new
  <2> QED BY <2>1, <2>2 DEF WithinBounds
<1>6. ASSUME NEW m \in net, HandleAppend(m) \/ HandleReply(m)
      PROVE  WithinBounds'
  <2>1. writes' = writes /\ (term' = term \/ term' = [term EXCEPT ![m.dst] = m.term])
    BY <1>6 DEF HandleAppend, HandleReply, HandleSuccess, HandleFailure, HandleLateReply, Follow,
                nodes, clients
  <2>2. Fine(term, h, a, m) /\ m.term \in Nat
    BY <1>2 DEF Posted, Fine
  <2>3. m.term <= MaxTerm
    <3>1. PICK q \in Server : m.term <= term[q]
      BY <1>2, <2>2, TermIsKnown, KnownIsReached
    <3> QED BY <2>2, <3>1 DEF WithinBounds
  <2> QED BY <2>1, <2>2, <2>3 DEF WithinBounds
<1> QED BY <1>3, <1>4, <1>5, <1>6 DEF Next

\* The same without a condition on requests, when a batch holds any log there can be:
\* a log has at most an entry for each term and each write.
THEOREM ReadIndexHoldsInOneBatch ==
  ASSUME IsFiniteSet(Server), Server # {}, MaxBatch \in Nat, MaxTerm \in Nat, MaxWrites \in Nat,
         MaxTerm + MaxWrites <= MaxBatch
  PROVE  Spec => []ReadIndexHolds
<1>1. Init => ReadsInv /\ WithinBounds
  <2>1. Init => WithinBounds
    BY DEF Init, WithinBounds
  <2> QED BY <2>1, ReadsBegin
<1>2. ReadsInv /\ WithinBounds /\ [Next]_vars => ReadsInv' /\ WithinBounds'
  BY ShortRequestsReach, ReadsSteps, ReadsWithinBounds
<1>3. ReadsInv => ReadIndexHolds
  BY ReadsAreRight
<1> QED BY <1>1, <1>2, <1>3, PTL DEF Spec

-----------------------------------------------------------------------------
(***************************************************************************)
(* What is told of the terms (Trace.tla).                                  *)
(***************************************************************************)
TraceEvent ==
    [kind : {"TERM_CHANGED", "ELECTION_STARTED", "VOTE_GRANTED", "LEADER_ELECTED",
             "NODE_CRASHED", "NODE_RECOVERED", "PARTITION_CREATED", "PARTITION_HEALED"},
     node : Node \cup {NONE}, term : Nat \cup {NONE}]

\* The events of n before i that have a term, and the term last told.
ToldBefore(tr, n, i) == {j \in 1..i - 1 : tr[j].node = n /\ tr[j].term # NONE}
LastTold(tr, n, i) ==
    IF ToldBefore(tr, n, i) = {} THEN 0 ELSE tr[Max(ToldBefore(tr, n, i))].term

\* Event e may be told after tr, when each node n has last told t[n].
MayBeTold(tr, t, e) ==
    /\ e \in TraceEvent
    /\ e.term = NONE => e.kind \notin {"TERM_CHANGED", "LEADER_ELECTED"}
    /\ e.term # NONE =>
          /\ e.node \in Node /\ e.term \in Nat
          /\ IF e.kind = "TERM_CHANGED" THEN e.term > t[e.node] ELSE e.term = t[e.node]
    /\ e.kind = "LEADER_ELECTED" =>
          \E j \in 1..Len(tr) : tr[j] = Event("ELECTION_STARTED", e.node, e.term)

\* What is true of a trace tr that told the terms t, and of the live view v.
Told(tr, v, t) ==
    /\ tr \in Seq(TraceEvent) /\ t \in [Node -> Nat]
    /\ v.leader \in Node \cup {NONE} /\ v.leader_term \in Nat
    /\ \A n \in Node : LastTold(tr, n, Len(tr) + 1) = t[n]
    /\ \A i \in 1..Len(tr) :
          /\ tr[i].kind = "LEADER_ELECTED" =>
                /\ tr[i].term <= v.leader_term
                /\ \E j \in 1..i : tr[j] = Event("ELECTION_STARTED", tr[i].node, tr[i].term)
          /\ tr[i].term = NONE => tr[i].kind \notin {"TERM_CHANGED", "LEADER_ELECTED"}
          /\ tr[i].term # NONE =>
                /\ tr[i].node \in Node /\ tr[i].term <= t[tr[i].node]
                /\ IF tr[i].kind = "TERM_CHANGED"
                   THEN tr[i].term > LastTold(tr, tr[i].node, i)
                   ELSE tr[i].term = LastTold(tr, tr[i].node, i)
                /\ tr[i].node = v.leader => tr[i].term <= v.leader_term

TermsInv ==
    /\ current_term \in [Node -> Nat] /\ traced = current_term
    /\ role \in [Node -> {"follower", "candidate", "leader"}]
    /\ Told(trace, live, traced)
    /\ \A n \in Node :
          role[n] # "follower" =>
              \E j \in 1..Len(trace) : trace[j] = Event("ELECTION_STARTED", n, current_term[n])

\* The terms told when one more event is.
TermsAfter(t, e) == IF e.term = NONE THEN t ELSE [t EXCEPT ![e.node] = e.term]

\* An event later than i changes nothing before i.
LEMMA LastToldSame ==
  ASSUME NEW tr \in Seq(TraceEvent), NEW e \in TraceEvent, NEW i \in 1..(Len(tr) + 1), NEW n
  PROVE  LastTold(Append(tr, e), n, i) = LastTold(tr, n, i)
<1> DEFINE new == Append(tr, e)
<1>1. \A j \in 1..i - 1 : new[j] = tr[j]
  OBVIOUS
<1> HIDE DEF new
<1>2. ToldBefore(new, n, i) = ToldBefore(tr, n, i)
  BY <1>1 DEF ToldBefore
<1>3. CASE ToldBefore(tr, n, i) = {}
  BY <1>2, <1>3 DEF LastTold, new
<1>4. CASE ToldBefore(tr, n, i) # {}
  <2> DEFINE S == ToldBefore(tr, n, i)
  <2>1. S \in SUBSET Nat /\ i \in Nat /\ \A x \in S : x <= i
    BY DEF ToldBefore
  <2>2. Max(S) \in S
    BY <1>4, <2>1, MaxIsGreatest
  <2>3. Max(S) \in 1..i - 1
    BY <2>2 DEF ToldBefore
  <2> QED BY <1>1, <1>2, <1>4, <2>3 DEF LastTold, new
<1> QED BY <1>3, <1>4 DEF new

LEMMA LastToldNext ==
  ASSUME NoneAssumption, NEW tr \in Seq(TraceEvent), NEW t \in [Node -> Nat], NEW e,
         MayBeTold(tr, t, e), NEW n \in Node, LastTold(tr, n, Len(tr) + 1) = t[n]
  PROVE  LastTold(Append(tr, e), n, Len(tr) + 2) = TermsAfter(t, e)[n]
<1> DEFINE new == Append(tr, e)
           k == Len(tr) + 1
<1>1. /\ k \in Nat /\ k + 1 = Len(tr) + 2 /\ new[k] = e
      /\ \A j \in 1..k - 1 : new[j] = tr[j]
      /\ \A j \in 1..(k + 1) - 1 : j \in 1..k - 1 \/ j = k
      /\ k \in 1..(k + 1) - 1 /\ 1..k - 1 \subseteq 1..(k + 1) - 1
  OBVIOUS
<1>2. LastTold(new, n, k) = t[n]
  BY LastToldSame DEF MayBeTold
<1> HIDE DEF new, k
<1>3. CASE e.node = n /\ e.term # NONE
  <2> DEFINE S == ToldBefore(new, n, k + 1)
  <2>1. k \in S /\ S \in SUBSET Nat /\ \A x \in S : x <= k
    BY <1>1, <1>3 DEF ToldBefore
  <2> HIDE DEF S
  <2>2. Max(S) \in S /\ k <= Max(S)
    BY <1>1, <2>1, MaxIsGreatest
  <2>bound. Max(S) \in Nat /\ Max(S) <= k
    BY <2>1, <2>2
  <2>last. Max(S) = k
    BY <1>1, <2>2, <2>bound
  <2>3. LastTold(new, n, k + 1) = e.term
    BY <1>1, <2>1, <2>last DEF LastTold, S
  <2>4. TermsAfter(t, e)[n] = e.term
    BY <1>3 DEF TermsAfter
  <2> QED BY <1>1, <2>3, <2>4 DEF new
<1>4. CASE ~ (e.node = n /\ e.term # NONE)
  <2>1. ToldBefore(new, n, k + 1) = ToldBefore(new, n, k)
    BY <1>1, <1>4 DEF ToldBefore
  <2>2. LastTold(new, n, k + 1) = t[n]
    BY <1>2, <2>1 DEF LastTold
  <2>3. TermsAfter(t, e)[n] = t[n]
    BY <1>4 DEF TermsAfter
  <2> QED BY <1>1, <2>2, <2>3 DEF new
<1> QED BY <1>3, <1>4

\* One more event.
LEMMA TellsOn ==
  ASSUME NoneAssumption, NEW tr, NEW v, NEW t, NEW e, Told(tr, v, t), MayBeTold(tr, t, e)
  PROVE  Told(Append(tr, e), Record(v, e), TermsAfter(t, e))
<1> DEFINE new == Append(tr, e)
           w == Record(v, e)
           u == TermsAfter(t, e)
           k == Len(tr) + 1
<1>1. tr \in Seq(TraceEvent) /\ t \in [Node -> Nat] /\ e \in TraceEvent
  BY DEF Told, MayBeTold
<1>2. /\ new \in Seq(TraceEvent) /\ Len(new) = k /\ k \in Nat /\ Len(tr) \in Nat
      /\ k = Len(tr) + 1 /\ new[k] = e
      /\ \A i \in 1..Len(tr) : new[i] = tr[i] /\ i \in 1..k /\ i \in 1..(Len(tr) + 1)
      /\ \A i \in 1..k : i \in 1..Len(tr) \/ i = k
  BY <1>1
<1>3. \A n \in Node : LastTold(new, n, k + 1) = u[n]
  <2>1. k + 1 = Len(tr) + 2
    BY <1>2
  <2> QED BY <1>1, <2>1, LastToldNext DEF Told
<1>4. \A n : \A i \in 1..k : LastTold(new, n, i) = LastTold(tr, n, i)
  BY <1>1, LastToldSame
<1> HIDE DEF new, k
\* The terms told only grow.
<1>5. u \in [Node -> Nat] /\ \A n \in Node : t[n] <= u[n]
  <2>1. CASE e.term = NONE
    BY <1>1, <2>1 DEF TermsAfter
  <2>2. CASE e.term # NONE
    <3>1. e.node \in Node /\ e.term \in Nat /\ t[e.node] <= e.term
      BY <1>1, <2>2 DEF MayBeTold
    <3> QED BY <1>1, <2>2, <3>1 DEF TermsAfter
  <2> QED BY <2>1, <2>2
<1>6. e.term # NONE => e.node \in Node /\ e.term \in Nat /\ u[e.node] = e.term
  BY <1>1 DEF MayBeTold, TermsAfter
\* The view's term too; and its leader has told of no later one.
<1>7. /\ w.leader \in Node \cup {NONE} /\ w.leader_term \in Nat
      /\ v.leader_term \in Nat /\ v.leader_term <= w.leader_term
      /\ w.leader_term = IF Seats(v, e) THEN e.term ELSE v.leader_term
      /\ w.leader = IF Seats(v, e) THEN e.node
                    ELSE IF Unseats(v, e) THEN NONE ELSE v.leader
  <2>1. v.leader \in Node \cup {NONE} /\ v.leader_term \in Nat
    BY DEF Told
  <2>2. e.node \in Node \cup {NONE}
    BY <1>1 DEF TraceEvent
  <2>3. CASE Seats(v, e)
    <3>1. e.term \in Nat /\ v.leader_term <= e.term
      BY <2>1, <2>3 DEF Seats, MayBeTold
    <3> QED BY <2>1, <2>2, <2>3, <3>1 DEF Record
  <2>4. CASE ~ Seats(v, e)
    BY <2>1, <2>4 DEF Record
  <2> QED BY <2>3, <2>4
<1> HIDE DEF u, w
<1>8. ASSUME NEW i \in 1..Len(tr)
      PROVE  /\ tr[i].kind = "LEADER_ELECTED" =>
                /\ tr[i].term <= w.leader_term
                /\ \E j \in 1..i : new[j] = Event("ELECTION_STARTED", tr[i].node, tr[i].term)
             /\ tr[i].term = NONE => tr[i].kind \notin {"TERM_CHANGED", "LEADER_ELECTED"}
             /\ tr[i].term # NONE =>
                /\ tr[i].node \in Node /\ tr[i].term <= u[tr[i].node]
                /\ IF tr[i].kind = "TERM_CHANGED"
                   THEN tr[i].term > LastTold(new, tr[i].node, i)
                   ELSE tr[i].term = LastTold(new, tr[i].node, i)
                /\ tr[i].node = w.leader => tr[i].term <= w.leader_term
  <2>event. tr[i] \in TraceEvent
    BY <1>1
  <2>1. tr[i].term \in Nat \cup {NONE} /\ i \in 1..k
    BY <1>2, <2>event DEF TraceEvent
  <2>2. tr[i].term = NONE => tr[i].kind \notin {"TERM_CHANGED", "LEADER_ELECTED"}
    BY DEF Told
  <2>3. ASSUME tr[i].kind = "LEADER_ELECTED"
        PROVE  /\ tr[i].term <= w.leader_term
               /\ \E j \in 1..i : new[j] = Event("ELECTION_STARTED", tr[i].node, tr[i].term)
    <3>1. /\ tr[i].term <= v.leader_term
          /\ \E j \in 1..i : tr[j] = Event("ELECTION_STARTED", tr[i].node, tr[i].term)
      BY <2>3 DEF Told
    <3>2. tr[i].term \in Nat
      BY <2>1, <2>2, <2>3
    <3>3. \A j \in 1..i : j \in 1..Len(tr) /\ new[j] = tr[j]
      BY <1>2
    <3> QED BY <1>7, <3>1, <3>2, <3>3
  <2>4. ASSUME tr[i].term # NONE
        PROVE  /\ tr[i].node \in Node /\ tr[i].term <= u[tr[i].node]
               /\ IF tr[i].kind = "TERM_CHANGED"
                  THEN tr[i].term > LastTold(new, tr[i].node, i)
                  ELSE tr[i].term = LastTold(new, tr[i].node, i)
               /\ tr[i].node = w.leader => tr[i].term <= w.leader_term
    <3>1. /\ tr[i].node \in Node /\ tr[i].term \in Nat /\ tr[i].term <= t[tr[i].node]
          /\ IF tr[i].kind = "TERM_CHANGED"
             THEN tr[i].term > LastTold(tr, tr[i].node, i)
             ELSE tr[i].term = LastTold(tr, tr[i].node, i)
          /\ tr[i].node = v.leader => tr[i].term <= v.leader_term
      BY <2>1, <2>4 DEF Told
    <3>2. tr[i].term <= u[tr[i].node]
      BY <1>1, <1>5, <3>1
    <3>3. ASSUME tr[i].node = w.leader PROVE tr[i].term <= w.leader_term
      <4>1. CASE Seats(v, e)
        <5>1. w.leader = e.node /\ w.leader_term = e.term /\ e.term # NONE
          BY <1>7, <4>1 DEF Seats, MayBeTold
        <5>2. u[tr[i].node] = w.leader_term
          BY <1>6, <3>3, <5>1
        <5> QED BY <3>2, <5>2
      <4>2. CASE ~ Seats(v, e)
        <5>1. w.leader_term = v.leader_term /\ w.leader \in {NONE, v.leader}
          BY <1>7, <4>2
        <5>2. tr[i].node # NONE
          BY <3>1, NoneAssumption
        <5> QED BY <3>1, <3>3, <5>1, <5>2
      <4> QED BY <4>1, <4>2
    <3>4. LastTold(new, tr[i].node, i) = LastTold(tr, tr[i].node, i)
      BY <1>4, <2>1
    <3> QED BY <3>1, <3>2, <3>3, <3>4
  <2> QED BY <2>2, <2>3, <2>4
<1>9. /\ e.kind = "LEADER_ELECTED" =>
         /\ e.term <= w.leader_term
         /\ \E j \in 1..k : new[j] = Event("ELECTION_STARTED", e.node, e.term)
      /\ e.term = NONE => e.kind \notin {"TERM_CHANGED", "LEADER_ELECTED"}
      /\ e.term # NONE =>
         /\ e.node \in Node /\ e.term <= u[e.node]
         /\ IF e.kind = "TERM_CHANGED"
            THEN e.term > LastTold(new, e.node, k)
            ELSE e.term = LastTold(new, e.node, k)
         /\ e.node = w.leader => e.term <= w.leader_term
  <2>1. ASSUME e.kind = "LEADER_ELECTED"
        PROVE  /\ e.term <= w.leader_term
               /\ \E j \in 1..k : new[j] = Event("ELECTION_STARTED", e.node, e.term)
    <3>1. e.term \in Nat
      BY <2>1, <1>6 DEF MayBeTold
    <3>2. e.term <= w.leader_term
      BY <1>7, <2>1, <3>1 DEF Seats
    <3>3. PICK j \in 1..Len(tr) : tr[j] = Event("ELECTION_STARTED", e.node, e.term)
      BY <2>1 DEF MayBeTold
    <3> QED BY <1>2, <3>2, <3>3
  <2>2. ASSUME e.term # NONE
        PROVE  /\ e.node \in Node /\ e.term <= u[e.node]
               /\ IF e.kind = "TERM_CHANGED"
                  THEN e.term > LastTold(new, e.node, k)
                  ELSE e.term = LastTold(new, e.node, k)
               /\ e.node = w.leader => e.term <= w.leader_term
    <3>1. e.node \in Node /\ e.term \in Nat /\ u[e.node] = e.term
      BY <1>6, <2>2
    <3>2. LastTold(new, e.node, k) = t[e.node]
      <4>1. LastTold(new, e.node, k) = LastTold(tr, e.node, k) /\ k = Len(tr) + 1
        BY <1>2, <1>4
      <4> QED BY <3>1, <4>1 DEF Told
    <3>3. IF e.kind = "TERM_CHANGED" THEN e.term > t[e.node] ELSE e.term = t[e.node]
      BY <2>2 DEF MayBeTold
    <3>4. ASSUME e.node = w.leader PROVE e.term <= w.leader_term
      <4>1. CASE Seats(v, e)
        BY <1>7, <3>1, <4>1
      <4>2. CASE ~ Seats(v, e)
        <5>1. ~ Unseats(v, e) /\ w.leader = v.leader /\ w.leader_term = v.leader_term
          BY <1>7, <3>1, <3>4, <4>2, NoneAssumption
        <5>2. CASE e.kind = "TERM_CHANGED"
          BY <1>7, <3>1, <5>1, <5>2 DEF Unseats
        <5>3. CASE e.kind # "TERM_CHANGED"
          <6>1. e.term = t[e.node] /\ t[e.node] = LastTold(tr, e.node, k) /\ k = Len(tr) + 1
            BY <1>2, <1>4, <3>2, <3>3, <5>3
          <6>2. CASE ToldBefore(tr, e.node, k) = {}
            BY <1>7, <5>1, <6>1, <6>2 DEF LastTold
          <6>3. CASE ToldBefore(tr, e.node, k) # {}
            <7> DEFINE S == ToldBefore(tr, e.node, k)
            <7>1. S \in SUBSET Nat /\ \A x \in S : x <= k
              BY <1>2 DEF ToldBefore
            <7>2. Max(S) \in S
              BY <1>2, <6>3, <7>1, MaxIsGreatest
            <7>3. /\ Max(S) \in 1..Len(tr) /\ tr[Max(S)].node = e.node
                  /\ tr[Max(S)].term # NONE
              BY <1>2, <7>2 DEF ToldBefore
            <7>4. e.term = tr[Max(S)].term
              BY <6>1, <6>3 DEF LastTold
            <7> QED BY <3>4, <5>1, <7>3, <7>4 DEF Told
          <6> QED BY <6>2, <6>3
        <5> QED BY <5>2, <5>3
      <4> QED BY <4>1, <4>2
    <3> QED BY <3>1, <3>2, <3>3, <3>4
  <2> QED BY <2>1, <2>2 DEF MayBeTold
<1>10. \A i \in 1..Len(new) :
          /\ new[i].kind = "LEADER_ELECTED" =>
                /\ new[i].term <= w.leader_term
                /\ \E j \in 1..i : new[j] = Event("ELECTION_STARTED", new[i].node, new[i].term)
          /\ new[i].term = NONE => new[i].kind \notin {"TERM_CHANGED", "LEADER_ELECTED"}
          /\ new[i].term # NONE =>
                /\ new[i].node \in Node /\ new[i].term <= u[new[i].node]
                /\ IF new[i].kind = "TERM_CHANGED"
                   THEN new[i].term > LastTold(new, new[i].node, i)
                   ELSE new[i].term = LastTold(new, new[i].node, i)
                /\ new[i].node = w.leader => new[i].term <= w.leader_term
  <2> TAKE i \in 1..Len(new)
  <2>1. CASE i = k
    BY <1>2, <1>9, <2>1
  <2>2. CASE i # k
    <3>1. i \in 1..Len(tr) /\ new[i] = tr[i]
      BY <1>2, <2>2
    <3> QED BY <1>8, <3>1
  <2> QED BY <2>1, <2>2
<1>11. \A n \in Node : LastTold(new, n, Len(new) + 1) = u[n]
  BY <1>2, <1>3
<1>12. Told(new, w, u)
  BY <1>2, <1>5, <1>7, <1>10, <1>11 DEF Told
<1> QED BY <1>12 DEF new, w, u

-----------------------------------------------------------------------------
(***************************************************************************)
(* The live view is that fold.                                             *)
(***************************************************************************)
Views(f, v, events) ==
    f = [i \in 0..Len(events) |-> IF i = 0 THEN v ELSE Record(f[i - 1], events[i])]

LEMMA RecordedIs ==
  ASSUME NEW v, NEW events, NEW f, Views(f, v, events)
  PROVE  \E g : Views(g, v, events) /\ Recorded(v, events) = g[Len(events)]
<1> DEFINE g == CHOOSE h : Views(h, v, events)
<1>1. Views(g, v, events)
  OBVIOUS
<1>2. Recorded(v, events) = g[Len(events)]
  BY DEF Recorded, Views
<1> QED BY <1>1, <1>2

\* At most two events are told at once.
LEMMA RecordedNone ==
  ASSUME NEW v
  PROVE  Recorded(v, <<>>) = v
<1> DEFINE f == [i \in 0..0 |-> v]
           events == <<>>
<1>1. Len(events) = 0 /\ 0 \in 0..0
  OBVIOUS
<1> HIDE DEF events
<1>2. Views(f, v, events)
  BY <1>1 DEF Views
<1>3. PICK g : Views(g, v, events) /\ Recorded(v, events) = g[Len(events)]
  <2> HIDE DEF f
  <2> QED BY <1>2, RecordedIs
<1>4. g[0] = v
  BY <1>1, <1>3 DEF Views
<1> QED BY <1>1, <1>3, <1>4 DEF events

LEMMA RecordedOne ==
  ASSUME NEW v, NEW e
  PROVE  Recorded(v, <<e>>) = Record(v, e)
<1> DEFINE f == [i \in 0..1 |-> IF i = 0 THEN v ELSE Record(v, e)]
           events == <<e>>
<1>1. Len(events) = 1 /\ events[1] = e /\ 0 \in 0..1 /\ 1 \in 0..1 /\ 1 - 1 = 0
  OBVIOUS
<1> HIDE DEF events
<1>2. Views(f, v, events)
  <2>1. f[0] = v
    OBVIOUS
  <2>2. \A i \in 0..1 : f[i] = IF i = 0 THEN v ELSE Record(f[i - 1], events[i])
    BY <1>1, <2>1
  <2>3. f = [i \in 0..1 |-> f[i]]
    OBVIOUS
  <2> HIDE DEF f
  <2>4. f = [i \in 0..1 |-> IF i = 0 THEN v ELSE Record(f[i - 1], events[i])]
    BY <2>2, <2>3
  <2> QED BY <1>1, <2>4 DEF Views
<1>3. PICK g : Views(g, v, events) /\ Recorded(v, events) = g[Len(events)]
  <2> HIDE DEF f
  <2> QED BY <1>2, RecordedIs
<1>4. g[0] = v
  BY <1>1, <1>3 DEF Views
<1>5. g[1] = Record(g[1 - 1], events[1])
  BY <1>1, <1>3 DEF Views
<1> QED BY <1>1, <1>3, <1>4, <1>5 DEF events

LEMMA RecordedTwo ==
  ASSUME NEW v, NEW e, NEW d
  PROVE  Recorded(v, <<e, d>>) = Record(Record(v, e), d)
<1> DEFINE f == [i \in 0..2 |-> IF i = 0 THEN v ELSE IF i = 1 THEN Record(v, e)
                                ELSE Record(Record(v, e), d)]
           events == <<e, d>>
<1>1. /\ Len(events) = 2 /\ events[1] = e /\ events[2] = d
      /\ 0 \in 0..2 /\ 1 \in 0..2 /\ 2 \in 0..2 /\ 1 - 1 = 0 /\ 2 - 1 = 1
      /\ \A i \in 0..2 : i = 0 \/ i = 1 \/ i = 2
  OBVIOUS
<1> HIDE DEF events
<1>2. Views(f, v, events)
  <2>1. f[0] = v /\ f[1] = Record(v, e) /\ f[2] = Record(Record(v, e), d)
    OBVIOUS
  <2>2. f = [i \in 0..2 |-> f[i]]
    OBVIOUS
  <2> HIDE DEF f
  <2>3. \A i \in 0..2 : f[i] = IF i = 0 THEN v ELSE Record(f[i - 1], events[i])
    BY <1>1, <2>1
  <2>4. f = [i \in 0..2 |-> IF i = 0 THEN v ELSE Record(f[i - 1], events[i])]
    BY <2>2, <2>3
  <2> QED BY <1>1, <2>4 DEF Views
<1>3. PICK g : Views(g, v, events) /\ Recorded(v, events) = g[Len(events)]
  <2> HIDE DEF f
  <2> QED BY <1>2, RecordedIs
<1>4. g[0] = v
  BY <1>1, <1>3 DEF Views
<1>5. g[1] = Record(g[1 - 1], events[1])
  BY <1>1, <1>3 DEF Views
<1>6. g[2] = Record(g[2 - 1], events[2])
  BY <1>1, <1>3 DEF Views
<1> QED BY <1>1, <1>3, <1>4, <1>5, <1>6 DEF events

-----------------------------------------------------------------------------
(***************************************************************************)
(* A node that narrates tells a term that moved first.                     *)
(***************************************************************************)
Happens == {"ELECTION_STARTED", "VOTE_GRANTED", "LEADER_ELECTED"}

\* The first tr are still there.
Continues(new, tr) ==
    Len(tr) <= Len(new) /\ \A i \in 1..Len(tr) : new[i] = tr[i]

\* One event, told as an Emit does.
LEMMA TellsOne ==
  ASSUME NoneAssumption, NEW tr, NEW v, NEW t, Told(tr, v, t), NEW e, MayBeTold(tr, t, e)
  PROVE  /\ Told(tr \o <<e>>, Recorded(v, <<e>>), TermsAfter(t, e))
         /\ Continues(tr \o <<e>>, tr)
         /\ (tr \o <<e>>)[Len(tr) + 1] = e /\ Len(tr \o <<e>>) = Len(tr) + 1
<1>1. tr \in Seq(TraceEvent) /\ e \in TraceEvent
  BY DEF Told, MayBeTold
<1>2. tr \o <<e>> = Append(tr, e)
  BY <1>1
<1>3. /\ Len(Append(tr, e)) = Len(tr) + 1 /\ Append(tr, e)[Len(tr) + 1] = e
      /\ Len(tr) \in Nat /\ \A i \in 1..Len(tr) : Append(tr, e)[i] = tr[i]
  BY <1>1
<1>4. Told(Append(tr, e), Record(v, e), TermsAfter(t, e))
  BY TellsOn
<1>5. Recorded(v, <<e>>) = Record(v, e)
  BY RecordedOne
<1>6. Continues(Append(tr, e), tr)
  BY <1>3 DEF Continues
<1> QED BY <1>2, <1>3, <1>4, <1>5, <1>6

\* One event of a node that has told its term.
LEMMA TellsOf ==
  ASSUME NoneAssumption, NEW tr, NEW v, NEW t, Told(tr, v, t), NEW n \in Node,
         NEW k \in Happens,
         k = "LEADER_ELECTED" =>
            \E j \in 1..Len(tr) : tr[j] = Event("ELECTION_STARTED", n, t[n])
  PROVE  MayBeTold(tr, t, Event(k, n, t[n])) /\ TermsAfter(t, Event(k, n, t[n])) = t
<1> DEFINE e == Event(k, n, t[n])
<1>1. t \in [Node -> Nat] /\ t[n] \in Nat /\ t[n] # NONE
  BY NoneAssumption DEF Told
<1>2. e.kind = k /\ e.node = n /\ e.term = t[n] /\ e \in TraceEvent
  BY <1>1 DEF Event, TraceEvent, Happens
<1>3. k # "TERM_CHANGED"
  BY DEF Happens
<1> HIDE DEF e
<1>4. MayBeTold(tr, t, e)
  BY <1>1, <1>2, <1>3 DEF MayBeTold
<1>5. TermsAfter(t, e) = t
  BY <1>1, <1>2 DEF TermsAfter
<1> QED BY <1>4, <1>5 DEF e

\* The announcement of a term.
LEMMA TellsTerm ==
  ASSUME NoneAssumption, NEW tr, NEW v, NEW t, Told(tr, v, t), NEW n \in Node,
         NEW higher \in Nat, higher > t[n]
  PROVE  /\ MayBeTold(tr, t, Event("TERM_CHANGED", n, higher))
         /\ TermsAfter(t, Event("TERM_CHANGED", n, higher)) = [t EXCEPT ![n] = higher]
<1> DEFINE e == Event("TERM_CHANGED", n, higher)
<1>1. t \in [Node -> Nat] /\ higher # NONE
  BY NoneAssumption DEF Told
<1>2. e.kind = "TERM_CHANGED" /\ e.node = n /\ e.term = higher /\ e \in TraceEvent
  BY <1>1 DEF Event, TraceEvent
<1> HIDE DEF e
<1> QED BY <1>1, <1>2 DEF MayBeTold, TermsAfter, e

LEMMA TwoInARow ==
  ASSUME NEW e, NEW d
  PROVE  <<e>> \o <<d>> = <<e, d>>
<1>1. <<e>> \in Seq({e, d}) /\ d \in {e, d}
  OBVIOUS
<1>2. Append(<<e>>, d) = <<e>> \o <<d>>
  BY <1>1, AppendIsConcat
<1>3. Append(<<e>>, d) \in Seq({e, d}) /\ <<e, d>> \in Seq({e, d})
  BY <1>1
<1>4. Len(Append(<<e>>, d)) = 2 /\ Len(<<e, d>>) = 2
  BY <1>1
<1>5. \A i \in 1..2 : Append(<<e>>, d)[i] = <<e, d>>[i]
  BY <1>1
<1>6. Append(<<e>>, d) = <<e, d>>
  BY <1>3, <1>4, <1>5, SeqEqual
<1> QED BY <1>2, <1>6

\* What is announced of a node whose term is now `now'.
AllTold(t, n, reached, kinds) ==
    LET telling == [i \in DOMAIN kinds |-> Event(kinds[i], n, reached)]
    IN  IF reached # t[n] THEN <<Event("TERM_CHANGED", n, reached)>> \o telling ELSE telling

LEMMA AllToldNone ==
  ASSUME NEW t, NEW n, NEW reached
  PROVE  AllTold(t, n, reached, <<>>)
            = IF reached # t[n] THEN <<Event("TERM_CHANGED", n, reached)>> ELSE <<>>
<1> DEFINE telling == [i \in DOMAIN <<>> |-> Event(<<>>[i], n, reached)]
           e == Event("TERM_CHANGED", n, reached)
<1>1. telling = <<>>
  OBVIOUS
<1>2. AllTold(t, n, reached, <<>>) = IF reached # t[n] THEN <<e>> \o telling ELSE telling
  BY DEF AllTold
<1> HIDE DEF e, telling
<1>3. <<e>> \o <<>> = <<e>>
  BY <<e>> \in Seq({e}), ConcatEmptySeq
<1> QED BY <1>1, <1>2, <1>3 DEF e

LEMMA AllToldOne ==
  ASSUME NEW t, NEW n, NEW reached, NEW k
  PROVE  AllTold(t, n, reached, <<k>>)
            = IF reached # t[n] THEN <<Event("TERM_CHANGED", n, reached), Event(k, n, reached)>>
              ELSE <<Event(k, n, reached)>>
<1> DEFINE telling == [i \in DOMAIN <<k>> |-> Event(<<k>>[i], n, reached)]
           e == Event("TERM_CHANGED", n, reached)
           d == Event(k, n, reached)
<1>1. telling = <<d>>
  OBVIOUS
<1>2. AllTold(t, n, reached, <<k>>) = IF reached # t[n] THEN <<e>> \o telling ELSE telling
  BY DEF AllTold
<1> HIDE DEF d, e, telling
<1>3. <<e>> \o <<d>> = <<e, d>>
  BY TwoInARow
<1> QED BY <1>1, <1>2, <1>3 DEF d, e

\* What may happen at n in its term.
MayHappen(tr, n, reached, kinds) ==
    kinds # <<>> =>
        \E k \in Happens :
            /\ kinds = <<k>>
            /\ k = "LEADER_ELECTED" =>
                  \E j \in 1..Len(tr) : tr[j] = Event("ELECTION_STARTED", n, reached)

\* The trace, the view and the terms told once it is narrated.
Narrated(new, tr, v, t, n, reached, kinds) ==
    /\ Told(new, v, [t EXCEPT ![n] = reached])
    /\ Continues(new, tr)
    /\ kinds = <<"ELECTION_STARTED">> =>
          \E j \in 1..Len(new) : new[j] = Event("ELECTION_STARTED", n, reached)

\* A node's term and what happened in it are told together.
LEMMA TellsAll ==
  ASSUME NoneAssumption, NEW tr, NEW v, NEW t, Told(tr, v, t), NEW n \in Node,
         NEW reached \in Nat, t[n] <= reached, NEW kinds, MayHappen(tr, n, reached, kinds)
  PROVE  Narrated(tr \o AllTold(t, n, reached, kinds), tr,
                  Recorded(v, AllTold(t, n, reached, kinds)), t, n, reached, kinds)
<1> DEFINE Goal(events) == Narrated(tr \o events, tr, Recorded(v, events), t, n, reached, kinds)
           s == Event("TERM_CHANGED", n, reached)
<1>1. tr \in Seq(TraceEvent) /\ t \in [Node -> Nat] /\ t[n] \in Nat /\ Len(tr) \in Nat
  BY DEF Told
<1>2. <<"ELECTION_STARTED">> # <<>>
  OBVIOUS
<1>3. reached = t[n] => [t EXCEPT ![n] = reached] = t
  BY <1>1
\* The term is told first if it moved.
<1>4. reached # t[n] =>
         /\ MayBeTold(tr, t, s)
         /\ Told(tr \o <<s>>, Recorded(v, <<s>>), [t EXCEPT ![n] = reached])
         /\ Continues(tr \o <<s>>, tr)
         /\ Len(tr \o <<s>>) = Len(tr) + 1
  <2> SUFFICES ASSUME reached # t[n]
               PROVE  /\ MayBeTold(tr, t, s)
                      /\ Told(tr \o <<s>>, Recorded(v, <<s>>), [t EXCEPT ![n] = reached])
                      /\ Continues(tr \o <<s>>, tr)
                      /\ Len(tr \o <<s>>) = Len(tr) + 1
    OBVIOUS
  <2>1. reached > t[n]
    BY <1>1
  <2>2. MayBeTold(tr, t, s) /\ TermsAfter(t, s) = [t EXCEPT ![n] = reached]
    BY <2>1, TellsTerm
  <2> HIDE DEF s
  <2>3. /\ Told(tr \o <<s>>, Recorded(v, <<s>>), TermsAfter(t, s))
        /\ Continues(tr \o <<s>>, tr) /\ Len(tr \o <<s>>) = Len(tr) + 1
    BY <2>2, TellsOne
  <2> QED BY <2>2, <2>3
\* Then what happened in it.
<1>5. ASSUME NEW begun, NEW w, NEW u, Told(begun, w, u), u[n] = reached, NEW k \in Happens,
             Len(tr) <= Len(begun), Continues(begun, tr),
             k = "LEADER_ELECTED" =>
                \E j \in 1..Len(tr) : tr[j] = Event("ELECTION_STARTED", n, reached)
      PROVE  LET d == Event(k, n, reached)
                 new == begun \o <<d>>
             IN  /\ Told(new, Recorded(w, <<d>>), u)
                 /\ Continues(new, tr)
                 /\ k = "ELECTION_STARTED" =>
                       \E j \in 1..Len(new) : new[j] = Event("ELECTION_STARTED", n, reached)
  <2> DEFINE d == Event(k, n, reached)
             new == begun \o <<d>>
  <2>1. begun \in Seq(TraceEvent) /\ Len(begun) \in Nat
    BY <1>5 DEF Told
  <2>2. k = "LEADER_ELECTED" =>
           \E j \in 1..Len(begun) : begun[j] = Event("ELECTION_STARTED", n, u[n])
    <3> SUFFICES ASSUME k = "LEADER_ELECTED"
                 PROVE  \E j \in 1..Len(begun) : begun[j] = Event("ELECTION_STARTED", n, u[n])
      OBVIOUS
    <3>1. PICK j \in 1..Len(tr) : tr[j] = Event("ELECTION_STARTED", n, reached)
      BY <1>5
    <3>2. j \in 1..Len(begun) /\ begun[j] = tr[j]
      BY <1>1, <1>5, <2>1, <3>1 DEF Continues
    <3> QED BY <1>5, <3>1, <3>2
  <2>3. MayBeTold(begun, u, d) /\ TermsAfter(u, d) = u
    BY <1>5, <2>2, TellsOf
  <2> HIDE DEF d
  <2>4. /\ Told(new, Recorded(w, <<d>>), u) /\ Continues(new, begun)
        /\ new[Len(begun) + 1] = d /\ Len(new) = Len(begun) + 1
    BY <1>5, <2>3, TellsOne
  <2> HIDE DEF new
  <2>5. Continues(new, tr)
    <3>1. \A i \in 1..Len(tr) : i \in 1..Len(begun)
      BY <1>1, <1>5, <2>1
    <3> QED BY <1>1, <1>5, <2>1, <2>4, <3>1 DEF Continues
  <2>6. k = "ELECTION_STARTED" =>
           \E j \in 1..Len(new) : new[j] = Event("ELECTION_STARTED", n, reached)
    <3>1. Len(begun) + 1 \in 1..Len(new)
      BY <2>1, <2>4
    <3> QED BY <2>4, <3>1 DEF d
  <2> QED BY <2>4, <2>5, <2>6 DEF new, d
<1>6. CASE kinds = <<>> /\ reached = t[n]
  <2>1. tr \o <<>> = tr
    BY <1>1, ConcatEmptySeq
  <2>2. Recorded(v, <<>>) = v /\ Continues(tr, tr)
    BY <1>1, RecordedNone DEF Continues
  <2>3. Goal(<<>>)
    BY <1>2, <1>3, <1>6, <2>1, <2>2 DEF Narrated
  <2> QED BY <1>6, <2>3, AllToldNone
<1>7. CASE kinds = <<>> /\ reached # t[n]
  <2>1. Goal(<<s>>)
    BY <1>2, <1>4, <1>7 DEF Narrated
  <2>2. AllTold(t, n, reached, kinds) = <<s>>
    BY <1>7, AllToldNone
  <2> HIDE DEF s
  <2> QED BY <2>1, <2>2
<1>8. CASE kinds # <<>>
  <2>1. PICK k \in Happens :
           /\ kinds = <<k>>
           /\ k = "LEADER_ELECTED" =>
                 \E j \in 1..Len(tr) : tr[j] = Event("ELECTION_STARTED", n, reached)
    BY <1>8 DEF MayHappen
  <2>2. kinds = <<"ELECTION_STARTED">> => k = "ELECTION_STARTED"
    BY <2>1
  <2> DEFINE d == Event(k, n, reached)
  <2>telling. AllTold(t, n, reached, kinds) = IF reached # t[n] THEN <<s, d>> ELSE <<d>>
    <3>1. AllTold(t, n, reached, <<k>>)
             = IF reached # t[n] THEN <<Event("TERM_CHANGED", n, reached), Event(k, n, reached)>>
               ELSE <<Event(k, n, reached)>>
      BY AllToldOne
    <3> HIDE DEF s, d
    <3>2. AllTold(t, n, reached, <<k>>) = IF reached # t[n] THEN <<s, d>> ELSE <<d>>
      BY <3>1 DEF s, d
    <3> QED BY <2>1, <3>2
  <2>3. CASE reached = t[n]
    <3>1. Len(tr) <= Len(tr) /\ Continues(tr, tr)
      BY <1>1 DEF Continues
    <3>2. /\ Told(tr \o <<d>>, Recorded(v, <<d>>), t)
          /\ Continues(tr \o <<d>>, tr)
          /\ k = "ELECTION_STARTED" =>
                \E j \in 1..Len(tr \o <<d>>) :
                   (tr \o <<d>>)[j] = Event("ELECTION_STARTED", n, reached)
      BY <1>5, <2>1, <2>3, <3>1
    <3>3. Goal(<<d>>)
      BY <1>3, <2>2, <2>3, <3>2 DEF Narrated
    <3>4. AllTold(t, n, reached, kinds) = <<d>>
      BY <2>telling, <2>3
    <3> HIDE DEF d
    <3> QED BY <3>3, <3>4
  <2>4. CASE reached # t[n]
    <3> DEFINE begun == tr \o <<s>>
               w == Recorded(v, <<s>>)
               u == [t EXCEPT ![n] = reached]
    <3>1. u[n] = reached
      BY <1>1
    <3>2. Told(begun, w, u) /\ Len(tr) <= Len(begun) /\ Continues(begun, tr)
      BY <1>1, <1>4, <2>4
    <3>3. s \in TraceEvent /\ d \in TraceEvent
      <4>1. reached \in Nat \cup {NONE} /\ n \in Node \cup {NONE}
        OBVIOUS
      <4> QED BY <4>1 DEF Event, TraceEvent, Happens
    <3>4. begun \o <<d>> = tr \o <<s, d>>
      <4> HIDE DEF s, d
      <4>1. <<s>> \in Seq(TraceEvent) /\ <<d>> \in Seq(TraceEvent)
        BY <3>3
      <4>2. begun \o <<d>> = tr \o (<<s>> \o <<d>>)
        BY <1>1, <4>1, ConcatAssociative
      <4>3. <<s>> \o <<d>> = <<s, d>>
        BY TwoInARow
      <4> QED BY <4>2, <4>3
    <3>5. Recorded(w, <<d>>) = Recorded(v, <<s, d>>)
      <4> HIDE DEF s, d
      <4>1. Recorded(v, <<s, d>>) = Record(Record(v, s), d)
        BY RecordedTwo
      <4>2. Recorded(v, <<s>>) = Record(v, s)
        BY RecordedOne
      <4>3. Recorded(w, <<d>>) = Record(w, d)
        BY RecordedOne
      <4> QED BY <4>1, <4>2, <4>3
    <3>6. AllTold(t, n, reached, kinds) = <<s, d>>
      BY <2>telling, <2>4
    <3> HIDE DEF begun, w, u
    <3>7. /\ Told(begun \o <<d>>, Recorded(w, <<d>>), u)
          /\ Continues(begun \o <<d>>, tr)
          /\ k = "ELECTION_STARTED" =>
                \E j \in 1..Len(begun \o <<d>>) :
                   (begun \o <<d>>)[j] = Event("ELECTION_STARTED", n, reached)
      BY <1>5, <2>1, <3>1, <3>2
    <3>8. Goal(<<s, d>>)
      <4> HIDE DEF s
      <4> QED BY <2>2, <3>4, <3>5, <3>7 DEF u, Narrated
    <3> HIDE DEF s, d
    <3> QED BY <3>6, <3>8
  <2> QED BY <2>3, <2>4
<1> QED BY <1>6, <1>7, <1>8

-----------------------------------------------------------------------------
(***************************************************************************)
(* The terms and what is told of them, step by step.                       *)
(***************************************************************************)
Role == {"follower", "candidate", "leader"}

LEMMA TermsInvInit ==
  ASSUME NoneAssumption, TraceInit
  PROVE  TermsInv
<1>1. Len(trace) = 0 /\ trace \in Seq(TraceEvent)
  BY DEF TraceInit
<1>2. \A n \in Node : LastTold(trace, n, Len(trace) + 1) = 0
  BY <1>1 DEF LastTold, ToldBefore
<1>3. live.leader = NONE /\ live.leader_term = 0
  BY DEF TraceInit
<1>4. current_term = [n \in Node |-> 0] /\ traced = current_term
  BY DEF TraceInit
<1>5. Told(trace, live, traced)
  BY <1>1, <1>2, <1>3, <1>4 DEF Told
<1>6. role = [n \in Node |-> "follower"]
  BY DEF TraceInit
<1> QED BY <1>4, <1>5, <1>6 DEF TermsInv

\* A node acts, and narrates it.
LEMMA NodeTells ==
  ASSUME NoneAssumption, TermsInv, NEW n \in Node, NEW reached \in Nat, current_term[n] <= reached,
         current_term' = [current_term EXCEPT ![n] = reached],
         role' \in [Node -> Role], \A m \in Node \ {n} : role'[m] = role[m],
         NEW kinds, Narrate(n, kinds),
         kinds # <<>> =>
            \E k \in Happens :
               /\ kinds = <<k>>
               /\ k = "LEADER_ELECTED" => reached = current_term[n] /\ role[n] # "follower",
         \/ role'[n] = "follower" \/ kinds = <<"ELECTION_STARTED">>
         \/ (role[n] # "follower" /\ reached = current_term[n])
  PROVE  TermsInv' /\ Continues(trace', trace)
<1> DEFINE events == AllTold(traced, n, reached, kinds)
           new == trace \o events
<1>1. current_term \in [Node -> Nat] /\ traced = current_term /\ current_term'[n] = reached
      /\ traced[n] <= reached
  BY DEF TermsInv
<1>2. trace' = new /\ live' = Recorded(live, events) /\ traced' = current_term'
  BY <1>1 DEF Narrate, Emit, Announced, AllTold
<1>3. Told(trace, live, traced)
  BY DEF TermsInv
<1>4. MayHappen(trace, n, reached, kinds)
  BY DEF TermsInv, MayHappen
<1>5. Narrated(new, trace, Recorded(live, events), traced, n, reached, kinds)
  BY <1>1, <1>3, <1>4, TellsAll
<1> HIDE DEF new, events
<1>6. Told(trace', live', traced')
  BY <1>1, <1>2, <1>5 DEF Narrated
<1>7. \A j \in 1..Len(trace) : j \in 1..Len(trace') /\ trace'[j] = trace[j]
  <2>1. Len(trace) \in Nat /\ Len(trace') \in Nat
    BY <1>3, <1>6 DEF Told
  <2> QED BY <1>2, <1>5, <2>1 DEF Continues, Narrated
<1>8. ASSUME NEW m \in Node, role'[m] # "follower"
      PROVE  \E j \in 1..Len(trace') :
                trace'[j] = Event("ELECTION_STARTED", m, current_term'[m])
  <2>1. CASE m = n /\ kinds = <<"ELECTION_STARTED">>
    BY <1>1, <1>2, <1>5, <2>1 DEF Narrated
  <2>2. CASE ~ (m = n /\ kinds = <<"ELECTION_STARTED">>)
    <3>1. role[m] # "follower" /\ current_term'[m] = current_term[m]
      BY <1>1, <1>8, <2>2
    <3>2. PICK j \in 1..Len(trace) :
             trace[j] = Event("ELECTION_STARTED", m, current_term[m])
      BY <3>1 DEF TermsInv
    <3> QED BY <1>7, <3>1, <3>2
  <2> QED BY <2>1, <2>2
<1>9. current_term' \in [Node -> Nat]
  BY <1>1
<1>10. Continues(trace', trace)
  BY <1>2, <1>5 DEF Narrated
<1> QED BY <1>2, <1>6, <1>8, <1>9, <1>10 DEF TermsInv, Role

\* The network narrates a fault, or its end.
LEMMA NetworkTells ==
  ASSUME NoneAssumption, TermsInv, NEW m \in Node \cup {NONE},
         NEW k \in {"NODE_CRASHED", "NODE_RECOVERED", "PARTITION_CREATED", "PARTITION_HEALED"},
         UNCHANGED <<current_term, traced>>,
         role' \in [Node -> Role], \A n \in Node : role'[n] \in {role[n], "follower"},
         Emit(<<Event(k, m, NONE)>>)
  PROVE  TermsInv' /\ Continues(trace', trace)
<1> DEFINE e == Event(k, m, NONE)
<1>1. e.kind = k /\ e.node = m /\ e.term = NONE /\ e \in TraceEvent
  BY DEF Event, TraceEvent
<1>2. trace' = trace \o <<e>> /\ live' = Recorded(live, <<e>>)
  BY DEF Emit
<1>3. Told(trace, live, traced)
  BY DEF TermsInv
<1>4. k \notin {"TERM_CHANGED", "LEADER_ELECTED"}
  OBVIOUS
<1> HIDE DEF e
<1>5. MayBeTold(trace, traced, e) /\ TermsAfter(traced, e) = traced
  BY <1>1, <1>4 DEF MayBeTold, TermsAfter
<1>6. Told(trace', live', traced') /\ Continues(trace', trace)
  BY <1>2, <1>3, <1>5, TellsOne
<1>7. \A j \in 1..Len(trace) : j \in 1..Len(trace') /\ trace'[j] = trace[j]
  <2>1. Len(trace) \in Nat /\ Len(trace') \in Nat
    BY <1>3, <1>6 DEF Told
  <2> QED BY <1>6, <2>1 DEF Continues
<1>8. ASSUME NEW n \in Node, role'[n] # "follower"
      PROVE  \E j \in 1..Len(trace') :
                trace'[j] = Event("ELECTION_STARTED", n, current_term'[n])
  <2>1. role[n] # "follower" /\ current_term'[n] = current_term[n]
    BY <1>8
  <2>2. PICK j \in 1..Len(trace) :
           trace[j] = Event("ELECTION_STARTED", n, current_term[n])
    BY <2>1 DEF TermsInv
  <2> QED BY <1>7, <2>1, <2>2
<1>9. current_term' \in [Node -> Nat] /\ traced' = current_term'
  BY DEF TermsInv
<1> QED BY <1>6, <1>8, <1>9 DEF TermsInv, Role

LEMMA TermsInvNext ==
  ASSUME NoneAssumption, TermsInv, TraceNext
  PROVE  TermsInv' /\ Continues(trace', trace)
<1>1. /\ current_term \in [Node -> Nat] /\ role \in [Node -> Role]
      /\ <<>> # <<"LEADER_ELECTED">>
  BY DEF TermsInv, Role
<1>2. ASSUME NEW n \in Node, StartElection(n)
      PROVE  TermsInv' /\ Continues(trace', trace)
  <2>1. /\ current_term' = [current_term EXCEPT ![n] = current_term[n] + 1]
        /\ role' = [role EXCEPT ![n] = "candidate"]
        /\ Narrate(n, <<"ELECTION_STARTED">>)
    BY <1>2 DEF StartElection
  <2>2. /\ current_term[n] + 1 \in Nat /\ current_term[n] <= current_term[n] + 1
        /\ role' \in [Node -> Role] /\ \A m \in Node \ {n} : role'[m] = role[m]
    BY <1>1, <2>1 DEF Role
  <2>3. \E k \in Happens :
           /\ <<"ELECTION_STARTED">> = <<k>>
           /\ k = "LEADER_ELECTED" =>
                 current_term[n] + 1 = current_term[n] /\ role[n] # "follower"
    BY DEF Happens
  <2> QED BY <2>1, <2>2, <2>3, NodeTells
<1>3. ASSUME NEW n \in Node, WinElection(n)
      PROVE  TermsInv' /\ Continues(trace', trace)
  <2>1. /\ role[n] = "candidate" /\ current_term' = current_term
        /\ role' = [role EXCEPT ![n] = "leader"]
        /\ Narrate(n, <<"LEADER_ELECTED">>)
    BY <1>3 DEF WinElection
  <2>2. /\ current_term[n] \in Nat /\ current_term[n] <= current_term[n]
        /\ current_term' = [current_term EXCEPT ![n] = current_term[n]]
        /\ role' \in [Node -> Role] /\ \A m \in Node \ {n} : role'[m] = role[m]
        /\ role[n] # "follower"
    BY <1>1, <2>1 DEF Role
  <2>3. \E k \in Happens :
           /\ <<"LEADER_ELECTED">> = <<k>>
           /\ k = "LEADER_ELECTED" =>
                 current_term[n] = current_term[n] /\ role[n] # "follower"
    BY <2>2 DEF Happens
  <2> QED BY <2>1, <2>2, <2>3, NodeTells
<1>4. ASSUME NEW n \in Node, NEW m \in Node, NEW t \in 1..TermLimit, GrantVote(n, t, m)
      PROVE  TermsInv' /\ Continues(trace', trace)
  <2>1. /\ t >= current_term[n] /\ current_term' = [current_term EXCEPT ![n] = t]
        /\ role' = IF t > current_term[n] THEN [role EXCEPT ![n] = "follower"] ELSE role
        /\ Narrate(n, <<"VOTE_GRANTED">>)
    BY <1>4 DEF GrantVote
  <2>2. /\ t \in Nat /\ current_term[n] <= t
        /\ role' \in [Node -> Role] /\ \A i \in Node \ {n} : role'[i] = role[i]
        /\ role'[n] = "follower" \/ (role[n] # "follower" /\ t = current_term[n])
    BY <1>1, <2>1 DEF Role
  <2>3. \E k \in Happens :
           /\ <<"VOTE_GRANTED">> = <<k>>
           /\ k = "LEADER_ELECTED" => t = current_term[n] /\ role[n] # "follower"
    BY DEF Happens
  <2> QED BY <2>1, <2>2, <2>3, NodeTells
<1>5. ASSUME NEW n \in Node, NEW m \in Node, Hear(n, m)
      PROVE  TermsInv' /\ Continues(trace', trace)
  <2>1. /\ current_term[m] > current_term[n] \/ current_term[m] = current_term[n]
        /\ current_term' = [current_term EXCEPT ![n] = current_term[m]]
        /\ role' = [role EXCEPT ![n] = "follower"]
        /\ Narrate(n, <<>>)
    BY <1>5 DEF Hear
  <2>2. /\ current_term[m] \in Nat /\ current_term[n] <= current_term[m]
        /\ role' \in [Node -> Role] /\ \A i \in Node \ {n} : role'[i] = role[i]
        /\ role'[n] = "follower"
    BY <1>1, <2>1 DEF Role
  <2> QED BY <2>1, <2>2, NodeTells
<1>6. ASSUME NEW n \in Node, Crash(n) \/ Recover(n)
      PROVE  TermsInv' /\ Continues(trace', trace)
  <2>1. PICK k \in {"NODE_CRASHED", "NODE_RECOVERED"} : Emit(<<Event(k, n, NONE)>>)
    BY <1>6 DEF Crash, Recover
  <2>2. /\ UNCHANGED <<current_term, traced>>
        /\ role' = role \/ role' = [role EXCEPT ![n] = "follower"]
    BY <1>6 DEF Crash, Recover, nodeVars
  <2>3. role' \in [Node -> Role] /\ \A i \in Node : role'[i] \in {role[i], "follower"}
    BY <1>1, <2>2 DEF Role
  <2> QED BY <2>1, <2>2, <2>3, NetworkTells
<1>7. ASSUME (\E group \in Splits : Partition(group)) \/ Heal
      PROVE  TermsInv' /\ Continues(trace', trace)
  <2>1. PICK k \in {"PARTITION_CREATED", "PARTITION_HEALED"} : Emit(<<Event(k, NONE, NONE)>>)
    BY <1>7 DEF Partition, Heal
  <2>2. UNCHANGED <<current_term, traced>> /\ role' = role
    BY <1>7 DEF Partition, Heal, nodeVars
  <2>3. role' \in [Node -> Role] /\ \A i \in Node : role'[i] \in {role[i], "follower"}
    BY <1>1, <2>2
  <2> QED BY <2>1, <2>2, <2>3, NetworkTells
<1> QED BY <1>2, <1>3, <1>4, <1>5, <1>6, <1>7 DEF TraceNext

LEMMA TermsInvAlways ==
  ASSUME NoneAssumption
  PROVE  TraceSpec => []TermsInv
<1>1. TraceInit => TermsInv
  BY TermsInvInit
<1>2. TermsInv /\ [TraceNext]_traceVars => TermsInv'
  <2> SUFFICES ASSUME TermsInv, [TraceNext]_traceVars PROVE TermsInv'
    OBVIOUS
  <2>1. CASE TraceNext
    BY <2>1, TermsInvNext
  <2>2. CASE UNCHANGED traceVars
    BY <2>2 DEF TermsInv, traceVars, nodeVars
  <2> QED BY <2>1, <2>2
<1> QED BY <1>1, <1>2, PTL DEF TraceSpec

-----------------------------------------------------------------------------
(***************************************************************************)
(* So the readers of a trace are told the terms.                           *)
(***************************************************************************)
LEMMA ElectionIsTimed ==
  ASSUME NEW i \in 1..Len(trace), trace \in Seq(TraceEvent),
         trace[i].kind = "LEADER_ELECTED",
         \E j \in 1..i : trace[j] = Event("ELECTION_STARTED", trace[i].node, trace[i].term)
  PROVE  \E j \in 1..i :
            /\ <<j, i>> \in election_durations
            /\ \A k \in 1..i :
                  trace[k] = Event("ELECTION_STARTED", trace[i].node, trace[i].term) => j <= k
<1> DEFINE t == trace[i].term
           S == {j \in 1..i : trace[j].kind = "ELECTION_STARTED" /\ trace[j].term = t}
<1>1. S \in SUBSET Nat
  OBVIOUS
<1>2. \A k \in 1..i :
         trace[k] = Event("ELECTION_STARTED", trace[i].node, trace[i].term) => k \in S
  BY DEF Event
<1>3. S # {}
  BY <1>2
<1>4. Min(S) \in S /\ \A k \in S : Min(S) <= k
  <2> HIDE DEF S
  <2> QED BY <1>1, <1>3, MinIsLeast
<1> DEFINE j == Min(S)
<1>5. j \in 1..i /\ j \in S /\ \A k \in S : j <= k
  BY <1>4
<1> HIDE DEF j
<1>6. j \in Started(t, i)
  <2>1. \A k \in 1..j - 1 : trace[k].kind = "ELECTION_STARTED" => trace[k].term # t
    <3> SUFFICES ASSUME NEW k \in 1..j - 1, trace[k].kind = "ELECTION_STARTED",
                        trace[k].term = t
                 PROVE  FALSE
      OBVIOUS
    <3>1. k \in 1..i /\ ~ (j <= k)
      BY <1>5
    <3> QED BY <1>5, <3>1
  <2> QED BY <1>5, <2>1 DEF Started
<1>7. <<j, i>> \in election_durations
  <2>1. Len(trace) \in Nat /\ DOMAIN trace = 1..Len(trace)
    OBVIOUS
  <2>2. j \in DOMAIN trace /\ i \in DOMAIN trace
    BY <1>5, <2>1
  <2>3. <<j, i>> \in (DOMAIN trace) \X (DOMAIN trace) /\ <<j, i>>[1] = j /\ <<j, i>>[2] = i
    BY <2>2
  <2> HIDE DEF S
  <2> QED BY <1>6, <2>3 DEF election_durations
<1> HIDE DEF S, t
<1> QED BY <1>2, <1>5, <1>7

LEMMA ToldIsRight ==
  ASSUME TermsInv
  PROVE  TermsAreTold
<1>1. trace \in Seq(TraceEvent) /\ Len(trace) \in Nat /\ DOMAIN trace = 1..Len(trace)
  BY DEF TermsInv, Told
<1>2. TermIsAnnounced
  <2> SUFFICES ASSUME NEW i \in 1..Len(trace), trace[i].term # NONE
               PROVE  IF trace[i].kind = "TERM_CHANGED"
                      THEN trace[i].term > LastTold(trace, trace[i].node, i)
                      ELSE trace[i].term = LastTold(trace, trace[i].node, i)
    BY <1>1 DEF TermIsAnnounced, LastTold, ToldBefore
  <2> QED BY DEF TermsInv, Told
<1>3. NamedIsNotDeposed
  BY <1>1 DEF NamedIsNotDeposed, TermsInv, Told
<1>4. EveryElectionIsTimed
  <2> SUFFICES ASSUME NEW i \in 1..Len(trace), trace[i].kind = "LEADER_ELECTED"
               PROVE  \E j \in 1..i :
                         /\ <<j, i>> \in election_durations
                         /\ \A k \in 1..i :
                               trace[k] = Event("ELECTION_STARTED", trace[i].node, trace[i].term)
                                  => j <= k
    BY <1>1 DEF EveryElectionIsTimed
  <2>1. \E j \in 1..i : trace[j] = Event("ELECTION_STARTED", trace[i].node, trace[i].term)
    BY DEF TermsInv, Told
  <2> QED BY <1>1, <2>1, ElectionIsTimed
<1> QED BY <1>2, <1>3, <1>4 DEF TermsAreTold

\* Whatever crashes, and however the network is split: a node's terms are told before
\* what happens in them, the live view never names a deposed leader, and every election
\* won is timed, in clusters of any size (raft/node.py, experiments/metrics.py).
THEOREM TermsAreToldRight ==
  ASSUME NoneAssumption
  PROVE  TraceSpec => []TermsAreTold
<1>1. TermsInv => TermsAreTold
  BY ToldIsRight
<1> QED BY <1>1, TermsInvAlways, PTL

-----------------------------------------------------------------------------
(***************************************************************************)
(* What is found of the outages, one event at a time.                      *)
(***************************************************************************)
Nothing == [leader |-> NONE, lost_at |-> 0, found |-> {}]

Finds(f, tr, upto) ==
    f = [i \in 0..upto |-> IF i = 0 THEN Nothing ELSE Followed(f[i - 1], tr[i], i)]

LEMMA FindsExist ==
  ASSUME NEW tr
  PROVE  \A upto \in Nat : \E f : Finds(f, tr, upto)
<1> DEFINE S == {k \in Nat : \E f : Finds(f, tr, k)}
<1>1. 0 \in S
  <2> DEFINE f == [i \in 0..0 |-> Nothing]
  <2>1. f = [i \in 0..0 |-> IF i = 0 THEN Nothing ELSE Followed(f[i - 1], tr[i], i)]
    OBVIOUS
  <2> HIDE DEF f
  <2>2. Finds(f, tr, 0)
    BY <2>1 DEF Finds
  <2> QED BY <2>2
<1>2. ASSUME NEW k \in S PROVE k + 1 \in S
  <2>1. PICK f : Finds(f, tr, k)
    OBVIOUS
  <2>2. k \in Nat
    OBVIOUS
  <2> DEFINE g == [i \in 0..(k + 1) |-> IF i <= k THEN f[i] ELSE Followed(f[k], tr[k + 1], k + 1)]
  <2>3. \A i \in 0..(k + 1) :
          g[i] = IF i = 0 THEN Nothing ELSE Followed(g[i - 1], tr[i], i)
    <3> TAKE i \in 0..(k + 1)
    <3>1. CASE i = 0
      <4>1. i \in 0..k /\ i <= k
        BY <2>2, <3>1
      <4>2. g[i] = f[i]
        BY <4>1
      <4>3. f[i] = Nothing
        BY <2>1, <3>1, <4>1 DEF Finds
      <4> QED BY <3>1, <4>2, <4>3
    <3>2. CASE i # 0 /\ i <= k
      <4>1. i \in 0..k /\ i - 1 \in 0..(k + 1) /\ i - 1 <= k
        BY <2>2, <3>2
      <4>2. g[i] = f[i] /\ g[i - 1] = f[i - 1]
        BY <3>2, <4>1
      <4>3. f[i] = Followed(f[i - 1], tr[i], i)
        BY <2>1, <3>2, <4>1 DEF Finds
      <4> QED BY <3>2, <4>2, <4>3
    <3>3. CASE i = k + 1
      <4>1. k \in 0..(k + 1) /\ ~ (k + 1 <= k) /\ i - 1 = k /\ i # 0
        BY <2>2, <3>3
      <4>2. g[k] = f[k]
        BY <2>2, <4>1
      <4>3. g[i] = Followed(f[k], tr[k + 1], k + 1)
        BY <3>3, <4>1
      <4> QED BY <3>3, <4>1, <4>2, <4>3
    <3> QED BY <2>2, <3>1, <3>2, <3>3
  <2>4. g = [i \in 0..(k + 1) |-> g[i]]
    OBVIOUS
  <2> HIDE DEF g
  <2>5. g = [i \in 0..(k + 1) |-> IF i = 0 THEN Nothing ELSE Followed(g[i - 1], tr[i], i)]
    BY <2>3, <2>4
  <2>6. Finds(g, tr, k + 1)
    BY <2>5 DEF Finds
  <2> QED BY <2>2, <2>6
<1> HIDE DEF S
<1>3. S = Nat
  <2>1. S \in SUBSET Nat
    BY DEF S
  <2> QED BY <1>1, <1>2, <2>1, CountingUp
<1> QED BY <1>3 DEF S

LEMMA OutagesAre ==
  ASSUME NEW tr \in Seq(TraceEvent)
  PROVE  \E f : Finds(f, tr, Len(tr)) /\ Outages(tr) = f[Len(tr)]
<1> DEFINE f == CHOOSE g : Finds(g, tr, Len(tr))
<1>1. Finds(f, tr, Len(tr))
  BY FindsExist
<1>2. Outages(tr) = f[Len(tr)]
  BY DEF Outages, Finds, Nothing
<1> QED BY <1>1, <1>2

LEMMA OutagesNone ==
  Outages(<<>>) = Nothing
<1>1. <<>> \in Seq(TraceEvent) /\ Len(<<>>) = 0 /\ 0 \in 0..0
  OBVIOUS
<1>2. PICK f : Finds(f, <<>>, Len(<<>>)) /\ Outages(<<>>) = f[Len(<<>>)]
  BY <1>1, OutagesAre
<1>3. f[0] = Nothing
  BY <1>1, <1>2 DEF Finds
<1> QED BY <1>1, <1>2, <1>3

LEMMA OutagesNext ==
  ASSUME NEW tr \in Seq(TraceEvent), NEW e \in TraceEvent
  PROVE  Outages(Append(tr, e)) = Followed(Outages(tr), e, Len(tr) + 1)
<1> DEFINE new == Append(tr, e)
           k == Len(tr)
<1>1. /\ new \in Seq(TraceEvent) /\ Len(new) = k + 1 /\ new[k + 1] = e /\ k \in Nat
      /\ \A i \in 1..k : new[i] = tr[i]
  OBVIOUS
<1>2. PICK f : Finds(f, tr, k) /\ Outages(tr) = f[k]
  BY OutagesAre
<1>3. PICK g : Finds(g, new, k + 1) /\ Outages(new) = g[k + 1]
  <2> HIDE DEF new, k
  <2> QED BY <1>1, OutagesAre
<1> HIDE DEF new, k
<1> DEFINE S == {i \in Nat : i <= k => f[i] = g[i]}
<1>4. 0 \in S
  <2>1. 0 \in 0..k /\ 0 \in 0..(k + 1)
    BY <1>1
  <2>2. f[0] = Nothing /\ g[0] = Nothing
    BY <1>2, <1>3, <2>1 DEF Finds
  <2> QED BY <2>2
<1>5. ASSUME NEW i \in S PROVE i + 1 \in S
  <2> SUFFICES ASSUME i + 1 <= k PROVE f[i + 1] = g[i + 1]
    BY <1>5
  <2>1. /\ i \in Nat /\ i <= k /\ i + 1 \in 0..k /\ i + 1 \in 0..(k + 1) /\ i + 1 # 0
        /\ (i + 1) - 1 = i /\ i + 1 \in 1..k
    BY <1>1
  <2>2. f[i + 1] = Followed(f[(i + 1) - 1], tr[i + 1], i + 1)
    BY <1>2, <2>1 DEF Finds
  <2>3. g[i + 1] = Followed(g[(i + 1) - 1], new[i + 1], i + 1)
    BY <1>3, <2>1 DEF Finds
  <2> QED BY <1>1, <2>1, <2>2, <2>3
<1> HIDE DEF S
<1>6. S = Nat
  <2>1. S \in SUBSET Nat
    BY DEF S
  <2> QED BY <1>4, <1>5, <2>1, CountingUp
<1>7. f[k] = g[k]
  BY <1>1, <1>6 DEF S
<1>8. g[k + 1] = Followed(g[(k + 1) - 1], new[k + 1], k + 1)
  <2>1. k + 1 \in 0..(k + 1) /\ k + 1 # 0
    BY <1>1
  <2> QED BY <1>3, <2>1 DEF Finds
<1>9. (k + 1) - 1 = k
  BY <1>1
<1> QED BY <1>1, <1>2, <1>3, <1>7, <1>8, <1>9 DEF new, k

\* Most events are of no concern to it.
QuietKind == {"TERM_CHANGED", "ELECTION_STARTED", "VOTE_GRANTED", "NODE_RECOVERED"}

LEMMA OutagesSame ==
  ASSUME NEW tr \in Seq(TraceEvent), NEW e \in TraceEvent, e.kind \in QuietKind,
         Outages(tr) \in [leader : Node \cup {NONE}, lost_at : Nat, found : SUBSET (Nat \X Nat)]
  PROVE  Outages(Append(tr, e)) = Outages(tr)
<1> DEFINE acc == Outages(tr)
<1>1. Outages(Append(tr, e)) = Followed(acc, e, Len(tr) + 1)
  BY OutagesNext
<1> HIDE DEF acc
<1>2. e.kind \notin {"LEADER_ELECTED", "NODE_CRASHED", "PARTITION_CREATED"}
  BY DEF QuietKind
<1>3. LostAt(acc, e, Len(tr) + 1) = acc.lost_at
  BY <1>2 DEF LostAt
<1>4. [acc EXCEPT !.lost_at = acc.lost_at] = acc
  BY DEF acc
<1> QED BY <1>1, <1>2, <1>3, <1>4 DEF Followed, acc

\* What is left alone by events of no concern.
ElectedAt(tr) == {i \in 1..Len(tr) : tr[i].kind = "LEADER_ELECTED"}

AccType == [leader : Node \cup {NONE}, lost_at : Nat, found : SUBSET (Nat \X Nat)]

Unconcerned(new, tr) ==
    /\ new \in Seq(TraceEvent) /\ Continues(new, tr)
    /\ ElectedAt(new) = ElectedAt(tr) /\ Outages(new) = Outages(tr)

LEMMA QuietOne ==
  ASSUME NEW tr \in Seq(TraceEvent), NEW e \in TraceEvent, e.kind \in QuietKind,
         Outages(tr) \in AccType
  PROVE  Unconcerned(tr \o <<e>>, tr)
<1> DEFINE new == Append(tr, e)
<1>1. tr \o <<e>> = new
  OBVIOUS
<1>2. /\ new \in Seq(TraceEvent) /\ Len(new) = Len(tr) + 1 /\ new[Len(tr) + 1] = e
      /\ Len(tr) \in Nat /\ \A i \in 1..Len(tr) : new[i] = tr[i]
  OBVIOUS
<1>3. Outages(new) = Outages(tr)
  BY OutagesSame DEF AccType
<1> HIDE DEF new
<1>4. Continues(new, tr)
  BY <1>2 DEF Continues
<1>5. ElectedAt(new) = ElectedAt(tr)
  <2>1. e.kind # "LEADER_ELECTED"
    BY DEF QuietKind
  <2>2. \A i : i \in 1..Len(new) <=> (i \in 1..Len(tr) \/ i = Len(tr) + 1)
    BY <1>2
  <2> QED BY <1>2, <2>1, <2>2 DEF ElectedAt
<1> QED BY <1>1, <1>2, <1>3, <1>4, <1>5 DEF Unconcerned

LEMMA NarratesQuietly ==
  ASSUME NoneAssumption, TermsInv, Outages(trace) \in AccType, NEW n \in Node,
         current_term'[n] \in Nat, NEW kinds, Narrate(n, kinds),
         kinds # <<>> => \E k \in Happens \ {"LEADER_ELECTED"} : kinds = <<k>>
  PROVE  Unconcerned(trace', trace)
<1> DEFINE reached == current_term'[n]
           s == Event("TERM_CHANGED", n, reached)
<1>1. trace \in Seq(TraceEvent) /\ Len(trace) \in Nat
  BY DEF TermsInv, Told
<1>2. trace' = trace \o AllTold(traced, n, reached, kinds)
  BY DEF Narrate, Emit, Announced, AllTold
<1>3. \A k \in QuietKind : Event(k, n, reached) \in TraceEvent /\ Event(k, n, reached).kind = k
  BY DEF Event, TraceEvent, QuietKind
<1>4. s \in TraceEvent /\ s.kind \in QuietKind
  <2>1. "TERM_CHANGED" \in QuietKind
    BY DEF QuietKind
  <2> QED BY <1>3, <2>1
<1>5. Unconcerned(trace \o <<s>>, trace)
  <2> HIDE DEF s
  <2> QED BY <1>1, <1>4, QuietOne
<1>6. CASE kinds = <<>>
  <2>1. AllTold(traced, n, reached, kinds) = IF reached # traced[n] THEN <<s>> ELSE <<>>
    BY <1>6, AllToldNone
  <2>2. trace \o <<>> = trace /\ Continues(trace, trace)
    BY <1>1, ConcatEmptySeq DEF Continues
  <2>3. Unconcerned(trace, trace)
    BY <1>1, <2>2 DEF Unconcerned
  <2> HIDE DEF s, reached
  <2> QED BY <1>2, <1>5, <2>1, <2>2, <2>3
<1>7. CASE kinds # <<>>
  <2>1. PICK k \in Happens \ {"LEADER_ELECTED"} : kinds = <<k>>
    BY <1>7
  <2> DEFINE d == Event(k, n, reached)
  <2>2. AllTold(traced, n, reached, <<k>>) = IF reached # traced[n] THEN <<s, d>> ELSE <<d>>
    BY AllToldOne
  <2>3. k \in QuietKind
    BY DEF Happens, QuietKind
  <2>4. d \in TraceEvent /\ d.kind \in QuietKind
    BY <1>3, <2>3
  <2> HIDE DEF s, d, reached
  <2>5. CASE reached = traced[n]
    <3>1. trace' = trace \o <<d>>
      BY <1>2, <2>1, <2>2, <2>5
    <3> QED BY <1>1, <2>4, <3>1, QuietOne
  <2>6. CASE reached # traced[n]
    <3> DEFINE begun == trace \o <<s>>
    <3>1. begun \in Seq(TraceEvent) /\ Outages(begun) \in AccType /\ Len(begun) \in Nat
      BY <1>5 DEF Unconcerned
    <3>2. trace' = begun \o <<d>>
      <4>1. <<s>> \in Seq(TraceEvent) /\ <<d>> \in Seq(TraceEvent)
        BY <1>4, <2>4
      <4>2. begun \o <<d>> = trace \o (<<s>> \o <<d>>)
        BY <1>1, <4>1, ConcatAssociative
      <4>3. <<s>> \o <<d>> = <<s, d>>
        BY TwoInARow
      <4> QED BY <1>2, <2>1, <2>2, <2>6, <4>2, <4>3
    <3> HIDE DEF begun
    <3>3. Unconcerned(begun \o <<d>>, begun)
      BY <2>4, <3>1, QuietOne
    <3>4. Unconcerned(begun, trace)
      BY <1>5 DEF begun
    <3> DEFINE new == begun \o <<d>>
    <3>5. Len(new) \in Nat /\ new \in Seq(TraceEvent)
      BY <3>3 DEF Unconcerned
    <3> HIDE DEF new
    <3>6. Unconcerned(new, begun)
      BY <3>3 DEF new
    <3>7. \A i \in 1..Len(trace) : i \in 1..Len(begun)
      BY <1>1, <3>1, <3>4 DEF Unconcerned, Continues
    <3>8. Continues(new, trace)
      BY <1>1, <3>1, <3>4, <3>5, <3>6, <3>7 DEF Unconcerned, Continues
    <3>9. Unconcerned(new, trace)
      BY <3>4, <3>5, <3>6, <3>8 DEF Unconcerned
    <3> QED BY <3>2, <3>9 DEF new
  <2> QED BY <2>5, <2>6
<1> QED BY <1>6, <1>7

-----------------------------------------------------------------------------
(***************************************************************************)
(* Votes, elections and the node last elected.  Without partitions nobody  *)
(* is cut off, and whoever was elected had a majority in its term.         *)
(***************************************************************************)
Reached(t) == {v \in Node : t <= current_term[v]}

VotesInv ==
    /\ cut = {} /\ granted \subseteq Nat \X Node \X Node
    /\ \A g \in granted : g[1] <= current_term[g[3]]
    /\ \A i \in ElectedAt(trace) : Majority(Reached(trace[i].term))
    /\ \A n \in Node :
          role[n] = "leader" =>
             \E i \in ElectedAt(trace) : trace[i] = Event("LEADER_ELECTED", n, current_term[n])

\* Once the node last elected is lost, it does not lead.
LastInv ==
    LET acc == Outages(trace)
    IN  /\ acc \in AccType /\ acc.lost_at <= Len(trace)
        /\ acc.leader # NONE =>
              \E i \in ElectedAt(trace) :
                 trace[i].node = acc.leader /\ \A j \in ElectedAt(trace) : j <= i
        /\ acc.lost_at # 0 =>
              acc.leader # NONE /\ (acc.leader \in crashed \/ role[acc.leader] # "leader")

\* Majorities stay majorities, and two of them share a node.
LEMMA MoreIsMajority ==
  ASSUME IsFiniteSet(Node), NEW S \in SUBSET Node, NEW T \in SUBSET Node, S \subseteq T,
         Majority(S)
  PROVE  Majority(T)
<1>1. IsFiniteSet(T)
  BY FS_Subset
<1>2. IsFiniteSet(S)
  BY FS_Subset
<1>3. Cardinality(S) <= Cardinality(T)
  BY <1>1, FS_Subset
<1>4. Cardinality(S) \in Nat /\ Cardinality(T) \in Nat /\ Cardinality(Node) \in Nat
  BY <1>1, <1>2, FS_CardinalityType
<1> QED BY <1>3, <1>4 DEF Majority

LEMMA TwoMajoritiesMeet ==
  ASSUME IsFiniteSet(Node), NEW S \in SUBSET Node, NEW T \in SUBSET Node,
         Majority(S), Majority(T)
  PROVE  S \cap T # {}
<1> SUFFICES ASSUME S \cap T = {} PROVE FALSE
  OBVIOUS
<1>1. IsFiniteSet(S) /\ IsFiniteSet(T) /\ IsFiniteSet(S \cup T)
  <2>1. S \cup T \subseteq Node
    OBVIOUS
  <2> QED BY <2>1, FS_Subset
<1>2. Cardinality(S \cup T) = Cardinality(S) + Cardinality(T) - Cardinality(S \cap T)
  BY <1>1, FS_Union
<1>3. Cardinality(S \cap T) = 0
  BY FS_EmptySet
<1>4. Cardinality(S \cup T) <= Cardinality(Node)
  <2>1. S \cup T \subseteq Node
    OBVIOUS
  <2> QED BY <2>1, FS_Subset
<1>5. /\ Cardinality(S) \in Nat /\ Cardinality(T) \in Nat /\ Cardinality(Node) \in Nat
      /\ Cardinality(S \cup T) \in Nat
  BY <1>1, FS_CardinalityType
<1>6. Cardinality(S \cup T) = Cardinality(S) + Cardinality(T)
  BY <1>2, <1>3, <1>5
<1>7. 2 * Cardinality(S) > Cardinality(Node) /\ 2 * Cardinality(T) > Cardinality(Node)
  BY DEF Majority
<1> QED BY <1>4, <1>5, <1>6, <1>7

LEMMA VotesKept ==
  ASSUME IsFiniteSet(Node), TermsInv, TermsInv', VotesInv, Continues(trace', trace),
         cut' = {}, granted' \subseteq Nat \X Node \X Node,
         \A g \in granted' : g[1] <= current_term'[g[3]],
         \A n \in Node : current_term[n] <= current_term'[n],
         \A i \in ElectedAt(trace') :
            i \in ElectedAt(trace) \/ Majority({v \in Node : trace'[i].term <= current_term'[v]}),
         \A n \in Node :
            role'[n] = "leader" =>
               \/ role[n] = "leader" /\ current_term'[n] = current_term[n]
               \/ \E i \in ElectedAt(trace') :
                     trace'[i] = Event("LEADER_ELECTED", n, current_term'[n])
  PROVE  VotesInv'
<1>1. /\ trace \in Seq(TraceEvent) /\ trace' \in Seq(TraceEvent)
      /\ Len(trace) \in Nat /\ Len(trace') \in Nat
      /\ current_term \in [Node -> Nat] /\ current_term' \in [Node -> Nat]
  BY DEF TermsInv, Told
<1>2. \A i \in 1..Len(trace) : i \in 1..Len(trace') /\ trace'[i] = trace[i]
  BY <1>1 DEF Continues
<1>3. \A i \in ElectedAt(trace) : i \in ElectedAt(trace') /\ trace'[i] = trace[i]
  BY <1>2 DEF ElectedAt
<1>4. ASSUME NEW i \in ElectedAt(trace')
      PROVE  Majority({v \in Node : trace'[i].term <= current_term'[v]})
  <2>1. CASE i \in ElectedAt(trace)
    <3> DEFINE t == trace[i].term
    <3>1. trace[i].kind = "LEADER_ELECTED" /\ i \in 1..Len(trace) /\ trace[i] \in TraceEvent
      BY <1>1, <2>1 DEF ElectedAt
    <3>2. t \in Nat
      <4>1. t # NONE
        BY <3>1 DEF TermsInv, Told
      <4> QED BY <3>1, <4>1 DEF TraceEvent
    <3>3. Majority(Reached(t))
      BY <2>1 DEF VotesInv
    <3> HIDE DEF t
    <3>4. Reached(t) \subseteq {v \in Node : t <= current_term'[v]}
      BY <1>1, <3>2 DEF Reached
    <3>5. Majority({v \in Node : t <= current_term'[v]})
      <4>1. Reached(t) \in SUBSET Node
        BY DEF Reached
      <4> DEFINE T == {v \in Node : t <= current_term'[v]}
      <4>2. T \in SUBSET Node /\ Reached(t) \subseteq T
        BY <3>4
      <4> HIDE DEF T
      <4>3. Majority(T)
        BY <3>3, <4>1, <4>2, MoreIsMajority
      <4> QED BY <4>3 DEF T
    <3> QED BY <1>3, <2>1, <3>5 DEF t
  <2>2. CASE i \notin ElectedAt(trace)
    BY <2>2
  <2> QED BY <2>1, <2>2
<1>5. ASSUME NEW n \in Node, role'[n] = "leader"
      PROVE  \E i \in ElectedAt(trace') :
                trace'[i] = Event("LEADER_ELECTED", n, current_term'[n])
  <2>1. CASE role[n] = "leader" /\ current_term'[n] = current_term[n]
    <3>1. PICK i \in ElectedAt(trace) : trace[i] = Event("LEADER_ELECTED", n, current_term[n])
      BY <2>1 DEF VotesInv
    <3> QED BY <1>3, <2>1, <3>1
  <2> QED BY <1>5, <2>1
<1> QED BY <1>4, <1>5 DEF VotesInv, Reached

\* A step that says nothing of leaders makes none and brings none back.
LEMMA LastKept ==
  ASSUME TermsInv, LastInv, Unconcerned(trace', trace),
         \A n \in Node : n \in crashed \/ role[n] # "leader" =>
                            n \in crashed' \/ role'[n] # "leader"
  PROVE  LastInv'
<1> DEFINE acc == Outages(trace)
<1>1. acc \in AccType /\ acc.lost_at <= Len(trace) /\ acc.lost_at \in Nat
  BY DEF LastInv, AccType
<1>2. /\ Len(trace) \in Nat /\ Len(trace') \in Nat /\ Len(trace) <= Len(trace')
      /\ Outages(trace') = acc /\ ElectedAt(trace') = ElectedAt(trace)
      /\ \A i \in ElectedAt(trace) : trace'[i] = trace[i]
  BY DEF Unconcerned, Continues, ElectedAt, TermsInv, Told
<1>3. acc.leader # NONE =>
         \E i \in ElectedAt(trace) :
            trace[i].node = acc.leader /\ \A j \in ElectedAt(trace) : j <= i
  BY DEF LastInv
<1>4. acc.lost_at # 0 =>
         acc.leader # NONE /\ (acc.leader \in crashed \/ role[acc.leader] # "leader")
  BY DEF LastInv
<1>5. acc.lost_at # 0 =>
         acc.leader # NONE /\ (acc.leader \in crashed' \/ role'[acc.leader] # "leader")
  <2>1. acc.leader # NONE => acc.leader \in Node
    BY <1>1 DEF AccType
  <2> QED BY <1>4, <2>1
<1>6. acc.lost_at <= Len(trace')
  BY <1>1, <1>2
<1> HIDE DEF acc
<1> QED BY <1>1, <1>2, <1>3, <1>5, <1>6 DEF LastInv

LEMMA LeadInvInit ==
  ASSUME IsFiniteSet(Node), NoneAssumption, TraceInit
  PROVE  VotesInv /\ LastInv
<1>1. trace = <<>> /\ Len(trace) = 0 /\ role = [n \in Node |-> "follower"]
  BY DEF TraceInit
<1>2. ElectedAt(trace) = {}
  BY <1>1 DEF ElectedAt
<1>3. Outages(trace) = Nothing
  BY <1>1, OutagesNone
<1>4. VotesInv
  BY <1>1, <1>2 DEF VotesInv, TraceInit
<1>5. LastInv
  BY <1>1, <1>2, <1>3 DEF LastInv, AccType, Nothing
<1> QED BY <1>4, <1>5

LEMMA StartKeeps ==
  ASSUME IsFiniteSet(Node), NoneAssumption, TermsInv, TermsInv', VotesInv, LastInv,
         NEW n \in Node, StartElection(n)
  PROVE  VotesInv' /\ LastInv' /\ Unconcerned(trace', trace)
<1>1. /\ current_term \in [Node -> Nat] /\ current_term' \in [Node -> Nat]
      /\ role \in [Node -> Role]
  BY DEF TermsInv, Role
<1>2. /\ current_term' = [current_term EXCEPT ![n] = current_term[n] + 1]
      /\ role' = [role EXCEPT ![n] = "candidate"]
      /\ granted' = granted \cup {<<current_term[n] + 1, n, n>>}
      /\ crashed' = crashed /\ cut' = cut
      /\ Narrate(n, <<"ELECTION_STARTED">>)
  BY DEF StartElection
<1>3. Unconcerned(trace', trace)
  <2>1. "ELECTION_STARTED" \in Happens \ {"LEADER_ELECTED"}
    BY DEF Happens
  <2>2. current_term'[n] \in Nat /\ Outages(trace) \in AccType
    BY <1>1 DEF LastInv
  <2> QED BY <1>2, <2>1, <2>2, NarratesQuietly
<1>4. \A m \in Node :
         /\ current_term[m] <= current_term'[m]
         /\ role'[m] = "leader" => role[m] = "leader" /\ current_term'[m] = current_term[m]
  BY <1>1, <1>2
<1>5. granted' \subseteq Nat \X Node \X Node
  BY <1>1, <1>2 DEF VotesInv
<1>6. \A g \in granted' : g[1] <= current_term'[g[3]]
  <2> TAKE g \in granted'
  <2>1. CASE g \in granted
    <3>1. g[3] \in Node /\ g[1] \in Nat /\ g[1] <= current_term[g[3]]
      BY <2>1 DEF VotesInv
    <3> QED BY <1>1, <1>4, <3>1
  <2>2. CASE g = <<current_term[n] + 1, n, n>>
    BY <1>1, <1>2, <2>2
  <2> QED BY <1>2, <2>1, <2>2
<1>7. VotesInv'
  <2>1. cut' = {} /\ Continues(trace', trace) /\ ElectedAt(trace') = ElectedAt(trace)
    BY <1>2, <1>3 DEF VotesInv, Unconcerned
  <2> QED BY <1>4, <1>5, <1>6, <2>1, VotesKept
<1>8. LastInv'
  BY <1>2, <1>3, <1>4, LastKept
<1> QED BY <1>3, <1>7, <1>8

LEMMA GrantKeeps ==
  ASSUME IsFiniteSet(Node), NoneAssumption, TermsInv, TermsInv', VotesInv, LastInv,
         NEW n \in Node, NEW m \in Node, NEW t \in 1..TermLimit, GrantVote(n, t, m)
  PROVE  VotesInv' /\ LastInv' /\ Unconcerned(trace', trace)
<1>1. /\ current_term \in [Node -> Nat] /\ current_term' \in [Node -> Nat]
      /\ role \in [Node -> Role] /\ t \in Nat
  BY DEF TermsInv, Role
<1>2. /\ t >= current_term[n] /\ current_term' = [current_term EXCEPT ![n] = t]
      /\ role' = IF t > current_term[n] THEN [role EXCEPT ![n] = "follower"] ELSE role
      /\ granted' = granted \cup {<<t, m, n>>}
      /\ crashed' = crashed /\ cut' = cut
      /\ Narrate(n, <<"VOTE_GRANTED">>)
  BY DEF GrantVote
<1>3. Unconcerned(trace', trace)
  <2>1. "VOTE_GRANTED" \in Happens \ {"LEADER_ELECTED"}
    BY DEF Happens
  <2>2. current_term'[n] \in Nat /\ Outages(trace) \in AccType
    BY <1>1 DEF LastInv
  <2> QED BY <1>2, <2>1, <2>2, NarratesQuietly
<1>4. \A i \in Node :
         /\ current_term[i] <= current_term'[i]
         /\ role'[i] = "leader" => role[i] = "leader" /\ current_term'[i] = current_term[i]
  BY <1>1, <1>2
<1>5. granted' \subseteq Nat \X Node \X Node
  BY <1>1, <1>2 DEF VotesInv
<1>6. \A g \in granted' : g[1] <= current_term'[g[3]]
  <2> TAKE g \in granted'
  <2>1. CASE g \in granted
    <3>1. g[3] \in Node /\ g[1] \in Nat /\ g[1] <= current_term[g[3]]
      BY <2>1 DEF VotesInv
    <3> QED BY <1>1, <1>4, <3>1
  <2>2. CASE g = <<t, m, n>>
    BY <1>1, <1>2, <2>2
  <2> QED BY <1>2, <2>1, <2>2
<1>7. VotesInv'
  <2>1. cut' = {} /\ Continues(trace', trace) /\ ElectedAt(trace') = ElectedAt(trace)
    BY <1>2, <1>3 DEF VotesInv, Unconcerned
  <2> QED BY <1>4, <1>5, <1>6, <2>1, VotesKept
<1>8. LastInv'
  BY <1>2, <1>3, <1>4, LastKept
<1> QED BY <1>3, <1>7, <1>8

LEMMA HearKeeps ==
  ASSUME IsFiniteSet(Node), NoneAssumption, TermsInv, TermsInv', VotesInv, LastInv,
         NEW n \in Node, NEW m \in Node, Hear(n, m)
  PROVE  VotesInv' /\ LastInv' /\ Unconcerned(trace', trace)
<1>1. /\ current_term \in [Node -> Nat] /\ current_term' \in [Node -> Nat]
      /\ role \in [Node -> Role]
  BY DEF TermsInv, Role
<1>2. /\ current_term[m] > current_term[n] \/ current_term[m] = current_term[n]
      /\ current_term' = [current_term EXCEPT ![n] = current_term[m]]
      /\ role' = [role EXCEPT ![n] = "follower"]
      /\ granted' = granted /\ crashed' = crashed /\ cut' = cut
      /\ Narrate(n, <<>>)
  BY DEF Hear
<1>3. Unconcerned(trace', trace)
  <2>1. current_term'[n] \in Nat /\ Outages(trace) \in AccType
    BY <1>1 DEF LastInv
  <2> QED BY <1>2, <2>1, NarratesQuietly
<1>4. \A i \in Node :
         /\ current_term[i] <= current_term'[i]
         /\ role'[i] = "leader" => role[i] = "leader" /\ current_term'[i] = current_term[i]
  BY <1>1, <1>2
<1>5. granted' \subseteq Nat \X Node \X Node
  BY <1>2 DEF VotesInv
<1>6. \A g \in granted' : g[1] <= current_term'[g[3]]
  <2> TAKE g \in granted'
  <2>1. g[3] \in Node /\ g[1] \in Nat /\ g[1] <= current_term[g[3]]
    BY <1>2 DEF VotesInv
  <2> QED BY <1>1, <1>4, <2>1
<1>7. VotesInv'
  <2>1. cut' = {} /\ Continues(trace', trace) /\ ElectedAt(trace') = ElectedAt(trace)
    BY <1>2, <1>3 DEF VotesInv, Unconcerned
  <2> QED BY <1>4, <1>5, <1>6, <2>1, VotesKept
<1>8. LastInv'
  BY <1>2, <1>3, <1>4, LastKept
<1> QED BY <1>3, <1>7, <1>8

\* A node comes back from its WAL, as a follower.
LEMMA RecoverKeeps ==
  ASSUME IsFiniteSet(Node), NoneAssumption, persistent, TermsInv, TermsInv',
         VotesInv, LastInv, NEW n \in Node, Recover(n)
  PROVE  VotesInv' /\ LastInv' /\ Unconcerned(trace', trace)
<1>1. current_term \in [Node -> Nat] /\ role \in [Node -> Role]
  BY DEF TermsInv, Role
<1> DEFINE e == Event("NODE_RECOVERED", n, NONE)
<1>2. /\ crashed' = crashed \ {n} /\ role' = [role EXCEPT ![n] = "follower"]
      /\ current_term' = current_term /\ granted' = granted /\ cut' = cut
      /\ trace' = trace \o <<e>>
  BY DEF Recover, Emit
<1>3. Unconcerned(trace', trace)
  <2>1. e \in TraceEvent /\ e.kind \in QuietKind
    BY DEF Event, TraceEvent, QuietKind
  <2>2. trace \in Seq(TraceEvent) /\ Outages(trace) \in AccType
    BY DEF TermsInv, Told, LastInv
  <2> HIDE DEF e
  <2> QED BY <1>2, <2>1, <2>2, QuietOne
<1>4. \A i \in Node :
         /\ current_term[i] <= current_term'[i]
         /\ role'[i] = "leader" => role[i] = "leader" /\ current_term'[i] = current_term[i]
         /\ i \in crashed \/ role[i] # "leader" => i \in crashed' \/ role'[i] # "leader"
  BY <1>1, <1>2
<1>5. VotesInv'
  <2>1. /\ cut' = {} /\ Continues(trace', trace) /\ ElectedAt(trace') = ElectedAt(trace)
        /\ granted' \subseteq Nat \X Node \X Node
        /\ \A g \in granted' : g[1] <= current_term'[g[3]]
    BY <1>2, <1>3 DEF VotesInv, Unconcerned
  <2> QED BY <1>4, <2>1, VotesKept
<1>6. LastInv'
  BY <1>3, <1>4, LastKept
<1> QED BY <1>3, <1>5, <1>6

\* One event, which may concern the outages.
LEMMA OneTold ==
  ASSUME NEW tr \in Seq(TraceEvent), NEW e \in TraceEvent
  PROVE  LET new == tr \o <<e>>
         IN  /\ new \in Seq(TraceEvent) /\ Continues(new, tr)
             /\ Len(new) = Len(tr) + 1 /\ new[Len(tr) + 1] = e
             /\ Outages(new) = Followed(Outages(tr), e, Len(tr) + 1)
             /\ ElectedAt(new) = IF e.kind = "LEADER_ELECTED"
                               THEN ElectedAt(tr) \cup {Len(tr) + 1} ELSE ElectedAt(tr)
<1> DEFINE new == Append(tr, e)
<1>1. tr \o <<e>> = new
  OBVIOUS
<1>2. /\ new \in Seq(TraceEvent) /\ Len(new) = Len(tr) + 1 /\ new[Len(tr) + 1] = e
      /\ Len(tr) \in Nat /\ \A i \in 1..Len(tr) : new[i] = tr[i]
  OBVIOUS
<1>3. Outages(new) = Followed(Outages(tr), e, Len(tr) + 1)
  BY OutagesNext
<1> HIDE DEF new
<1>4. Continues(new, tr)
  BY <1>2 DEF Continues
<1>5. \A i : i \in 1..Len(new) <=> (i \in 1..Len(tr) \/ i = Len(tr) + 1)
  BY <1>2
<1>6. ElectedAt(new) = IF e.kind = "LEADER_ELECTED"
                     THEN ElectedAt(tr) \cup {Len(tr) + 1} ELSE ElectedAt(tr)
  <2>1. Len(tr) + 1 \notin 1..Len(tr)
    BY <1>2
  <2> QED BY <1>2, <1>5, <2>1 DEF ElectedAt
<1> QED BY <1>1, <1>2, <1>3, <1>4, <1>6

LEMMA CrashKeeps ==
  ASSUME IsFiniteSet(Node), NoneAssumption, TermsInv, TermsInv', VotesInv, LastInv,
         NEW n \in Node, Crash(n)
  PROVE  LET acc == Outages(trace)
         IN  /\ VotesInv' /\ LastInv'
             /\ Len(trace') = Len(trace) + 1
             /\ Outages(trace').found = acc.found
             /\ Outages(trace').lost_at \in {acc.lost_at, Len(trace) + 1}
<1>1. /\ current_term \in [Node -> Nat] /\ role \in [Node -> Role]
      /\ trace \in Seq(TraceEvent) /\ Len(trace) \in Nat
  BY DEF TermsInv, Role, Told
<1> DEFINE e == Event("NODE_CRASHED", n, NONE)
           acc == Outages(trace)
           fallen == LostAt(acc, e, Len(trace) + 1)
<1>2. /\ crashed' = crashed \cup {n} /\ role' = role
      /\ current_term' = current_term /\ granted' = granted /\ cut' = cut
      /\ trace' = trace \o <<e>>
  BY DEF Crash, Emit, nodeVars
<1>3. e \in TraceEvent /\ e.kind = "NODE_CRASHED" /\ e.node = n
  BY DEF Event, TraceEvent
<1>4. acc \in AccType /\ acc.lost_at <= Len(trace)
  BY DEF LastInv
<1> HIDE DEF e
<1>5. /\ Continues(trace', trace) /\ Len(trace') = Len(trace) + 1
      /\ Outages(trace') = Followed(acc, e, Len(trace) + 1)
      /\ ElectedAt(trace') = ElectedAt(trace)
  BY <1>1, <1>2, <1>3, OneTold
<1>6. /\ Outages(trace') = [acc EXCEPT !.lost_at = fallen]
      /\ fallen = IF n = acc.leader THEN Len(trace) + 1 ELSE acc.lost_at
  BY <1>3, <1>5 DEF Followed, LostAt
<1> HIDE DEF fallen, acc
<1>7. /\ Outages(trace') \in AccType /\ Outages(trace').lost_at = fallen
      /\ Outages(trace').found = acc.found /\ Outages(trace').leader = acc.leader
      /\ fallen <= Len(trace')
  BY <1>1, <1>4, <1>5, <1>6, SMTT(30) DEF AccType
<1>8. VotesInv'
  <2>1. /\ cut' = {} /\ granted' \subseteq Nat \X Node \X Node
        /\ \A g \in granted' : g[1] <= current_term'[g[3]]
        /\ \A i \in Node : current_term[i] <= current_term'[i]
    BY <1>1, <1>2 DEF VotesInv
  <2> QED BY <1>2, <1>5, <2>1, VotesKept
<1>9. LastInv'
  <2>1. acc.leader # NONE =>
           \E i \in ElectedAt(trace') :
              trace'[i].node = acc.leader /\ \A j \in ElectedAt(trace') : j <= i
    <3>1. \A i \in ElectedAt(trace) : trace'[i] = trace[i]
      BY <1>5 DEF Continues, ElectedAt
    <3> QED BY <1>5, <3>1 DEF LastInv, acc
  <2>2. fallen # 0 =>
           acc.leader # NONE /\ (acc.leader \in crashed' \/ role'[acc.leader] # "leader")
    <3>1. CASE n = acc.leader
      BY <1>2, <3>1, NoneAssumption
    <3>2. CASE n # acc.leader
      BY <1>2, <1>6, <3>2 DEF LastInv, acc
    <3> QED BY <3>1, <3>2
  <2> QED BY <1>7, <2>1, <2>2 DEF LastInv
<1> QED BY <1>5, <1>6, <1>7, <1>8, <1>9 DEF acc

LEMMA WinKeeps ==
  ASSUME IsFiniteSet(Node), NoneAssumption, TermsInv, TermsInv', VotesInv, LastInv,
         NEW n \in Node, WinElection(n)
  PROVE  LET acc == Outages(trace)
         IN  /\ VotesInv' /\ LastInv'
             /\ Len(trace') = Len(trace) + 1
             /\ Outages(trace').lost_at = 0
             /\ Outages(trace').found \subseteq
                   acc.found \cup
                      (IF acc.lost_at = 0 THEN {} ELSE {<<acc.lost_at, Len(trace) + 1>>})
<1>1. /\ current_term \in [Node -> Nat] /\ role \in [Node -> Role]
      /\ trace \in Seq(TraceEvent) /\ Len(trace) \in Nat /\ traced = current_term
  BY DEF TermsInv, Role, Told
<1> DEFINE t == current_term[n]
           e == Event("LEADER_ELECTED", n, t)
           acc == Outages(trace)
           k == Len(trace) + 1
<1>2. /\ role' = [role EXCEPT ![n] = "leader"]
      /\ current_term' = current_term /\ granted' = granted /\ cut' = cut
      /\ Majority({v \in Node : <<t, n, v>> \in granted})
      /\ Narrate(n, <<"LEADER_ELECTED">>)
  BY DEF WinElection
<1>3. trace' = trace \o <<e>>
  <2>1. trace' = trace \o AllTold(traced, n, t, <<"LEADER_ELECTED">>)
    BY <1>2 DEF Narrate, Emit, Announced, AllTold
  <2>2. AllTold(traced, n, t, <<"LEADER_ELECTED">>)
           = IF t # traced[n] THEN <<Event("TERM_CHANGED", n, t), e>> ELSE <<e>>
    BY AllToldOne
  <2>3. t = traced[n]
    BY <1>1
  <2> HIDE DEF t, e
  <2> QED BY <2>1, <2>2, <2>3
<1>4. e \in TraceEvent /\ e.kind = "LEADER_ELECTED" /\ e.node = n /\ e.term = t /\ t \in Nat
  BY <1>1 DEF Event, TraceEvent
<1>5. acc \in AccType /\ acc.lost_at \in Nat /\ acc.lost_at <= Len(trace)
  BY DEF LastInv, AccType
<1> HIDE DEF e
<1>6. /\ trace' \in Seq(TraceEvent) /\ Continues(trace', trace) /\ Len(trace') = k
      /\ trace'[k] = e /\ Outages(trace') = Followed(acc, e, k)
      /\ ElectedAt(trace') = ElectedAt(trace) \cup {k}
  BY <1>1, <1>3, <1>4, OneTold
<1> HIDE DEF acc
<1>7. /\ Outages(trace').leader = n /\ Outages(trace').lost_at = 0
      /\ Outages(trace').found
            = IF acc.lost_at = 0 THEN acc.found ELSE acc.found \cup {<<acc.lost_at, k>>}
      /\ Outages(trace') \in AccType
  <2>1. Outages(trace')
           = [leader |-> n, lost_at |-> 0,
              found |-> IF acc.lost_at = 0 THEN acc.found ELSE acc.found \cup {<<acc.lost_at, k>>}]
    BY <1>4, <1>6 DEF Followed
  <2>2. <<acc.lost_at, k>> \in Nat \X Nat /\ acc.found \in SUBSET (Nat \X Nat)
    BY <1>1, <1>5 DEF AccType
  <2> HIDE DEF k
  <2> QED BY <2>1, <2>2 DEF AccType
\* Those who voted for it have reached its term.
<1>8. Majority({v \in Node : t <= current_term'[v]})
  <2> DEFINE S == {v \in Node : <<t, n, v>> \in granted}
             T == {v \in Node : t <= current_term'[v]}
  <2>1. S \subseteq T
    <3> SUFFICES ASSUME NEW v \in Node, <<t, n, v>> \in granted PROVE t <= current_term'[v]
      OBVIOUS
    <3> DEFINE g == <<t, n, v>>
    <3>1. g[1] = t /\ g[3] = v /\ g \in granted
      OBVIOUS
    <3> HIDE DEF g
    <3> QED BY <1>2, <3>1 DEF VotesInv
  <2>2. S \in SUBSET Node /\ T \in SUBSET Node /\ Majority(S)
    BY <1>2
  <2> HIDE DEF S, T
  <2>3. Majority(T)
    BY <2>1, <2>2, MoreIsMajority
  <2> QED BY <2>3 DEF T
<1>9. VotesInv'
  <2>1. /\ cut' = {} /\ granted' \subseteq Nat \X Node \X Node
        /\ \A g \in granted' : g[1] <= current_term'[g[3]]
        /\ \A i \in Node : current_term[i] <= current_term'[i]
    BY <1>1, <1>2 DEF VotesInv
  <2>2. \A i \in ElectedAt(trace') :
           i \in ElectedAt(trace) \/ Majority({v \in Node : trace'[i].term <= current_term'[v]})
    <3> TAKE i \in ElectedAt(trace')
    <3>1. CASE i \in ElectedAt(trace)
      BY <3>1
    <3>2. CASE i = k
      BY <1>4, <1>6, <1>8, <3>2
    <3> QED BY <1>6, <3>1, <3>2
  <2>3. \A m \in Node :
           role'[m] = "leader" =>
              \/ role[m] = "leader" /\ current_term'[m] = current_term[m]
              \/ \E i \in ElectedAt(trace') :
                    trace'[i] = Event("LEADER_ELECTED", m, current_term'[m])
    <3> TAKE m \in Node
    <3>1. CASE m = n
      BY <1>2, <1>6, <3>1 DEF e
    <3>2. CASE m # n
      BY <1>1, <1>2, <3>2
    <3> QED BY <3>1, <3>2
  <2> QED BY <1>6, <2>1, <2>2, <2>3, VotesKept
<1>10. LastInv'
  <2>1. \A j \in ElectedAt(trace') : j <= k
    <3>1. \A j \in ElectedAt(trace) : j \in 1..Len(trace)
      BY DEF ElectedAt
    <3> QED BY <1>1, <1>6, <3>1
  <2>2. k \in ElectedAt(trace') /\ trace'[k].node = n
    BY <1>4, <1>6
  <2>3. 0 <= Len(trace')
    BY <1>1, <1>6
  <2> HIDE DEF k
  <2> QED BY <1>7, <2>1, <2>2, <2>3 DEF LastInv
<1> QED BY <1>6, <1>7, <1>9, <1>10 DEF acc

-----------------------------------------------------------------------------
(***************************************************************************)
(* While the node last elected is lost, nobody leads: who voted for it has *)
(* gone on from every earlier leader.                                      *)
(***************************************************************************)
LEMMA NobodyLeads ==
  ASSUME IsFiniteSet(Node), NoneAssumption, TermsInv', VotesInv', LastInv', WonInOrder',
         Outages(trace').lost_at # 0
  PROVE  ~ \E n \in Node : Leads(n)
<1> SUFFICES ASSUME NEW n \in Node, Leads(n) PROVE FALSE
  OBVIOUS
<1> DEFINE leader == Outages(trace').leader
           reached == current_term'[n]
           S == {m \in Node \ crashed' :
                    (m \in cut' <=> n \in cut') /\ current_term'[m] <= current_term'[n]}
<1>1. /\ role'[n] = "leader" /\ n \notin crashed' /\ Majority(S)
  BY DEF Leads
<1>2. /\ trace' \in Seq(TraceEvent) /\ Len(trace') \in Nat /\ DOMAIN trace' = 1..Len(trace')
      /\ current_term' \in [Node -> Nat]
  BY DEF TermsInv, Told
<1>3. leader # NONE /\ (leader \in crashed' \/ role'[leader] # "leader")
  BY DEF LastInv
<1>4. PICK l \in ElectedAt(trace') :
         trace'[l].node = leader /\ \A j \in ElectedAt(trace') : j <= l
  BY <1>3 DEF LastInv
<1>5. PICK i \in ElectedAt(trace') : trace'[i] = Event("LEADER_ELECTED", n, reached)
  BY <1>1 DEF VotesInv
<1> HIDE DEF S, leader
<1>6. trace'[i].node = n /\ trace'[i].term = reached
  BY <1>5 DEF Event
<1>7. i # l
  BY <1>1, <1>3, <1>4, <1>6
<1>8. /\ i \in 1..Len(trace') /\ l \in 1..Len(trace') /\ i < l
      /\ trace'[i].kind = "LEADER_ELECTED" /\ trace'[l].kind = "LEADER_ELECTED"
  BY <1>2, <1>4, <1>5, <1>7 DEF ElectedAt
<1>9. trace'[i].term < trace'[l].term
  BY <1>2, <1>8 DEF WonInOrder
<1> DEFINE t == trace'[l].term
           T == {v \in Node : t <= current_term'[v]}
<1>10. Majority(T)
  BY <1>4 DEF VotesInv, Reached
<1>11. t \in Nat
  <2>1. trace'[l] \in TraceEvent
    BY <1>2, <1>8
  <2>2. trace'[l].term # NONE
    BY <1>8 DEF TermsInv, Told
  <2> QED BY <2>1, <2>2 DEF TraceEvent
<1>12. reached < t /\ reached \in Nat
  BY <1>2, <1>6, <1>9
<1> HIDE DEF t, reached
<1>13. S \in SUBSET Node /\ T \in SUBSET Node
  BY DEF S
<1>14. S \cap T # {}
  <2> HIDE DEF T
  <2> QED BY <1>1, <1>10, <1>13, TwoMajoritiesMeet
<1>15. PICK v \in Node : v \in S /\ v \in T
  BY <1>13, <1>14
<1>16. current_term'[v] <= reached /\ t <= current_term'[v] /\ current_term'[v] \in Nat
  BY <1>2, <1>15 DEF S, reached
<1> QED BY <1>11, <1>12, <1>16

ServedInv ==
    /\ served \in Seq(BOOLEAN) /\ Len(served) = Len(trace)
    /\ WonInOrder =>
          /\ Outages(trace).lost_at # 0 =>
                \A i \in Outages(trace).lost_at..Len(trace) : ~ served[i]
          /\ \A d \in Outages(trace).found :
                /\ 1 <= d[1] /\ d[2] <= Len(trace)
                /\ \A i \in d[1]..d[2] - 1 : ~ served[i]

LEMMA ServedInvInit ==
  ASSUME TraceInit
  PROVE  ServedInv
<1>1. trace = <<>> /\ served = <<>>
  BY DEF TraceInit
<1>2. Outages(trace) = Nothing
  BY <1>1, OutagesNone
<1>3. Len(trace) = 0 /\ Len(served) = 0 /\ served \in Seq(BOOLEAN)
  BY <1>1
<1> QED BY <1>2, <1>3 DEF ServedInv, Nothing

\* What an Emit adds to the history.
LEMMA ServedGrows ==
  ASSUME TermsInv, ServedInv, NEW events \in Seq(TraceEvent), Emit(events)
  PROVE  /\ served' \in Seq(BOOLEAN) /\ Len(served') = Len(trace')
         /\ Continues(trace', trace)
         /\ \A i \in 1..Len(trace) : served'[i] = served[i]
         /\ \A i \in 1..Len(trace') :
               i \in 1..Len(trace) \/ served'[i] = (\E n \in Node : Leads(n))
<1> DEFINE led == \E n \in Node : Leads(n)
           added == [i \in DOMAIN events |-> led]
<1>1. trace \in Seq(TraceEvent) /\ Len(trace) \in Nat
  BY DEF TermsInv, Told
<1>2. served \in Seq(BOOLEAN) /\ Len(served) = Len(trace)
  BY DEF ServedInv
<1>3. trace' = trace \o events /\ served' = served \o added
  BY DEF Emit
<1>4. led \in BOOLEAN
  OBVIOUS
<1> HIDE DEF led
<1>5. DOMAIN events = 1..Len(events) /\ Len(events) \in Nat
  OBVIOUS
<1>6. added \in Seq(BOOLEAN) /\ Len(added) = Len(events)
      /\ \A i \in 1..Len(events) : added[i] = led
  BY <1>4, <1>5
<1> HIDE DEF added
<1>7. /\ Len(trace') = Len(trace) + Len(events)
      /\ \A i \in 1..Len(trace) : trace'[i] = trace[i]
  BY <1>1, <1>3
<1>8. /\ served' \in Seq(BOOLEAN) /\ Len(served') = Len(trace) + Len(events)
      /\ \A i \in 1..Len(trace) : served'[i] = served[i]
      /\ \A i \in Len(trace) + 1..Len(trace) + Len(events) :
            served'[i] = added[i - Len(trace)]
  <2> DEFINE B == BOOLEAN
  <2>1. served \in Seq(B) /\ added \in Seq(B)
    BY <1>2, <1>6
  <2> HIDE DEF B
  <2>2. /\ served \o added \in Seq(B) /\ Len(served \o added) = Len(served) + Len(added)
        /\ \A i \in 1..Len(served) : (served \o added)[i] = served[i]
        /\ \A i \in Len(served) + 1..Len(served) + Len(added) :
              (served \o added)[i] = added[i - Len(served)]
    BY <2>1
  <2>3. Len(served) = Len(trace) /\ Len(added) = Len(events) /\ served' = served \o added
    BY <1>2, <1>3, <1>6
  <2>4. served' \in Seq(BOOLEAN)
    BY <2>2, <2>3 DEF B
  <2> QED BY <2>2, <2>3, <2>4
<1>9. ASSUME NEW i \in 1..Len(trace'), i \notin 1..Len(trace)
      PROVE  served'[i] = led
  <2>1. i \in Len(trace) + 1..Len(trace) + Len(events) /\ i - Len(trace) \in 1..Len(events)
    BY <1>1, <1>5, <1>7, <1>9
  <2> QED BY <1>6, <1>8, <2>1
<1>10. Continues(trace', trace)
  BY <1>1, <1>5, <1>7 DEF Continues
<1> QED BY <1>7, <1>8, <1>9, <1>10 DEF led

LEMMA ServedKept ==
  ASSUME IsFiniteSet(Node), NoneAssumption, TermsInv, TermsInv', VotesInv', LastInv, LastInv',
         ServedInv, NEW events \in Seq(TraceEvent), Emit(events),
         \/ Outages(trace').lost_at \in {0, Outages(trace).lost_at}
         \/ Outages(trace').lost_at > Len(trace),
         \A d \in Outages(trace').found :
            \/ d \in Outages(trace).found
            \/ /\ Outages(trace).lost_at # 0 /\ Len(trace) + 1 <= Len(trace')
               /\ d = <<Outages(trace).lost_at, Len(trace) + 1>>
  PROVE  ServedInv'
<1> DEFINE a == Outages(trace)
           b == Outages(trace')
           led == \E n \in Node : Leads(n)
<1>1. /\ served' \in Seq(BOOLEAN) /\ Len(served') = Len(trace')
      /\ Continues(trace', trace)
      /\ \A i \in 1..Len(trace) : served'[i] = served[i]
      /\ \A i \in 1..Len(trace') : i \in 1..Len(trace) \/ served'[i] = led
  BY ServedGrows
<1>2. /\ trace \in Seq(TraceEvent) /\ trace' \in Seq(TraceEvent)
      /\ Len(trace) \in Nat /\ Len(trace') \in Nat /\ Len(trace) <= Len(trace')
      /\ \A i \in 1..Len(trace) : i \in 1..Len(trace') /\ trace'[i] = trace[i]
  BY <1>1 DEF TermsInv, Told, Continues
<1>3. /\ a \in AccType /\ b \in AccType /\ a.lost_at \in Nat /\ b.lost_at \in Nat
      /\ a.lost_at <= Len(trace) /\ b.lost_at <= Len(trace')
  BY DEF LastInv, AccType
<1>4. ASSUME WonInOrder' PROVE WonInOrder
  BY <1>2, <1>4 DEF WonInOrder
<1>5. WonInOrder' /\ b.lost_at # 0 => ~ led
  BY NobodyLeads
<1>6. WonInOrder =>
          /\ a.lost_at # 0 => \A i \in a.lost_at..Len(trace) : ~ served[i]
          /\ \A d \in a.found :
                /\ 1 <= d[1] /\ d[2] <= Len(trace)
                /\ \A i \in d[1]..d[2] - 1 : ~ served[i]
  BY DEF ServedInv
<1>7. /\ b.lost_at \in {0, a.lost_at} \/ b.lost_at > Len(trace)
      /\ \A d \in b.found :
            \/ d \in a.found
            \/ /\ a.lost_at # 0 /\ Len(trace) + 1 <= Len(trace')
               /\ d = <<a.lost_at, Len(trace) + 1>>
  OBVIOUS
<1> HIDE DEF a, b, led
<1>8. ASSUME WonInOrder', b.lost_at # 0, NEW i \in b.lost_at..Len(trace')
      PROVE  ~ served'[i]
  <2>1. i \in 1..Len(trace')
    BY <1>2, <1>3, <1>8
  <2>2. CASE i \in 1..Len(trace)
    <3>1. b.lost_at = a.lost_at
      BY <1>2, <1>3, <1>7, <1>8, <2>2
    <3>2. i \in a.lost_at..Len(trace)
      BY <1>2, <1>3, <1>8, <2>2, <3>1
    <3> QED BY <1>1, <1>4, <1>6, <1>8, <2>2, <3>1, <3>2
  <2>3. CASE i \notin 1..Len(trace)
    BY <1>1, <1>5, <1>8, <2>1, <2>3
  <2> QED BY <2>2, <2>3
<1>9. ASSUME WonInOrder', NEW d \in b.found
      PROVE  /\ 1 <= d[1] /\ d[2] <= Len(trace')
             /\ \A i \in d[1]..d[2] - 1 : ~ served'[i]
  <2>0. d \in Nat \X Nat
    BY <1>3 DEF AccType
  <2>1. CASE d \in a.found
    <3>1. /\ 1 <= d[1] /\ d[2] <= Len(trace)
          /\ \A i \in d[1]..d[2] - 1 : ~ served[i]
      BY <1>4, <1>6, <1>9, <2>1
    <3>2. \A i \in d[1]..d[2] - 1 : i \in 1..Len(trace)
      BY <1>2, <2>0, <3>1
    <3> QED BY <1>1, <1>2, <2>0, <3>1, <3>2
  <2>2. CASE d \notin a.found
    <3>1. a.lost_at # 0 /\ Len(trace) + 1 <= Len(trace') /\ d = <<a.lost_at, Len(trace) + 1>>
      BY <1>7, <2>2
    <3>2. d[1] = a.lost_at /\ d[2] = Len(trace) + 1
      BY <3>1
    <3>3. \A i \in d[1]..d[2] - 1 : i \in a.lost_at..Len(trace) /\ i \in 1..Len(trace)
      BY <1>2, <1>3, <3>1, <3>2
    <3>4. \A i \in a.lost_at..Len(trace) : ~ served[i]
      BY <1>4, <1>6, <1>9, <3>1
    <3>5. 1 <= d[1] /\ d[2] <= Len(trace')
      BY <1>3, <3>1, <3>2
    <3>6. \A i \in d[1]..d[2] - 1 : served'[i] = served[i] /\ ~ served[i]
      BY <1>1, <3>3, <3>4
    <3> QED BY <3>5, <3>6
  <2> QED BY <2>1, <2>2
<1> HIDE DEF WonInOrder
<1> QED BY <1>1, <1>8, <1>9 DEF ServedInv, b

\* What is narrated is a sequence of events.
LEMMA NarratedIsSeq ==
  ASSUME TermsInv, NEW n \in Node, current_term'[n] \in Nat,
         NEW kinds, kinds # <<>> => \E k \in Happens : kinds = <<k>>
  PROVE  Announced(n, kinds) \in Seq(TraceEvent)
<1> DEFINE reached == current_term'[n]
           s == Event("TERM_CHANGED", n, reached)
<1>1. Announced(n, kinds) = AllTold(traced, n, reached, kinds)
  BY DEF Announced, AllTold
<1>2. s \in TraceEvent
  BY DEF Event, TraceEvent
<1>3. CASE kinds = <<>>
  <2>1. AllTold(traced, n, reached, kinds) = IF reached # traced[n] THEN <<s>> ELSE <<>>
    BY <1>3, AllToldNone
  <2> HIDE DEF s, reached
  <2> QED BY <1>1, <1>2, <2>1
<1>4. CASE kinds # <<>>
  <2>1. PICK k \in Happens : kinds = <<k>>
    BY <1>4
  <2> DEFINE d == Event(k, n, reached)
  <2>2. d \in TraceEvent
    BY DEF Event, TraceEvent, Happens
  <2>3. AllTold(traced, n, reached, <<k>>) = IF reached # traced[n] THEN <<s, d>> ELSE <<d>>
    BY AllToldOne
  <2> HIDE DEF s, d, reached
  <2>4. AllTold(traced, n, reached, <<k>>) \in Seq(TraceEvent)
    <3>1. <<s, d>> \in Seq(TraceEvent) /\ <<d>> \in Seq(TraceEvent)
      BY <1>2, <2>2
    <3> QED BY <2>3, <3>1, Zenon
  <2> QED BY <1>1, <2>1, <2>4
<1> QED BY <1>3, <1>4

LEMMA ServedInvNext ==
  ASSUME IsFiniteSet(Node), NoneAssumption, persistent, Unsplit',
         TermsInv, TermsInv', VotesInv, LastInv, ServedInv, TraceNext
  PROVE  VotesInv' /\ LastInv' /\ ServedInv'
<1>1. /\ current_term' \in [Node -> Nat] /\ Len(trace) \in Nat /\ Len(trace') \in Nat
  BY DEF TermsInv, Told
\* Most steps tell nothing that concerns an outage.
<1>2. ASSUME VotesInv', LastInv', Unconcerned(trace', trace),
             NEW events \in Seq(TraceEvent), Emit(events)
      PROVE  ServedInv'
  <2>1. Outages(trace') = Outages(trace)
    BY <1>2 DEF Unconcerned
  <2> QED BY <1>2, <2>1, ServedKept
<1>3. ASSUME NEW n \in Node, StartElection(n)
      PROVE  VotesInv' /\ LastInv' /\ ServedInv'
  <2>1. Emit(Announced(n, <<"ELECTION_STARTED">>))
    BY <1>3 DEF StartElection, Narrate
  <2>2. Announced(n, <<"ELECTION_STARTED">>) \in Seq(TraceEvent)
    <3>1. "ELECTION_STARTED" \in Happens
      BY DEF Happens
    <3> QED BY <1>1, <3>1, NarratedIsSeq
  <2> QED BY <1>2, <1>3, <2>1, <2>2, StartKeeps
<1>4. ASSUME NEW n \in Node, NEW m \in Node, NEW t \in 1..TermLimit, GrantVote(n, t, m)
      PROVE  VotesInv' /\ LastInv' /\ ServedInv'
  <2>1. Emit(Announced(n, <<"VOTE_GRANTED">>))
    BY <1>4 DEF GrantVote, Narrate
  <2>2. Announced(n, <<"VOTE_GRANTED">>) \in Seq(TraceEvent)
    <3>1. "VOTE_GRANTED" \in Happens
      BY DEF Happens
    <3> QED BY <1>1, <3>1, NarratedIsSeq
  <2>3. VotesInv' /\ LastInv' /\ Unconcerned(trace', trace)
    BY <1>4, GrantKeeps
  <2> QED BY <1>2, <2>1, <2>2, <2>3
<1>5. ASSUME NEW n \in Node, NEW m \in Node, Hear(n, m)
      PROVE  VotesInv' /\ LastInv' /\ ServedInv'
  <2>1. Emit(Announced(n, <<>>))
    BY <1>5 DEF Hear, Narrate
  <2>2. Announced(n, <<>>) \in Seq(TraceEvent)
    BY <1>1, NarratedIsSeq
  <2> QED BY <1>2, <1>5, <2>1, <2>2, HearKeeps
<1>6. ASSUME NEW n \in Node, Recover(n)
      PROVE  VotesInv' /\ LastInv' /\ ServedInv'
  <2> DEFINE e == Event("NODE_RECOVERED", n, NONE)
  <2>1. Emit(<<e>>) /\ e \in TraceEvent
    BY <1>6 DEF Recover, Event, TraceEvent
  <2> HIDE DEF e
  <2>2. <<e>> \in Seq(TraceEvent)
    BY <2>1
  <2> QED BY <1>2, <1>6, <2>1, <2>2, RecoverKeeps
<1>7. ASSUME NEW n \in Node, Crash(n)
      PROVE  VotesInv' /\ LastInv' /\ ServedInv'
  <2> DEFINE e == Event("NODE_CRASHED", n, NONE)
  <2>1. Emit(<<e>>) /\ e \in TraceEvent
    BY <1>7 DEF Crash, Event, TraceEvent
  <2> HIDE DEF e
  <2>2. <<e>> \in Seq(TraceEvent)
    BY <2>1
  <2>3. /\ VotesInv' /\ LastInv'
        /\ Outages(trace').found = Outages(trace).found
        /\ Outages(trace').lost_at \in {Outages(trace).lost_at, Len(trace) + 1}
    BY <1>7, CrashKeeps
  <2>4. \/ Outages(trace').lost_at \in {0, Outages(trace).lost_at}
        \/ Outages(trace').lost_at > Len(trace)
    BY <1>1, <2>3
  <2> QED BY <2>1, <2>2, <2>3, <2>4, ServedKept
<1>8. ASSUME NEW n \in Node, WinElection(n)
      PROVE  VotesInv' /\ LastInv' /\ ServedInv'
  <2>1. Emit(Announced(n, <<"LEADER_ELECTED">>))
    BY <1>8 DEF WinElection, Narrate
  <2>2. Announced(n, <<"LEADER_ELECTED">>) \in Seq(TraceEvent)
    <3>1. "LEADER_ELECTED" \in Happens
      BY DEF Happens
    <3> QED BY <1>1, <3>1, NarratedIsSeq
  <2>3. /\ VotesInv' /\ LastInv' /\ Len(trace') = Len(trace) + 1
        /\ Outages(trace').lost_at = 0
        /\ Outages(trace').found \subseteq
              Outages(trace).found \cup
                 (IF Outages(trace).lost_at = 0 THEN {}
                  ELSE {<<Outages(trace).lost_at, Len(trace) + 1>>})
    BY <1>8, WinKeeps
  <2>4. \A d \in Outages(trace').found :
           \/ d \in Outages(trace).found
           \/ /\ Outages(trace).lost_at # 0 /\ Len(trace) + 1 <= Len(trace')
              /\ d = <<Outages(trace).lost_at, Len(trace) + 1>>
    BY <1>1, <2>3
  <2> QED BY <2>1, <2>2, <2>3, <2>4, ServedKept
\* Nothing was cut off, and nothing heals.
<1>9. ~ Heal /\ ~ \E group \in Splits : Partition(group)
  <2>1. ~ Heal
    BY DEF Heal, VotesInv
  <2>2. ASSUME NEW group \in Splits, Partition(group) PROVE FALSE
    <3> DEFINE e == Event("PARTITION_CREATED", NONE, NONE)
    <3>1. trace' = trace \o <<e>>
      BY <2>2 DEF Partition, Emit
    <3>2. e \in TraceEvent /\ e.kind = "PARTITION_CREATED"
      BY DEF Event, TraceEvent
    <3>3. trace \in Seq(TraceEvent)
      BY DEF TermsInv, Told
    <3> HIDE DEF e
    <3>4. /\ trace' \in Seq(TraceEvent) /\ Len(trace') = Len(trace) + 1
          /\ trace'[Len(trace) + 1] = e
      BY <3>1, <3>2, <3>3, OneTold
    <3>5. Len(trace) + 1 \in DOMAIN trace'
      BY <1>1, <3>4
    <3> QED BY <3>2, <3>4, <3>5 DEF Unsplit
  <2> QED BY <2>1, <2>2
<1> QED BY <1>3, <1>4, <1>5, <1>6, <1>7, <1>8, <1>9 DEF TraceNext

\* As long as no partition was told of, none had been.
LEMMA StillUnsplit ==
  ASSUME NoneAssumption, TermsInv, TraceNext, Unsplit'
  PROVE  Unsplit
<1>1. TermsInv' /\ Continues(trace', trace)
  BY TermsInvNext
<1>2. /\ DOMAIN trace = 1..Len(trace) /\ DOMAIN trace' = 1..Len(trace')
      /\ Len(trace) \in Nat /\ Len(trace') \in Nat
  BY <1>1 DEF TermsInv, Told
<1>3. \A i \in DOMAIN trace : i \in DOMAIN trace' /\ trace'[i] = trace[i]
  BY <1>1, <1>2 DEF Continues
<1> QED BY <1>3 DEF Unsplit

\* In a cluster of any size, whose nodes come back from their WALs and which no partition
\* has split, a reported recovery time is one in which nobody led, as long as the elections
\* were won in the order of their terms (experiments/metrics.py, recovery_intervals).
THEOREM CrashesAreLeaderless ==
  ASSUME IsFiniteSet(Node), NoneAssumption
  PROVE  TraceSpec => []CrashIsLeaderless
<1> DEFINE LInv == VotesInv /\ LastInv /\ ServedInv
           CInv == persistent /\ Unsplit => LInv
<1>1. TraceInit => CInv
  BY LeadInvInit, ServedInvInit
<1>2. TermsInv /\ TermsInv' /\ CInv /\ [TraceNext]_traceVars => CInv'
  <2> SUFFICES ASSUME TermsInv, TermsInv', CInv, [TraceNext]_traceVars, persistent', Unsplit'
               PROVE  LInv'
    OBVIOUS
  <2>1. CASE TraceNext
    <3>1. persistent' = persistent
      BY <2>1 DEF TraceNext, StartElection, GrantVote, WinElection, Hear, Crash, Recover,
                  Partition, Heal, nodeVars
    <3>2. persistent /\ Unsplit /\ LInv
      BY <2>1, <3>1, StillUnsplit
    <3> QED BY <2>1, <3>2, ServedInvNext
  <2>2. CASE UNCHANGED traceVars
    <3>1. /\ current_term' = current_term /\ role' = role /\ granted' = granted
          /\ crashed' = crashed /\ cut' = cut /\ trace' = trace /\ served' = served
          /\ persistent' = persistent
      BY <2>2 DEF traceVars, nodeVars
    <3>2. LInv
      BY <3>1 DEF Unsplit
    <3>3. VotesInv'
      BY <3>1, <3>2 DEF VotesInv, ElectedAt, Reached
    <3>4. LastInv'
      BY <3>1, <3>2 DEF LastInv, ElectedAt
    <3>5. ServedInv'
      BY <3>1, <3>2 DEF ServedInv, WonInOrder
    <3> QED BY <3>3, <3>4, <3>5
  <2> QED BY <2>1, <2>2
<1>3. CInv => CrashIsLeaderless
  BY DEF ServedInv, CrashIsLeaderless, RecoveryIsLeaderless, recovery_intervals
<1>4. TraceSpec => []CInv
  <2> HIDE DEF CInv
  <2> QED BY <1>1, <1>2, TermsInvAlways, PTL DEF TraceSpec
<1> QED BY <1>3, <1>4, PTL
=============================================================================
