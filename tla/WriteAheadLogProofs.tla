------------------------- MODULE WriteAheadLogProofs -------------------------
(***************************************************************************)
(* What the files bring back is what the node had.                         *)
(***************************************************************************)
EXTENDS WriteAheadLog, AppendLoop, RaftLogProofs

\* What a line of the file holds, and what a recovery comes to.
LogRecord ==
    [kind : {"header"}]
    \cup [kind : {"term"}, term : Nat, voted_for : Voter \cup {Nil}]
    \cup [kind : {"entry", "snapshot"}, index : Nat, term : 1..MaxTerm]
    \cup [kind : {"truncate", "commit"}, index : Nat]

\* Lines without the faults that leave a line ending out.
FileLine == [record : LogRecord, form : {"whole", "torn"}]

\* What the fold returns.
Recovery ==
    [ok : BOOLEAN, term : 0..MaxTerm, voted_for : Voter \cup {Nil}, base : Nat,
     base_term : Nat, entries : Seq(1..MaxTerm), commit : Nat]

\* A recovery that the node can start from: every check passed, and what it says
\* is committed is there and is what was decided.
Sound(r, lg) ==
    /\ r \in Recovery /\ r.ok
    /\ r.base <= r.commit /\ r.commit <= LastRecovered(r) /\ r.commit <= Len(lg)
    /\ \A i \in 1..Len(r.entries) :
          /\ r.entries[i] <= r.term
          /\ r.base + i <= r.commit => r.entries[i] = lg[r.base + i]

\* The recovery from the first n lines, and from all that verify.
Until(lines, n) == Fold(SubSeq(lines, 1, n))
Finds(lines) == Until(lines, ValidPrefix(lines))

\* Only the last line can be torn; and what a crash can leave of the lines is
\* sound, and refers to the snapshot that all of them do.
FileSound(lines, from, lg) ==
    /\ lines \in Seq(FileLine) /\ from \in 0..Len(lines)
    /\ \A n \in 1..Len(lines) :
          lines[n].form = "whole" \/ (lines[n].form = "torn" /\ n = Len(lines))
    /\ \A n \in 0..ValidPrefix(lines) :
          from <= n \/ n = ValidPrefix(lines) =>
             Sound(Until(lines, n), lg) /\ Until(lines, n).base = Finds(lines).base

\* The lines of a file that no crash has cut.
AllWhole(lines) == \A n \in 1..Len(lines) : lines[n].form = "whole"

\* What a restart would find.
Found == Finds(file)

\* Only a crash tears a line.
FilesSound == FileSound(file, synced, decided) /\ (pc # "down" => AllWhole(file))

\* A snapshot is what was decided up to its index.
SavedSound(saved, lg) ==
    /\ IsFiniteSet(DOMAIN saved)
    /\ \A i \in DOMAIN saved :
          i \in Nat \ {0} /\ i <= Len(lg) /\ saved[i] = SubSeq(lg, 1, i)

\* The snapshots above an index.
Above(saved, i) == {j \in DOMAIN saved : j > i}

\* The snapshot that the log refers to, or is about to, is there, and few are
\* above it.
SnapshotsSound ==
    /\ SavedSound(snapshots, decided)
    /\ Found.base # 0 => Found.base \in DOMAIN snapshots
    /\ pc = "saved" =>
          /\ last_applied \in DOMAIN snapshots /\ last_applied > snapshot_index
          /\ Cardinality(Above(snapshots, last_applied)) <= MaxOrphans
    /\ pc # "saved" => Cardinality(Above(snapshots, Found.base)) <= MaxOrphans

\* The memory of a node, running or not.
MemorySound ==
    /\ term \in 0..MaxTerm /\ voted_for \in Voter \cup {Nil}
    /\ log \in Seq(1..MaxTerm) /\ decided \in Seq(1..MaxTerm)
    /\ base \in Nat /\ base_term \in Nat /\ snapshot_index \in Nat /\ commit_index \in Nat
    /\ store \in Seq(1..MaxTerm) /\ store = SubSeq(decided, 1, Len(store))
    /\ base <= snapshot_index /\ snapshot_index <= Len(store)
    /\ Len(store) <= commit_index /\ commit_index <= last_index
    /\ commit_index <= Len(decided)
    /\ \A i \in 1..Len(log) :
          log[i] <= term /\ (base + i <= commit_index => log[i] = decided[base + i])

\* The file of a running node is its memory, but for what it has yet to persist.
FileIsMemory ==
    pc # "down" =>
        /\ Found.base = snapshot_index
        /\ Found.entries = SubSeq(log, snapshot_index - base + 1, Len(log))
        /\ Found.commit = persisted_commit /\ persisted_commit <= commit_index
        /\ Found.voted_for = persisted_vote[2]
        /\ persisted_vote[1] \in Nat
        /\ persisted_vote[1] <= Found.term /\ Found.term <= term

\* The files are sound, and a running node agrees with them.
Inv == FilesSound /\ SnapshotsSound /\ MemorySound /\ FileIsMemory

-----------------------------------------------------------------------------
(***************************************************************************)
(* The fold over the records.                                              *)
(***************************************************************************)
\* What the fold makes of the records one after another.
Folds(f, lines, n) ==
    f = [k \in 0..n |-> IF k = 0 THEN NothingRecovered
                                 ELSE Replay(f[k - 1], lines[k].record)]

\* There is such a function.
LEMMA FoldExists ==
  ASSUME NEW lines, NEW n \in Nat
  PROVE  \E f : Folds(f, lines, n)
<1> DEFINE S == {k \in Nat : \E f : Folds(f, lines, k)}
<1>1. 0 \in S
  <2> DEFINE f == [k \in 0..0 |-> NothingRecovered]
  <2>1. Folds(f, lines, 0)
    BY DEF Folds
  <2> QED BY <2>1
<1>2. ASSUME NEW k \in S PROVE k + 1 \in S
  <2>1. PICK f : Folds(f, lines, k)
    OBVIOUS
  <2> DEFINE g == [j \in 0..(k + 1) |-> IF j <= k THEN f[j] ELSE Replay(f[k], lines[k + 1].record)]
  <2>2. \A j \in 0..(k + 1) :
           g[j] = IF j = 0 THEN NothingRecovered ELSE Replay(g[j - 1], lines[j].record)
    <3> TAKE j \in 0..(k + 1)
    <3>1. CASE j = 0
      BY <2>1, <3>1 DEF Folds
    <3>2. CASE j # 0 /\ j <= k
      <4>1. g[j] = f[j] /\ g[j - 1] = f[j - 1]
        BY <3>2
      <4>2. f[j] = Replay(f[j - 1], lines[j].record)
        BY <2>1, <3>2 DEF Folds
      <4> QED BY <3>2, <4>1, <4>2
    <3>3. CASE j = k + 1
      <4>1. g[j] = Replay(f[k], lines[k + 1].record) /\ g[j - 1] = f[k] /\ j # 0
        BY <3>3
      <4> QED BY <3>3, <4>1
    <3> QED BY <3>1, <3>2, <3>3
  <2>3. Folds(g, lines, k + 1)
    <3> DEFINE e == [j \in 0..(k + 1) |-> IF j = 0 THEN NothingRecovered
                                          ELSE Replay(g[j - 1], lines[j].record)]
    <3>1. g = e
      <4>1. \A j \in 0..(k + 1) : g[j] = e[j]
        BY <2>2
      <4>2. DOMAIN g = 0..(k + 1) /\ DOMAIN e = 0..(k + 1)
        OBVIOUS
      <4>3. g = [j \in 0..(k + 1) |-> g[j]] /\ e = [j \in 0..(k + 1) |-> e[j]]
        OBVIOUS
      <4> HIDE DEF g, e
      <4> QED BY <4>1, <4>3
    <3> HIDE DEF g
    <3> QED BY <3>1 DEF Folds
  <2> QED BY <2>3
<1> HIDE DEF S
<1>3. S = Nat
  <2>1. S \in SUBSET Nat
    BY DEF S
  <2> QED BY <1>1, <1>2, <2>1, CountingUp
<1> QED BY <1>3 DEF S

\* And only one.
LEMMA FoldUnique ==
  ASSUME NEW lines, NEW f, NEW g, NEW m \in Nat, NEW n \in Nat,
         Folds(f, lines, m), Folds(g, lines, n)
  PROVE  \A k \in Nat : k <= m /\ k <= n => f[k] = g[k]
<1> DEFINE S == {k \in Nat : k <= m /\ k <= n => f[k] = g[k]}
<1>1. 0 \in S
  BY DEF Folds
<1>2. ASSUME NEW k \in S PROVE k + 1 \in S
  <2> SUFFICES ASSUME k + 1 <= m, k + 1 <= n PROVE f[k + 1] = g[k + 1]
    OBVIOUS
  <2>1. k \in Nat /\ f[k] = g[k]
    BY <1>2
  <2>2. k + 1 \in 0..m /\ k + 1 \in 0..n /\ k + 1 # 0 /\ (k + 1) - 1 = k
    BY <2>1
  <2>3. f[k + 1] = Replay(f[(k + 1) - 1], lines[k + 1].record)
    BY <2>2 DEF Folds
  <2>4. g[k + 1] = Replay(g[(k + 1) - 1], lines[k + 1].record)
    BY <2>2 DEF Folds
  <2> QED BY <2>1, <2>2, <2>3, <2>4
<1> HIDE DEF S
<1>3. S = Nat
  <2>1. S \in SUBSET Nat
    BY DEF S
  <2> QED BY <1>1, <1>2, <2>1, CountingUp
<1> QED BY <1>3 DEF S

\* Fold is what such a function ends with.
LEMMA FoldIs ==
  ASSUME NEW lines, Len(lines) \in Nat, NEW f, Folds(f, lines, Len(lines))
  PROVE  Fold(lines) = f[Len(lines)]
<1> DEFINE n == Len(lines)
           fold == CHOOSE g : Folds(g, lines, n)
<1>1. Folds(fold, lines, n)
  OBVIOUS
<1>2. fold[n] = f[n]
  <2> HIDE DEF fold
  <2> QED BY <1>1, FoldUnique
<1>3. Fold(lines) = fold[n]
  BY DEF Fold, Folds
<1> QED BY <1>2, <1>3
\* Nothing is recovered from no lines.
LEMMA FoldNone ==
  ASSUME NEW lines, Len(lines) = 0
  PROVE  Fold(lines) = NothingRecovered
<1>1. PICK f : Folds(f, lines, 0)
  BY FoldExists
<1>2. f[0] = NothingRecovered
  BY <1>1 DEF Folds
<1> QED BY <1>1, <1>2, FoldIs

\* One more line is one more record replayed.
LEMMA FoldAppend ==
  ASSUME NEW T, NEW lines \in Seq(T), NEW line \in T
  PROVE  Fold(Append(lines, line)) = Replay(Fold(lines), line.record)
<1> DEFINE n == Len(lines)
           more == Append(lines, line)
<1>1. /\ n \in Nat /\ Len(more) = n + 1 /\ more[n + 1] = line
      /\ \A k \in 1..n : more[k] = lines[k]
  BY AppendProperties, LenProperties
<1> HIDE DEF n, more
<1>2. PICK f : Folds(f, more, n + 1)
  <2>1. n + 1 \in Nat
    BY <1>1
  <2> QED BY <2>1, FoldExists
<1>3. PICK g : Folds(g, lines, n)
  BY <1>1, FoldExists
<1> DEFINE S == {k \in Nat : k <= n => f[k] = g[k]}
<1>4. S = Nat
  <2>1. 0 \in S
    BY <1>1, <1>2, <1>3 DEF Folds
  <2>2. ASSUME NEW k \in S PROVE k + 1 \in S
    <3> SUFFICES ASSUME k + 1 <= n PROVE f[k + 1] = g[k + 1]
      OBVIOUS
    <3>1. k \in Nat /\ f[k] = g[k]
      BY <1>1, <2>2
    <3>2. k + 1 \in 0..(n + 1) /\ k + 1 \in 0..n /\ k + 1 # 0 /\ (k + 1) - 1 = k /\ k + 1 \in 1..n
      BY <1>1, <3>1
    <3>3. f[k + 1] = Replay(f[(k + 1) - 1], more[k + 1].record)
      BY <1>2, <3>2 DEF Folds
    <3>4. g[k + 1] = Replay(g[(k + 1) - 1], lines[k + 1].record)
      BY <1>3, <3>2 DEF Folds
    <3> QED BY <1>1, <3>1, <3>2, <3>3, <3>4
  <2>3. S \in SUBSET Nat
    OBVIOUS
  <2> HIDE DEF S
  <2> QED BY <2>1, <2>2, <2>3, CountingUp
<1>5. f[n] = g[n]
  BY <1>1, <1>4
<1>6. f[n + 1] = Replay(f[(n + 1) - 1], more[n + 1].record)
  <2>1. n + 1 \in 0..(n + 1) /\ n + 1 # 0
    BY <1>1
  <2> QED BY <1>2, <2>1 DEF Folds
<1>7. Fold(lines) = g[n]
  BY <1>1, <1>3, FoldIs DEF n
<1>8. Fold(more) = f[n + 1]
  BY <1>1, <1>2, FoldIs
<1>9. (n + 1) - 1 = n
  BY <1>1
<1> QED BY <1>1, <1>5, <1>6, <1>7, <1>8, <1>9 DEF more
-----------------------------------------------------------------------------
(***************************************************************************)
(* Lines and beginnings of files.                                          *)
(***************************************************************************)
\* The beginning of a sequence.
LEMMA Beginning ==
  ASSUME NEW T, NEW s \in Seq(T), NEW n \in 0..Len(s)
  PROVE  /\ SubSeq(s, 1, n) \in Seq(T) /\ Len(SubSeq(s, 1, n)) = n
         /\ \A i \in 1..n : SubSeq(s, 1, n)[i] = s[i]
<1>1. Len(s) \in Nat /\ n \in Nat
  BY LenProperties
<1>2. \A i \in 1..n : s[i] \in T
  BY <1>1, ElementOfSeq
<1>3. /\ SubSeq(s, 1, n) \in Seq(T)
      /\ Len(SubSeq(s, 1, n)) = IF 1 <= n THEN n - 1 + 1 ELSE 0
      /\ \A i \in 1..n - 1 + 1 : SubSeq(s, 1, n)[i] = s[1 + i - 1]
  BY <1>1, <1>2, SubSeqProperties
<1> QED BY <1>1, <1>3

\* A piece of a sequence.
LEMMA Piece ==
  ASSUME NEW T, NEW s \in Seq(T), NEW m \in Nat, m <= Len(s)
  PROVE  /\ SubSeq(s, m + 1, Len(s)) \in Seq(T)
         /\ Len(SubSeq(s, m + 1, Len(s))) = Len(s) - m
         /\ \A i \in 1..(Len(s) - m) : SubSeq(s, m + 1, Len(s))[i] = s[m + i]
<1> DEFINE k == m + 1
           p == SubSeq(s, k, Len(s))
<1>1. Len(s) \in Nat /\ k \in Nat /\ k >= 1
  BY LenProperties
<1>2. \A i \in k..Len(s) : s[i] \in T
  BY <1>1, ElementOfSeq
<1>3. /\ p \in Seq(T)
      /\ Len(p) = IF k <= Len(s) THEN Len(s) - k + 1 ELSE 0
      /\ \A i \in 1..Len(s) - k + 1 : p[i] = s[k + i - 1]
  <2> HIDE DEF k
  <2> QED BY <1>1, <1>2, SubSeqProperties
<1>4. Len(p) = Len(s) - m
  BY <1>1, <1>3
<1>5. \A i \in 1..(Len(s) - m) : p[i] = s[m + i]
  <2> TAKE i \in 1..(Len(s) - m)
  <2>1. i \in 1..Len(s) - k + 1 /\ k + i - 1 = m + i
    BY <1>1
  <2> QED BY <1>3, <2>1
<1> QED BY <1>3, <1>4, <1>5

\* Two sequences of one length with the same elements.
LEMMA SameSequence ==
  ASSUME NEW T, NEW s \in Seq(T), NEW t \in Seq(T), Len(s) = Len(t),
         \A i \in 1..Len(s) : s[i] = t[i]
  PROVE  s = t
BY SeqEqual

\* A beginning of a beginning.
LEMMA BeginningTwice ==
  ASSUME NEW T, NEW s \in Seq(T), NEW n \in 0..Len(s), NEW m \in 0..n
  PROVE  SubSeq(SubSeq(s, 1, n), 1, m) = SubSeq(s, 1, m)
<1>1. Len(s) \in Nat /\ n \in Nat /\ m \in Nat /\ m \in 0..Len(s)
  BY LenProperties
<1> DEFINE a == SubSeq(s, 1, n)
           b == SubSeq(a, 1, m)
           c == SubSeq(s, 1, m)
<1>2. a \in Seq(T) /\ Len(a) = n /\ \A i \in 1..n : a[i] = s[i]
  BY Beginning
<1>3. c \in Seq(T) /\ Len(c) = m /\ \A i \in 1..m : c[i] = s[i]
  BY <1>1, Beginning
<1> HIDE DEF a, c
<1>4. b \in Seq(T) /\ Len(b) = m /\ \A i \in 1..m : b[i] = a[i]
  BY <1>2, Beginning
<1> HIDE DEF b
<1>5. \A i \in 1..m : b[i] = c[i]
  BY <1>1, <1>2, <1>3, <1>4
<1>6. b = c
  BY <1>3, <1>4, <1>5, SameSequence
<1> QED BY <1>6 DEF a, b, c

\* Appending leaves the beginnings.
LEMMA BeginningOfAppend ==
  ASSUME NEW T, NEW s \in Seq(T), NEW x \in T, NEW n \in 0..Len(s)
  PROVE  SubSeq(Append(s, x), 1, n) = SubSeq(s, 1, n)
<1>1. Len(s) \in Nat /\ n \in Nat
  BY LenProperties
<1> DEFINE u == Append(s, x)
           a == SubSeq(u, 1, n)
           c == SubSeq(s, 1, n)
<1>2. u \in Seq(T) /\ Len(u) = Len(s) + 1 /\ \A i \in 1..Len(s) : u[i] = s[i]
  BY AppendProperties
<1> HIDE DEF u
<1>3. a \in Seq(T) /\ Len(a) = n /\ \A i \in 1..n : a[i] = u[i]
  BY <1>1, <1>2, Beginning
<1>4. c \in Seq(T) /\ Len(c) = n /\ \A i \in 1..n : c[i] = s[i]
  BY Beginning
<1> HIDE DEF a, c
<1>5. \A i \in 1..n : a[i] = c[i]
  BY <1>1, <1>2, <1>3, <1>4
<1>6. a = c
  BY <1>3, <1>4, <1>5, SameSequence
<1> QED BY <1>6 DEF a, c, u

\* Whole lines verify, a torn one does not.
LEMMA ValidUpTo ==
  ASSUME NEW lines \in Seq(FileLine), NEW n \in 0..Len(lines),
         \A i \in 1..n : lines[i].form = "whole",
         n < Len(lines) => lines[n + 1].form = "torn"
  PROVE  ValidPrefix(lines) = n
<1> DEFINE P(k) == /\ \A i \in 1..k : Verifies(lines[i])
                   /\ k < Len(lines) => ~ Verifies(lines[k + 1])
<1>1. Len(lines) \in Nat /\ n \in Nat
  BY LenProperties
<1>2. "torn" # "whole" /\ "torn" # "unterminated"
  OBVIOUS
<1>3. P(n)
  BY <1>2 DEF Verifies
<1>4. \A k \in 0..Len(lines) : P(k) => k = n
  <2> SUFFICES ASSUME NEW k \in 0..Len(lines), P(k), k # n PROVE FALSE
    OBVIOUS
  <2>1. CASE k < n
    <3>1. k + 1 \in 1..n /\ k < Len(lines)
      BY <1>1, <2>1
    <3> QED BY <3>1 DEF Verifies
  <2>2. CASE n < k
    <3>1. n + 1 \in 1..k /\ n < Len(lines)
      BY <1>1, <2>2
    <3> QED BY <1>3, <3>1
  <2> QED BY <1>1, <2>1, <2>2
<1>5. ValidPrefix(lines) = CHOOSE k \in 0..Len(lines) : P(k)
  BY DEF ValidPrefix
<1> HIDE DEF P
<1> QED BY <1>3, <1>4, <1>5

\* What verifies of the file of a node that is down, and of one that runs.
\* What verifies of a sound file is all of it but a torn last line.
LEMMA ValidLines ==
  ASSUME NEW lines, NEW from, NEW lg, FileSound(lines, from, lg)
  PROVE  /\ lines \in Seq(FileLine) /\ Len(lines) \in Nat /\ from \in 0..Len(lines)
         /\ ValidPrefix(lines) \in 0..Len(lines)
         /\ ValidPrefix(lines) >= Len(lines) - 1
         /\ \A n \in 1..ValidPrefix(lines) : lines[n].form = "whole"
         /\ ValidPrefix(lines) < Len(lines) => lines[Len(lines)].form = "torn"
         /\ AllWhole(lines) => ValidPrefix(lines) = Len(lines) /\ Finds(lines) = Fold(lines)
<1>1. lines \in Seq(FileLine) /\ Len(lines) \in Nat /\ from \in 0..Len(lines)
  <2>1. lines \in Seq(FileLine) /\ from \in 0..Len(lines)
    BY DEF FileSound
  <2> QED BY <2>1, LenProperties
<1>2. CASE Len(lines) > 0 /\ lines[Len(lines)].form = "torn"
  <2> DEFINE n == Len(lines) - 1
  <2>1. n \in 0..Len(lines) /\ n + 1 = Len(lines) /\ n >= Len(lines) - 1
    BY <1>1, <1>2
  <2>2. \A i \in 1..n : lines[i].form = "whole"
    <3>1. \A i \in 1..Len(lines) : i = Len(lines) \/ lines[i].form = "whole"
      BY DEF FileSound
    <3>2. \A i \in 1..n : i \in 1..Len(lines) /\ i # Len(lines)
      BY <1>1
    <3> QED BY <3>1, <3>2
  <2>3. ValidPrefix(lines) = n
    <3> HIDE DEF n
    <3> QED BY <1>1, <1>2, <2>1, <2>2, ValidUpTo
  <2>4. ~ AllWhole(lines)
    <3>1. Len(lines) \in 1..Len(lines)
      BY <1>1, <1>2
    <3>2. lines[Len(lines)].form # "whole"
      BY <1>2
    <3> QED BY <3>1, <3>2 DEF AllWhole
  <2> QED BY <1>1, <1>2, <2>1, <2>2, <2>3, <2>4
<1>3. CASE ~ (Len(lines) > 0 /\ lines[Len(lines)].form = "torn")
  <2>1. \A i \in 1..Len(lines) : lines[i].form = "whole"
    <3> TAKE i \in 1..Len(lines)
    <3>1. Len(lines) > 0
      BY <1>1
    <3> QED BY <1>3, <3>1 DEF FileSound
  <2>2. Len(lines) \in 0..Len(lines) /\ ~ (Len(lines) < Len(lines))
    BY <1>1
  <2>3. ValidPrefix(lines) = Len(lines)
    BY <1>1, <2>1, <2>2, ValidUpTo
  <2>4. Finds(lines) = Fold(lines)
    <3>1. SubSeq(lines, 1, Len(lines)) = lines
      BY <1>1, SubSeqFull
    <3> QED BY <2>3, <3>1 DEF Finds, Until
  <2> QED BY <1>1, <2>1, <2>2, <2>3, <2>4
<1> QED BY <1>2, <1>3
-----------------------------------------------------------------------------
(***************************************************************************)
(* Replaying one more record.                                              *)
(***************************************************************************)
\* What is decided only grows.
Grows(lg, more) ==
    Len(lg) <= Len(more) /\ \A i \in 1..Len(lg) : more[i] = lg[i]

\* A sound recovery stays sound when more is decided.
LEMMA SoundGrows ==
  ASSUME NEW r, NEW lg \in Seq(1..MaxTerm), NEW more \in Seq(1..MaxTerm),
         Sound(r, lg), Grows(lg, more)
  PROVE  Sound(r, more)
<1>1. Len(lg) \in Nat /\ Len(more) \in Nat /\ Len(lg) <= Len(more)
  BY LenProperties DEF Grows
<1>2. /\ r.base \in Nat /\ r.commit \in Nat /\ r.commit <= Len(lg)
      /\ Len(r.entries) \in Nat
  BY LenProperties DEF Sound, Recovery
<1>3. r.commit <= Len(more)
  BY <1>1, <1>2
<1>4. ASSUME NEW i \in 1..Len(r.entries), r.base + i <= r.commit
      PROVE  r.entries[i] = more[r.base + i]
  <2>1. r.base + i \in 1..Len(lg)
    BY <1>1, <1>2, <1>4
  <2>2. r.entries[i] = lg[r.base + i]
    BY <1>4 DEF Sound
  <2> QED BY <2>1, <2>2 DEF Grows
<1> QED BY <1>3, <1>4 DEF Sound

\* A term record, of a term no lower.
LEMMA TermSound ==
  ASSUME NEW r, NEW lg, Sound(r, lg), NEW t \in 0..MaxTerm, r.term <= t,
         NEW v \in Voter \cup {Nil}, NEW s, s = Replay(r, TermRecord(t, v))
  PROVE  /\ Sound(s, lg) /\ TermRecord(t, v) \in LogRecord
         /\ s.base = r.base /\ s.entries = r.entries /\ s.commit = r.commit
         /\ s.term = t /\ s.voted_for = v
<1>1. TermRecord(t, v) \in LogRecord
  BY BoundAssumption DEF TermRecord, LogRecord
<1>2. Replay(r, TermRecord(t, v)) = ReplayTerm(r, TermRecord(t, v))
  BY DEF Replay, TermRecord
<1>3. s = [r EXCEPT !.ok = r.ok /\ t >= r.term, !.term = t, !.voted_for = v]
  BY <1>2 DEF ReplayTerm, TermRecord
<1>4. r \in Recovery /\ r.ok /\ r.term \in 0..MaxTerm
  BY DEF Sound, Recovery
<1>5. t >= r.term
  BY <1>4, BoundAssumption
<1>6. s \in Recovery
  BY <1>3, <1>4 DEF Recovery
<1>7. /\ s.ok /\ s.term = t /\ s.voted_for = v /\ s.base = r.base
      /\ s.entries = r.entries /\ s.commit = r.commit
  BY <1>3, <1>4, <1>5 DEF Recovery
<1>8. ASSUME NEW i \in 1..Len(s.entries)
      PROVE  /\ s.entries[i] <= s.term
             /\ s.base + i <= s.commit => s.entries[i] = lg[s.base + i]
  <2>1. r.entries \in Seq(1..MaxTerm) /\ i \in 1..Len(r.entries)
    BY <1>4, <1>7, <1>8 DEF Recovery
  <2>2. r.entries[i] \in 1..MaxTerm
    BY <2>1, ElementOfSeq
  <2>3. r.entries[i] <= r.term /\ (r.base + i <= r.commit => r.entries[i] = lg[r.base + i])
    BY <2>1 DEF Sound
  <2> QED BY <1>4, <1>5, <1>7, <2>2, <2>3, BoundAssumption
<1>9. s.base <= s.commit /\ s.commit <= LastRecovered(s) /\ s.commit <= Len(lg)
  BY <1>7 DEF Sound, LastRecovered
<1> QED BY <1>1, <1>6, <1>7, <1>8, <1>9 DEF Sound

\* The record of the next entry.
LEMMA EntrySound ==
  ASSUME NEW r, NEW lg, Sound(r, lg), NEW t \in 1..MaxTerm,
         NEW i \in Nat, i = LastRecovered(r) + 1, NEW s, s = Replay(r, EntryRecord(i, t))
  PROVE  /\ Sound(s, lg) /\ EntryRecord(i, t) \in LogRecord
         /\ s.base = r.base /\ s.entries = Append(r.entries, t) /\ s.commit = r.commit
         /\ s.term = MaxOf(r.term, t) /\ s.voted_for = r.voted_for
<1>1. EntryRecord(i, t) \in LogRecord
  BY DEF EntryRecord, LogRecord
<1>2. Replay(r, EntryRecord(i, t)) = ReplayEntry(r, EntryRecord(i, t))
  BY DEF Replay, EntryRecord
<1>3. s = [r EXCEPT !.ok = r.ok /\ i = LastRecovered(r) + 1, !.term = MaxOf(r.term, t),
                    !.entries = Append(r.entries, t)]
  BY <1>2 DEF ReplayEntry, EntryRecord
<1>4. /\ r \in Recovery /\ r.ok /\ r.term \in 0..MaxTerm /\ r.base \in Nat
      /\ r.commit \in Nat /\ r.entries \in Seq(1..MaxTerm)
  BY DEF Sound, Recovery
<1> DEFINE top == MaxOf(r.term, t)
           longer == Append(r.entries, t)
<1>5. top \in 0..MaxTerm /\ r.term <= top /\ t <= top
  BY <1>4, BoundAssumption DEF MaxOf
<1>6. /\ Len(r.entries) \in Nat /\ longer \in Seq(1..MaxTerm)
      /\ Len(longer) = Len(r.entries) + 1
      /\ \A k \in 1..Len(r.entries) : longer[k] = r.entries[k]
      /\ longer[Len(r.entries) + 1] = t
  BY <1>4, AppendProperties, LenProperties
<1> HIDE DEF top, longer
<1>7. s \in Recovery
  <2>1. s = [r EXCEPT !.ok = r.ok /\ i = LastRecovered(r) + 1, !.term = top,
                      !.entries = longer]
    BY <1>3 DEF top, longer
  <2> QED BY <1>4, <1>5, <1>6, <2>1 DEF Recovery
<1>8. /\ s.ok /\ s.term = top /\ s.voted_for = r.voted_for /\ s.base = r.base
      /\ s.entries = longer /\ s.commit = r.commit
  BY <1>3, <1>4 DEF Recovery, top, longer
<1>9. r.commit <= r.base + Len(r.entries)
  BY DEF Sound, LastRecovered
<1>10. ASSUME NEW k \in 1..Len(s.entries)
       PROVE  /\ s.entries[k] <= s.term
              /\ s.base + k <= s.commit => s.entries[k] = lg[s.base + k]
  <2>1. CASE k \in 1..Len(r.entries)
    <3>1. r.entries[k] <= r.term /\ (r.base + k <= r.commit => r.entries[k] = lg[r.base + k])
      BY <2>1 DEF Sound
    <3>2. r.entries[k] \in 1..MaxTerm
      BY <1>4, <2>1, ElementOfSeq
    <3>3. s.entries[k] = r.entries[k]
      BY <1>6, <1>8, <2>1
    <3>4. s.entries[k] <= s.term
      <4>1. MaxTerm \in Nat /\ top \in Int /\ r.term \in Int /\ r.entries[k] \in Int
        BY <1>4, <1>5, <3>2, BoundAssumption
      <4>2. r.entries[k] <= top
        BY ONLY <1>5, <3>1, <4>1
      <4> QED BY ONLY <1>8, <3>3, <4>2
    <3>5. s.base + k <= s.commit => s.entries[k] = lg[s.base + k]
      BY ONLY <1>8, <3>1, <3>3
    <3> QED BY ONLY <3>4, <3>5
  <2>2. CASE k = Len(r.entries) + 1
    <3>1. s.entries[k] = t /\ t <= s.term
      BY <1>5, <1>6, <1>8, <2>2
    <3>2. ~ (r.base + k <= r.commit)
      BY <1>4, <1>6, <1>9, <2>2
    <3> QED BY ONLY <1>8, <3>1, <3>2
  <2> QED BY <1>6, <1>8, <1>10, <2>1, <2>2
<1>11. s.base <= s.commit /\ s.commit <= LastRecovered(s) /\ s.commit <= Len(lg)
  <2>1. r.base <= r.commit /\ r.commit <= Len(lg)
    BY DEF Sound
  <2>2. Len(s.entries) = Len(r.entries) + 1
    BY <1>6, <1>8
  <2>3. LastRecovered(s) = r.base + (Len(r.entries) + 1)
    BY <1>8, <2>2 DEF LastRecovered
  <2>4. r.commit <= r.base + (Len(r.entries) + 1)
    BY <1>4, <1>6, <1>9
  <2> QED BY <1>8, <2>1, <2>3, <2>4
<1> QED BY <1>1, <1>7, <1>8, <1>10, <1>11 DEF Sound, top, longer

\* The record of a truncation of what is not committed.
LEMMA TruncateSound ==
  ASSUME NEW r, NEW lg, Sound(r, lg), NEW i \in Nat, r.commit < i, i <= LastRecovered(r),
         NEW s, s = Replay(r, TruncateRecord(i))
  PROVE  /\ Sound(s, lg) /\ TruncateRecord(i) \in LogRecord
         /\ s.base = r.base /\ s.entries = SubSeq(r.entries, 1, i - r.base - 1)
         /\ s.commit = r.commit /\ s.term = r.term /\ s.voted_for = r.voted_for
<1>1. TruncateRecord(i) \in LogRecord
  BY DEF TruncateRecord, LogRecord
<1>2. Replay(r, TruncateRecord(i)) = ReplayTruncate(r, TruncateRecord(i))
  BY DEF Replay, TruncateRecord
<1> DEFINE k == i - r.base - 1
           kept == SubSeq(r.entries, 1, k)
<1>3. s = [r EXCEPT !.ok = r.ok /\ r.base < i /\ i <= LastRecovered(r), !.entries = kept]
  BY <1>2 DEF ReplayTruncate, TruncateRecord
<1>4. /\ r \in Recovery /\ r.ok /\ r.term \in 0..MaxTerm /\ r.base \in Nat
      /\ r.commit \in Nat /\ r.entries \in Seq(1..MaxTerm) /\ Len(r.entries) \in Nat
      /\ r.base <= r.commit /\ i <= r.base + Len(r.entries)
  BY LenProperties DEF Sound, Recovery, LastRecovered
<1>5. r.base < i /\ k \in 0..Len(r.entries) /\ r.base + k = i - 1 /\ k \in Nat
  BY <1>4
<1> HIDE DEF k
<1>6. /\ kept \in Seq(1..MaxTerm) /\ Len(kept) = k
      /\ \A j \in 1..k : kept[j] = r.entries[j]
  BY <1>4, <1>5, Beginning
<1> HIDE DEF kept
<1>7. s \in Recovery
  BY <1>3, <1>4, <1>5, <1>6 DEF Recovery
<1>8. /\ s.ok /\ s.term = r.term /\ s.voted_for = r.voted_for /\ s.base = r.base
      /\ s.entries = kept /\ s.commit = r.commit
  BY <1>3, <1>4, <1>5 DEF Recovery
<1>9. ASSUME NEW j \in 1..Len(s.entries)
      PROVE  /\ s.entries[j] <= s.term
             /\ s.base + j <= s.commit => s.entries[j] = lg[s.base + j]
  <2>1. j \in 1..k /\ j \in 1..Len(r.entries)
    BY <1>4, <1>5, <1>6, <1>8, <1>9
  <2>2. r.entries[j] <= r.term /\ (r.base + j <= r.commit => r.entries[j] = lg[r.base + j])
    BY <2>1 DEF Sound
  <2> QED BY <1>6, <1>8, <2>1, <2>2
<1>10. s.base <= s.commit /\ s.commit <= LastRecovered(s) /\ s.commit <= Len(lg)
  BY <1>4, <1>5, <1>6, <1>8 DEF Sound, LastRecovered
<1> QED BY <1>1, <1>7, <1>8, <1>9, <1>10 DEF Sound, kept, k

\* The record of a commit index that the log reaches and that is decided.
LEMMA CommitSound ==
  ASSUME NEW r, NEW lg, Sound(r, lg), NEW i \in Nat, r.commit <= i, i <= LastRecovered(r),
         i <= Len(lg),
         \A k \in 1..Len(r.entries) : r.base + k <= i => r.entries[k] = lg[r.base + k],
         NEW s, s = Replay(r, CommitRecord(i))
  PROVE  /\ Sound(s, lg) /\ CommitRecord(i) \in LogRecord
         /\ s.base = r.base /\ s.entries = r.entries /\ s.commit = i
         /\ s.term = r.term /\ s.voted_for = r.voted_for
<1>1. CommitRecord(i) \in LogRecord
  BY DEF CommitRecord, LogRecord
<1>2. Replay(r, CommitRecord(i)) = ReplayCommit(r, CommitRecord(i))
  BY DEF Replay, CommitRecord
<1>3. s = [r EXCEPT !.ok = r.ok /\ r.commit <= i /\ i <= LastRecovered(r), !.commit = i]
  BY <1>2 DEF ReplayCommit, CommitRecord
<1>4. r \in Recovery /\ r.ok /\ r.base \in Nat /\ r.commit \in Nat /\ r.base <= r.commit
  BY DEF Sound, Recovery
<1>5. s \in Recovery
  BY <1>3, <1>4 DEF Recovery
<1>6. /\ s.ok /\ s.term = r.term /\ s.voted_for = r.voted_for /\ s.base = r.base
      /\ s.entries = r.entries /\ s.commit = i
  BY <1>3, <1>4 DEF Recovery
<1>7. \A k \in 1..Len(s.entries) :
          /\ s.entries[k] <= s.term
          /\ s.base + k <= s.commit => s.entries[k] = lg[s.base + k]
  BY <1>6 DEF Sound
<1>8. s.base <= s.commit /\ s.commit <= LastRecovered(s) /\ s.commit <= Len(lg)
  BY <1>4, <1>6 DEF LastRecovered
<1> QED BY <1>1, <1>5, <1>6, <1>7, <1>8 DEF Sound
-----------------------------------------------------------------------------
(***************************************************************************)
(* What a step does to the file.                                           *)
(***************************************************************************)
\* A file stays sound when more is decided, and when more of it is synced.
LEMMA FileStays ==
  ASSUME NEW lines, NEW from, NEW lg \in Seq(1..MaxTerm), FileSound(lines, from, lg),
         NEW later \in from..Len(lines), NEW more \in Seq(1..MaxTerm), Grows(lg, more)
  PROVE  FileSound(lines, later, more)
<1>1. Len(lines) \in Nat /\ from \in 0..Len(lines) /\ later \in 0..Len(lines)
      /\ lines \in Seq(FileLine) /\ ValidPrefix(lines) \in 0..Len(lines)
  BY ValidLines
<1>2. ASSUME NEW n \in 0..ValidPrefix(lines), later <= n \/ n = ValidPrefix(lines)
      PROVE  Sound(Until(lines, n), more) /\ Until(lines, n).base = Finds(lines).base
  <2>1. from <= n \/ n = ValidPrefix(lines)
    BY <1>1, <1>2
  <2>2. Sound(Until(lines, n), lg) /\ Until(lines, n).base = Finds(lines).base
    BY <2>1 DEF FileSound
  <2>3. Sound(Until(lines, n), more)
    BY <2>2, SoundGrows
  <2> QED BY <2>2, <2>3
<1> QED BY <1>1, <1>2 DEF FileSound

\* A record put behind whole lines.
LEMMA RecordAdds ==
  ASSUME NEW lines, NEW from, NEW lg, FileSound(lines, from, lg), AllWhole(lines),
         NEW rec \in LogRecord, NEW more, more = AppendLine(lines, rec)
  PROVE  /\ more \in Seq(FileLine) /\ Len(more) = Len(lines) + 1 /\ AllWhole(more)
         /\ ValidPrefix(lines) = Len(lines) /\ ValidPrefix(more) = Len(lines) + 1
         /\ Finds(more) = Replay(Finds(lines), rec)
         /\ \A k \in 0..Len(lines) :
               SubSeq(more, 1, k) = SubSeq(lines, 1, k) /\ Until(more, k) = Until(lines, k)
<1> DEFINE line == Line(rec, "whole")
           m == Len(lines)
<1>1. /\ lines \in Seq(FileLine) /\ m \in Nat
      /\ ValidPrefix(lines) = m /\ Finds(lines) = Fold(lines)
      /\ \A i \in 1..m : lines[i].form = "whole"
  BY ValidLines DEF AllWhole
<1>2. line.form = "whole" /\ line.record = rec
  BY DEF Line
<1>3. line \in FileLine
  BY DEF Line, FileLine
<1>4. more = Append(lines, line)
  <2>1. lines # <<>> => m \in 1..m
    BY <1>1, EmptySeq
  <2>2. ~ (lines # <<>> /\ Last(lines).form = "unterminated")
    <3>1. lines # <<>> => lines[m].form = "whole"
      BY <1>1, <2>1
    <3>2. "whole" # "unterminated"
      OBVIOUS
    <3> QED BY <3>1, <3>2 DEF Last
  <2> QED BY <2>2 DEF AppendLine
<1> HIDE DEF line, m
<1>5. /\ more \in Seq(FileLine) /\ Len(more) = m + 1 /\ more[m + 1] = line
      /\ \A i \in 1..m : more[i] = lines[i]
  BY <1>1, <1>3, <1>4, AppendProperties DEF m
<1>6. Fold(more) = Replay(Finds(lines), rec)
  BY <1>1, <1>2, <1>3, <1>4, FoldAppend
<1>7. \A i \in 1..(m + 1) : more[i].form = "whole"
  BY <1>1, <1>2, <1>5
<1>8. \A k \in 0..m : SubSeq(more, 1, k) = SubSeq(lines, 1, k)
  BY <1>1, <1>3, <1>4, BeginningOfAppend DEF m
<1>9. ValidPrefix(more) = m + 1
  <2>1. m + 1 \in 0..Len(more) /\ ~ (m + 1 < Len(more))
    BY <1>1, <1>5
  <2> QED BY <1>5, <1>7, <2>1, ValidUpTo
<1>10. Finds(more) = Replay(Finds(lines), rec)
  <2>1. SubSeq(more, 1, m + 1) = more
    BY <1>5, SubSeqFull
  <2> QED BY <1>6, <1>9, <2>1 DEF Until, Finds
<1>11. AllWhole(more)
  BY <1>5, <1>7 DEF AllWhole
<1>12. \A k \in 0..m : Until(more, k) = Until(lines, k)
  BY <1>8 DEF Until
<1> QED BY <1>1, <1>5, <1>8, <1>9, <1>10, <1>11, <1>12 DEF m

\* What a record brings back is sound if one step of the recovery makes it so.
LEMMA AppendSound ==
  ASSUME NEW lines, NEW from, NEW lg, FileSound(lines, from, lg), AllWhole(lines),
         NEW rec \in LogRecord, NEW s, s = Replay(Finds(lines), rec),
         Sound(s, lg), s.base = Finds(lines).base
  PROVE  /\ FileSound(AppendLine(lines, rec), from, lg)
         /\ AllWhole(AppendLine(lines, rec)) /\ Finds(AppendLine(lines, rec)) = s
<1> DEFINE more == AppendLine(lines, rec)
           m == Len(lines)
<1>1. /\ m \in Nat /\ from \in 0..m /\ ValidPrefix(lines) = m
  BY ValidLines
<1>2. more = AppendLine(lines, rec)
  OBVIOUS
<1> HIDE DEF more
<1>3. /\ more \in Seq(FileLine) /\ Len(more) = m + 1 /\ AllWhole(more)
      /\ ValidPrefix(more) = m + 1 /\ Finds(more) = s
      /\ \A k \in 0..m : Until(more, k) = Until(lines, k)
  BY <1>2, RecordAdds
<1> HIDE DEF m
<1>4. ASSUME NEW k \in 0..(m + 1), from <= k \/ k = m + 1
      PROVE  Sound(Until(more, k), lg) /\ Until(more, k).base = Finds(more).base
  <2>1. CASE k = m + 1
    BY <1>3, <2>1 DEF Finds
  <2>2. CASE k # m + 1
    <3>1. k \in 0..m /\ from <= k
      BY <1>1, <1>4, <2>2
    <3>2. Sound(Until(lines, k), lg) /\ Until(lines, k).base = Finds(lines).base
      BY <1>1, <3>1 DEF FileSound
    <3> QED BY <1>3, <3>1, <3>2
  <2> QED BY <2>1, <2>2
<1>5. from \in 0..Len(more)
  BY <1>1, <1>3
<1>6. FileSound(more, from, lg)
  BY <1>3, <1>4, <1>5 DEF FileSound, AllWhole
<1> QED BY <1>2, <1>3, <1>6

\* The first n lines, and what was written of the next.
Torn(lines, n, rec) == Append(SubSeq(lines, 1, n), Line(rec, "torn"))

\* What a power loss leaves of whole lines: some that were synced and any number
\* of those behind them, and perhaps a torn one.
LEMMA LeftSound ==
  ASSUME NEW lines, NEW from, NEW lg, FileSound(lines, from, lg), AllWhole(lines),
         NEW n \in from..Len(lines), NEW rec \in LogRecord, NEW left,
         left = SubSeq(lines, 1, n) \/ left = Torn(lines, n, rec)
  PROVE  /\ FileSound(left, Len(left), lg)
         /\ ValidPrefix(left) = n /\ Finds(left) = Until(lines, n)
         /\ Finds(left).base = Finds(lines).base
         /\ SubSeq(left, 1, n) = SubSeq(lines, 1, n)
<1> DEFINE cut == SubSeq(lines, 1, n)
           line == Line(rec, "torn")
<1>1. /\ lines \in Seq(FileLine) /\ Len(lines) \in Nat /\ n \in 0..Len(lines) /\ n \in Nat
      /\ ValidPrefix(lines) = Len(lines) /\ from <= n
      /\ \A i \in 1..Len(lines) : lines[i].form = "whole"
  BY ValidLines DEF AllWhole
<1>2. /\ cut \in Seq(FileLine) /\ Len(cut) = n
      /\ \A i \in 1..n : cut[i] = lines[i]
  BY <1>1, Beginning
<1>3. line \in FileLine /\ line.form = "torn"
  BY DEF Line, FileLine
<1>4. left = cut \/ left = Append(cut, line)
  BY DEF Torn
<1> HIDE DEF cut, line
<1>5. /\ left \in Seq(FileLine) /\ Len(left) \in n..(n + 1)
      /\ \A i \in 1..n : left[i] = lines[i]
      /\ Len(left) = n + 1 => left[n + 1] = line
  <2>1. CASE left = cut
    BY <1>1, <1>2, <2>1
  <2>2. CASE left = Append(cut, line)
    BY <1>1, <1>2, <1>3, <2>2, AppendProperties
  <2> QED BY <1>4, <2>1, <2>2
<1>6. /\ \A i \in 1..n : left[i].form = "whole"
      /\ n < Len(left) => Len(left) = n + 1 /\ left[n + 1].form = "torn"
  BY <1>1, <1>3, <1>5
<1>7. n \in 0..Len(left)
  BY <1>1, <1>5
<1>8. ValidPrefix(left) = n
  BY <1>5, <1>6, <1>7, ValidUpTo
<1>9. SubSeq(left, 1, n) = cut
  <2>1. CASE left = cut
    BY <1>2, <2>1, SubSeqFull
  <2>2. CASE left = Append(cut, line)
    <3>1. n \in 0..Len(cut)
      BY <1>1, <1>2
    <3>2. SubSeq(left, 1, n) = SubSeq(cut, 1, n)
      BY <1>2, <1>3, <2>2, <3>1, BeginningOfAppend
    <3> QED BY <1>2, <3>2, SubSeqFull
  <2> QED BY <1>4, <2>1, <2>2
<1>10. Until(left, n) = Until(lines, n) /\ Finds(left) = Until(lines, n)
  BY <1>8, <1>9 DEF Until, Finds, cut
<1>11. Sound(Until(lines, n), lg) /\ Until(lines, n).base = Finds(lines).base
  BY <1>1 DEF FileSound
<1>12. \A i \in 1..Len(left) :
          left[i].form = "whole" \/ (left[i].form = "torn" /\ i = Len(left))
  <2> TAKE i \in 1..Len(left)
  <2>1. CASE i \in 1..n
    BY <1>6, <2>1
  <2>2. CASE i \notin 1..n
    <3>1. i = n + 1 /\ Len(left) = n + 1
      BY <1>1, <1>5, <2>2
    <3> QED BY <1>1, <1>6, <3>1
  <2> QED BY <2>1, <2>2
<1>13. ASSUME NEW k \in 0..n, Len(left) <= k \/ k = n
       PROVE  Sound(Until(left, k), lg) /\ Until(left, k).base = Finds(left).base
  <2>1. k = n
    BY <1>1, <1>5, <1>13
  <2> QED BY <1>10, <1>11, <2>1
<1>14. Len(left) \in 0..Len(left)
  BY <1>1, <1>5
<1>15. FileSound(left, Len(left), lg)
  BY <1>5, <1>8, <1>12, <1>13, <1>14 DEF FileSound
<1> QED BY <1>8, <1>9, <1>10, <1>11, <1>15 DEF cut

\* The header alone is a file from which nothing is recovered.
LEMMA HeaderAlone ==
  ASSUME NEW lines, lines = Lines(<<HeaderRecord>>)
  PROVE  /\ lines \in Seq(FileLine) /\ Len(lines) = 1 /\ AllWhole(lines)
         /\ Until(lines, 0) = NothingRecovered /\ Until(lines, 1) = NothingRecovered
         /\ ValidPrefix(lines) = 1 /\ Finds(lines) = NothingRecovered
<1> DEFINE line == Line(HeaderRecord, "whole")
           none == SubSeq(lines, 1, 0)
<1>1. line \in FileLine /\ line.record = HeaderRecord /\ line.form = "whole"
  BY DEF Line, FileLine, LogRecord, HeaderRecord
<1>2. lines = <<line>>
  <2>1. DOMAIN <<HeaderRecord>> = 1..1 /\ <<HeaderRecord>>[1] = HeaderRecord
    OBVIOUS
  <2>2. lines = [i \in 1..1 |-> Line(<<HeaderRecord>>[i], "whole")]
    BY <2>1 DEF Lines
  <2>3. lines = [i \in 1..1 |-> line]
    BY <2>1, <2>2
  <2> HIDE DEF line
  <2>4. <<line>> = [i \in 1..1 |-> line]
    OBVIOUS
  <2> QED BY <2>3, <2>4
<1> HIDE DEF line
<1>3. /\ lines \in Seq(FileLine) /\ Len(lines) = 1 /\ lines[1] = line
      /\ lines = Append(<<>>, line)
  <2>1. Len(lines) = 1 /\ lines[1] = line
    BY <1>2
  <2>2. lines = Append(<<>>, line)
    BY <1>2
  <2>3. <<>> \in Seq(FileLine)
    OBVIOUS
  <2>4. lines \in Seq(FileLine)
    BY <1>1, <2>2, <2>3, AppendProperties
  <2> QED BY <2>1, <2>2, <2>4
<1>4. AllWhole(lines)
  BY <1>1, <1>3 DEF AllWhole
<1>5. ValidPrefix(lines) = 1
  <2>1. 1 \in 0..Len(lines) /\ ~ (1 < Len(lines))
    <3> DEFINE m == Len(lines)
    <3>1. m = 1
      BY <1>3
    <3> HIDE DEF m
    <3>2. 1 \in 0..m /\ ~ (1 < m)
      BY <3>1
    <3> QED BY <3>2 DEF m
  <2>2. \A i \in 1..1 : lines[i].form = "whole"
    BY <1>1, <1>3
  <2> QED BY <1>3, <2>1, <2>2, ValidUpTo
<1>6. Until(lines, 0) = NothingRecovered
  <2>1. none = <<>>
    BY SubSeqEmpty
  <2>2. Len(none) = 0
    BY <2>1
  <2> QED BY <2>2, FoldNone DEF Until
<1>7. Fold(<<>>) = NothingRecovered
  <2>1. Len(<<>>) = 0
    OBVIOUS
  <2> QED BY <2>1, FoldNone
<1>8. Until(lines, 1) = NothingRecovered
  <2>1. SubSeq(lines, 1, 1) = lines
    BY <1>3, SubSeqFull
  <2>2. <<>> \in Seq(FileLine)
    OBVIOUS
  <2>3. Fold(lines) = Replay(NothingRecovered, HeaderRecord)
    BY <1>1, <1>3, <1>7, <2>2, FoldAppend
  <2>4. Replay(NothingRecovered, HeaderRecord) = NothingRecovered
    BY DEF Replay, HeaderRecord
  <2> QED BY <2>1, <2>3, <2>4 DEF Until
<1> QED BY <1>3, <1>4, <1>5, <1>6, <1>8 DEF Finds

\* Nothing is a sound recovery.
LEMMA NothingSound ==
  ASSUME NEW lg \in Seq(1..MaxTerm)
  PROVE  Sound(NothingRecovered, lg)
<1> DEFINE r == NothingRecovered
<1>1. r \in Recovery
  BY BoundAssumption DEF NothingRecovered, Recovery
<1>2. r.ok /\ r.base = 0 /\ r.commit = 0 /\ r.entries = <<>> /\ Len(r.entries) = 0
  BY DEF NothingRecovered
<1>3. LastRecovered(r) = 0
  BY <1>2 DEF LastRecovered
<1>4. Len(lg) \in Nat
  BY LenProperties
<1> HIDE DEF r
<1>5. Sound(r, lg)
  BY <1>1, <1>2, <1>3, <1>4 DEF Sound
<1> QED BY <1>5 DEF r

\* What recover makes of a file.
LEMMA RepairedSound ==
  ASSUME NEW lines, NEW from, NEW lg \in Seq(1..MaxTerm), FileSound(lines, from, lg),
         NEW fixed, fixed = Repaired(lines),
         NEW s, s = IF from < Len(fixed) THEN from ELSE Len(fixed)
  PROVE  /\ FileSound(fixed, s, lg) /\ AllWhole(fixed) /\ Finds(fixed) = Finds(lines)
         /\ ValidPrefix(lines) = 0 => fixed = Lines(<<HeaderRecord>>)
         /\ ValidPrefix(lines) # 0 => fixed = SubSeq(lines, 1, ValidPrefix(lines))
<1> DEFINE n == ValidPrefix(lines)
           cut == SubSeq(lines, 1, n)
<1>1. /\ lines \in Seq(FileLine) /\ Len(lines) \in Nat /\ n \in 0..Len(lines) /\ n \in Nat
      /\ from \in 0..Len(lines) /\ \A i \in 1..n : lines[i].form = "whole"
  BY ValidLines
<1>2. /\ cut \in Seq(FileLine) /\ Len(cut) = n /\ \A i \in 1..n : cut[i] = lines[i]
  BY <1>1, Beginning
<1>3. /\ Sound(Finds(lines), lg)
      /\ \A k \in 0..n : from <= k =>
            Sound(Until(lines, k), lg) /\ Until(lines, k).base = Finds(lines).base
  BY <1>1 DEF FileSound, Finds
<1>4. fixed = IF cut = <<>> THEN Lines(<<HeaderRecord>>) ELSE cut
  BY DEF Repaired
<1>5. n = 0 <=> cut = <<>>
  <2> HIDE DEF n, cut
  <2> QED BY <1>2, EmptySeq
<1> HIDE DEF cut, n
<1>6. CASE n = 0
  <2>1. fixed = Lines(<<HeaderRecord>>)
    BY <1>4, <1>5, <1>6
  <2>2. /\ fixed \in Seq(FileLine) /\ Len(fixed) = 1 /\ AllWhole(fixed)
        /\ Until(fixed, 0) = NothingRecovered /\ Until(fixed, 1) = NothingRecovered
        /\ ValidPrefix(fixed) = 1 /\ Finds(fixed) = NothingRecovered
    BY <2>1, HeaderAlone
  <2>3. Finds(lines) = NothingRecovered
    <3>1. SubSeq(lines, 1, 0) = <<>> /\ Len(<<>>) = 0
      BY SubSeqEmpty
    <3>2. Fold(SubSeq(lines, 1, 0)) = NothingRecovered
      BY <3>1, FoldNone
    <3> QED BY <1>6, <3>2 DEF Finds, Until, n
  <2>4. s \in 0..Len(fixed)
    BY <1>1, <2>2
  <2>5. ASSUME NEW k \in 0..ValidPrefix(fixed)
        PROVE  Sound(Until(fixed, k), lg) /\ Until(fixed, k).base = Finds(fixed).base
    <3>1. k = 0 \/ k = 1
      BY <2>2, <2>5
    <3>2. Until(fixed, k) = NothingRecovered
      BY <2>2, <3>1
    <3> QED BY <2>2, <3>2, NothingSound
  <2>6. FileSound(fixed, s, lg)
    BY <2>2, <2>4, <2>5 DEF FileSound, AllWhole
  <2> QED BY <1>6, <2>1, <2>2, <2>3, <2>6 DEF n
<1>7. CASE n # 0
  <2>1. fixed = cut
    BY <1>4, <1>5, <1>7
  <2>2. /\ fixed \in Seq(FileLine) /\ Len(fixed) = n
        /\ \A i \in 1..n : fixed[i].form = "whole"
    BY <1>1, <1>2, <2>1
  <2>3. AllWhole(fixed)
    BY <2>2 DEF AllWhole
  <2>4. ValidPrefix(fixed) = n
    <3>1. n \in 0..Len(fixed) /\ ~ (n < Len(fixed))
      BY <1>1, <2>2
    <3> QED BY <2>2, <3>1, ValidUpTo
  <2>5. \A k \in 0..n : Until(fixed, k) = Until(lines, k)
    <3> TAKE k \in 0..n
    <3>1. SubSeq(fixed, 1, k) = SubSeq(lines, 1, k)
      BY <1>1, <2>1, BeginningTwice DEF cut
    <3> QED BY <3>1 DEF Until
  <2>6. Finds(fixed) = Finds(lines)
    <3>1. n \in 0..n
      BY <1>1
    <3>2. Until(fixed, n) = Until(lines, n)
      BY <2>5, <3>1
    <3> QED BY <2>4, <3>2 DEF Finds, n
  <2>7. s \in 0..Len(fixed) /\ \A k \in 0..n : s <= k => from <= k \/ k = n
    BY <1>1, <2>2
  <2>8. ASSUME NEW k \in 0..n, s <= k \/ k = n
        PROVE  Sound(Until(fixed, k), lg) /\ Until(fixed, k).base = Finds(fixed).base
    <3>1. CASE k = n
      <4>1. Until(fixed, k) = Finds(lines)
        BY <2>5, <3>1 DEF Finds, n
      <4> QED BY <1>3, <2>6, <4>1
    <3>2. CASE from <= k
      BY <1>3, <2>5, <2>6, <3>2
    <3> QED BY <2>7, <2>8, <3>1, <3>2
  <2>9. FileSound(fixed, s, lg)
    <3>1. \A i \in 1..Len(fixed) : fixed[i].form = "whole"
      BY <2>2
    <3> QED BY <2>2, <2>4, <2>7, <2>8, <3>1 DEF FileSound
  <2> QED BY <1>7, <2>1, <2>3, <2>6, <2>9 DEF n, cut
<1> QED BY <1>6, <1>7

\* What read_wal makes of a sound file.
LEMMA ReadsWhatItFinds ==
  ASSUME NEW lines, NEW from, NEW lg, FileSound(lines, from, lg)
  PROVE  ReadWal(lines) = Finds(lines) /\ Sound(Finds(lines), lg)
<1> DEFINE n == ValidPrefix(lines)
           r == Fold(SubSeq(lines, 1, n))
<1>1. n >= Len(lines) - 1 /\ n \in 0..Len(lines) /\ Len(lines) \in Nat
  BY ValidLines
<1>2. n \in 0..n
  BY <1>1
<1>3. Sound(r, lg)
  BY <1>2 DEF FileSound, Until
<1>4. ReadWal(lines) = [r EXCEPT !.ok = r.ok /\ n >= Len(lines) - 1]
  BY DEF ReadWal
<1> HIDE DEF n, r
<1>5. r \in Recovery /\ r.ok
  BY <1>3 DEF Sound
<1>6. r.ok = TRUE
  BY <1>5 DEF Recovery
<1>7. (r.ok /\ n >= Len(lines) - 1) = TRUE
  BY <1>1, <1>5
<1>8. ReadWal(lines) = [r EXCEPT !.ok = TRUE]
  BY <1>4, <1>7
<1>9. [r EXCEPT !.ok = TRUE] = r
  BY <1>5, <1>6 DEF Recovery
<1> QED BY <1>3, <1>8, <1>9 DEF Finds, Until, n, r
\* The beginning that is one longer.
LEMMA BeginningNext ==
  ASSUME NEW T, NEW s \in Seq(T), NEW n \in Nat, n + 1 <= Len(s)
  PROVE  SubSeq(s, 1, n + 1) = Append(SubSeq(s, 1, n), s[n + 1])
<1> DEFINE m == n + 1
           x == s[m]
           a == SubSeq(s, 1, m)
           b == SubSeq(s, 1, n)
           c == Append(b, x)
<1>1. Len(s) \in Nat /\ n \in 0..Len(s) /\ m \in 1..Len(s) /\ m \in 0..Len(s)
  BY LenProperties
<1>2. b \in Seq(T) /\ Len(b) = n /\ \A i \in 1..n : b[i] = s[i]
  BY <1>1, Beginning
<1>3. x \in T
  BY <1>1, ElementOfSeq
<1>4. a \in Seq(T) /\ Len(a) = m /\ \A i \in 1..m : a[i] = s[i]
  <2> HIDE DEF m
  <2> QED BY <1>1, Beginning
<1> HIDE DEF a, b, x
<1>5. /\ c \in Seq(T) /\ Len(c) = Len(b) + 1 /\ \A i \in 1..Len(b) : c[i] = b[i]
      /\ c[Len(b) + 1] = x
  BY <1>2, <1>3, AppendProperties
<1> HIDE DEF c
<1>6. \A i \in 1..Len(a) : a[i] = c[i]
  <2> TAKE i \in 1..Len(a)
  <2>1. CASE i \in 1..n
    BY <1>1, <1>2, <1>4, <1>5, <2>1
  <2>2. CASE i = n + 1
    <3>1. i \in 1..m /\ i = m
      BY <2>2, <1>1
    <3>2. a[i] = x
      BY <1>4, <3>1 DEF x
    <3> QED BY <1>2, <1>5, <2>2, <3>2
  <2> QED BY <1>4, <2>1, <2>2
<1>7. a = c
  BY <1>2, <1>4, <1>5, <1>6, SameSequence
<1> QED BY <1>7 DEF a, b, c, x

\* The recovery from one line more.
LEMMA UntilNext ==
  ASSUME NEW T, NEW lines \in Seq(T), NEW n \in Nat, n + 1 <= Len(lines)
  PROVE  Until(lines, n + 1) = Replay(Until(lines, n), lines[n + 1].record)
<1> DEFINE m == n + 1
           b == SubSeq(lines, 1, n)
<1>1. Len(lines) \in Nat /\ n \in 0..Len(lines) /\ m \in 1..Len(lines)
  BY LenProperties
<1>2. b \in Seq(T)
  BY <1>1, Beginning
<1>3. lines[m] \in T
  BY <1>1, ElementOfSeq
<1>4. SubSeq(lines, 1, m) = Append(b, lines[m])
  BY BeginningNext
<1> HIDE DEF b, m
<1>5. Fold(Append(b, lines[m])) = Replay(Fold(b), lines[m].record)
  BY <1>2, <1>3, FoldAppend
<1> QED BY <1>4, <1>5 DEF Until, b, m

\* The sequence of the values of a function.
LEMMA Listed ==
  ASSUME NEW T, NEW n \in Nat, NEW f, f \in [1..n -> T]
  PROVE  f \in Seq(T) /\ Len(f) = n
<1>1. f = [i \in 1..n |-> f[i]] /\ \A i \in 1..n : f[i] \in T
  OBVIOUS
<1> QED BY <1>1

\* What a compaction writes, of the entries es after index idx.
Rewritten(idx, t0, tm, v, es, c) ==
    Lines(<<HeaderRecord, SnapshotRecord(idx, t0), TermRecord(tm, v)>>
          \o [k \in 1..Len(es) |-> EntryRecord(idx + k, es[k])]
          \o <<CommitRecord(c)>>)

\* These are the lines of a rewritten file.
Consists(lines, idx, t0, tm, v, es, c) ==
    /\ lines \in Seq(FileLine) /\ Len(lines) = Len(es) + 4 /\ AllWhole(lines)
    /\ lines[1].record = HeaderRecord /\ lines[2].record = SnapshotRecord(idx, t0)
    /\ lines[3].record = TermRecord(tm, v)
    /\ \A k \in 1..Len(es) : lines[3 + k].record = EntryRecord(idx + k, es[k])
    /\ lines[Len(es) + 4].record = CommitRecord(c)

\* Its lines.
LEMMA CompactedLines ==
  ASSUME NEW idx \in Nat, NEW t0 \in 1..MaxTerm, NEW tm \in 0..MaxTerm,
         NEW v \in Voter \cup {Nil}, NEW es \in Seq(1..MaxTerm), NEW c \in Nat,
         NEW lines,
         lines = Rewritten(idx, t0, tm, v, es, c)
  PROVE  Consists(lines, idx, t0, tm, v, es, c)
<1> DEFINE m == Len(es)
           front == <<HeaderRecord, SnapshotRecord(idx, t0), TermRecord(tm, v)>>
           middle == [k \in 1..m |-> EntryRecord(idx + k, es[k])]
           last == <<CommitRecord(c)>>
           both == front \o middle
           recs == both \o last
           n == m + 4
<1>1. m \in Nat /\ n \in Nat
  BY LenProperties
<1>2. /\ HeaderRecord \in LogRecord /\ SnapshotRecord(idx, t0) \in LogRecord
      /\ TermRecord(tm, v) \in LogRecord /\ CommitRecord(c) \in LogRecord
  BY BoundAssumption DEF HeaderRecord, SnapshotRecord, TermRecord, CommitRecord, LogRecord
<1>3. /\ front \in Seq(LogRecord) /\ Len(front) = 3 /\ front[1] = HeaderRecord
      /\ front[2] = SnapshotRecord(idx, t0) /\ front[3] = TermRecord(tm, v)
      /\ last \in Seq(LogRecord) /\ Len(last) = 1 /\ last[1] = CommitRecord(c)
  <2> DEFINE h == HeaderRecord
             s == SnapshotRecord(idx, t0)
             t == TermRecord(tm, v)
             e == CommitRecord(c)
  <2>1. h \in LogRecord /\ s \in LogRecord /\ t \in LogRecord /\ e \in LogRecord
    BY <1>2
  <2> HIDE DEF h, s, t, e
  <2>2. /\ <<h, s, t>> \in Seq(LogRecord) /\ Len(<<h, s, t>>) = 3
        /\ <<h, s, t>>[1] = h /\ <<h, s, t>>[2] = s /\ <<h, s, t>>[3] = t
    BY <2>1
  <2>3. <<e>> \in Seq(LogRecord) /\ Len(<<e>>) = 1 /\ <<e>>[1] = e
    BY <2>1
  <2> QED BY <2>2, <2>3 DEF h, s, t, e
<1>4. middle \in Seq(LogRecord) /\ Len(middle) = m
  <2>1. \A k \in 1..m : middle[k] \in LogRecord
    <3> TAKE k \in 1..m
    <3>1. es[k] \in 1..MaxTerm
      BY ElementOfSeq
    <3>2. idx + k \in Nat
      BY <1>1
    <3> HIDE DEF m
    <3> QED BY <3>1, <3>2 DEF EntryRecord, LogRecord
  <2>2. middle \in [1..m -> LogRecord]
    BY <2>1
  <2> HIDE DEF m, middle
  <2> QED BY <1>1, <2>2, Listed
<1>5. \A k \in 1..m : middle[k] = EntryRecord(idx + k, es[k])
  OBVIOUS
<1>6. lines = Lines(recs)
  BY DEF Rewritten
<1> HIDE DEF m, front, middle, last
<1>7. /\ both \in Seq(LogRecord) /\ Len(both) = 3 + m
      /\ \A i \in 1..(3 + m) : both[i] = IF i <= 3 THEN front[i] ELSE middle[i - 3]
  <2> HIDE DEF both
  <2>1. /\ both \in Seq(LogRecord) /\ Len(both) = Len(front) + Len(middle)
        /\ \A i \in 1..(Len(front) + Len(middle)) :
              both[i] = IF i <= Len(front) THEN front[i] ELSE middle[i - Len(front)]
    BY <1>3, <1>4, ConcatProperties DEF both
  <2> QED BY <1>3, <1>4, <2>1
<1> HIDE DEF both
<1>8. /\ recs \in Seq(LogRecord) /\ Len(recs) = n
      /\ \A i \in 1..n : recs[i] = IF i <= 3 + m THEN both[i] ELSE last[i - (3 + m)]
  <2> HIDE DEF recs
  <2>1. /\ recs \in Seq(LogRecord) /\ Len(recs) = Len(both) + Len(last)
        /\ \A i \in 1..(Len(both) + Len(last)) :
              recs[i] = IF i <= Len(both) THEN both[i] ELSE last[i - Len(both)]
    BY <1>3, <1>7, ConcatProperties DEF recs
  <2>2. Len(both) + Len(last) = n
    BY <1>1, <1>3, <1>7
  <2> QED BY <1>7, <2>1, <2>2
<1> HIDE DEF recs
<1>9. /\ recs[1] = HeaderRecord /\ recs[2] = SnapshotRecord(idx, t0) /\ recs[3] = TermRecord(tm, v)
      /\ recs[n] = CommitRecord(c)
  <2>1. 1 \in 1..n /\ 2 \in 1..n /\ 3 \in 1..n /\ n \in 1..n
    BY <1>1
  <2>2. 1 \in 1..(3 + m) /\ 2 \in 1..(3 + m) /\ 3 \in 1..(3 + m) /\ ~ (n <= 3 + m)
        /\ n - (3 + m) = 1
    BY <1>1
  <2> QED BY <1>3, <1>7, <1>8, <2>1, <2>2
<1>10. \A k \in 1..m : 3 + k \in 1..n /\ recs[3 + k] = EntryRecord(idx + k, es[k])
  <2> TAKE k \in 1..m
  <2>1. 3 + k \in 1..n /\ 3 + k \in 1..(3 + m) /\ ~ (3 + k <= 3) /\ (3 + k) - 3 = k
        /\ 3 + k <= 3 + m
    BY <1>1
  <2> HIDE DEF n
  <2>2. recs[3 + k] = both[3 + k]
    BY <1>8, <2>1
  <2>3. both[3 + k] = middle[k]
    BY <1>7, <2>1
  <2> QED BY <1>5, <2>1, <2>2, <2>3
<1> HIDE DEF n
<1>11. /\ lines \in Seq(FileLine) /\ Len(lines) = n
       /\ \A i \in 1..n : lines[i].record = recs[i] /\ lines[i].form = "whole"
  <2>1. DOMAIN recs = 1..n
    BY <1>8, LenProperties
  <2>2. lines = [i \in 1..n |-> Line(recs[i], "whole")]
    BY <1>6, <2>1 DEF Lines
  <2>3. \A i \in 1..n : recs[i] \in LogRecord
    BY <1>8, ElementOfSeq
  <2>4. \A i \in 1..n : lines[i] = Line(recs[i], "whole")
    BY <2>2
  <2>5. ASSUME NEW i \in 1..n
        PROVE  lines[i] \in FileLine /\ lines[i].record = recs[i] /\ lines[i].form = "whole"
    <3> DEFINE x == recs[i]
    <3>1. x \in LogRecord /\ lines[i] = Line(x, "whole")
      BY <2>3, <2>4
    <3> HIDE DEF x
    <3>2. Line(x, "whole") \in FileLine
      BY <3>1 DEF Line, FileLine
    <3>3. Line(x, "whole").record = x /\ Line(x, "whole").form = "whole"
      BY DEF Line
    <3> QED BY <3>1, <3>2, <3>3 DEF x
  <2>6. lines \in [1..n -> FileLine]
    BY <2>2, <2>5
  <2>7. lines \in Seq(FileLine) /\ Len(lines) = n
    BY <1>1, <2>6, Listed
  <2> QED BY <2>5, <2>7
<1>12. 1 \in 1..n /\ 2 \in 1..n /\ 3 \in 1..n /\ n \in 1..n
  BY <1>1 DEF n
<1>13. AllWhole(lines)
  BY <1>11 DEF AllWhole
<1>14. \A k \in 1..m : lines[3 + k].record = EntryRecord(idx + k, es[k])
  BY <1>10, <1>11
<1>15. lines[1].record = HeaderRecord /\ lines[2].record = SnapshotRecord(idx, t0)
       /\ lines[3].record = TermRecord(tm, v) /\ lines[n].record = CommitRecord(c)
  BY <1>9, <1>11, <1>12
<1> QED BY <1>11, <1>13, <1>14, <1>15 DEF m, n, Consists

\* The record of the snapshot, first of all.
LEMMA SnapshotSound ==
  ASSUME NEW idx \in Nat, NEW t0 \in 1..MaxTerm, NEW lg \in Seq(1..MaxTerm), idx <= Len(lg),
         NEW s, s = Replay(NothingRecovered, SnapshotRecord(idx, t0))
  PROVE  /\ Sound(s, lg) /\ s.base = idx /\ s.entries = <<>> /\ s.commit = idx
         /\ s.term = t0 /\ s.voted_for = Nil
<1>1. s = ReplaySnapshot(NothingRecovered, SnapshotRecord(idx, t0))
  BY DEF Replay, SnapshotRecord
<1> DEFINE r == NothingRecovered
<1>2. /\ r.ok = TRUE /\ r.entries = <<>> /\ r.commit = 0 /\ r.term = 0 /\ r.voted_for = Nil
      /\ r = [ok |-> TRUE, term |-> 0, voted_for |-> Nil, base |-> 0, base_term |-> 0,
              entries |-> <<>>, commit |-> 0]
  BY DEF NothingRecovered
<1>3. MaxOf(0, idx) = idx /\ MaxOf(0, t0) = t0
  BY BoundAssumption DEF MaxOf
<1>4. s = [r EXCEPT !.ok = r.ok /\ r.entries = <<>>, !.base = idx, !.base_term = t0,
                    !.commit = MaxOf(r.commit, idx), !.term = MaxOf(r.term, t0)]
  BY <1>1 DEF ReplaySnapshot, SnapshotRecord
<1> HIDE DEF r
<1>5. s = [r EXCEPT !.ok = TRUE, !.base = idx, !.base_term = t0, !.commit = idx, !.term = t0]
  BY <1>2, <1>3, <1>4
<1>6. s = [ok |-> TRUE, term |-> t0, voted_for |-> Nil, base |-> idx, base_term |-> t0,
           entries |-> <<>>, commit |-> idx]
  BY <1>2, <1>5
<1>7. s \in Recovery
  <2>1. <<>> \in Seq(1..MaxTerm) /\ t0 \in 0..MaxTerm /\ t0 \in Nat
    BY BoundAssumption
  <2> QED BY <1>6, <2>1 DEF Recovery
<1>8. /\ s.ok /\ s.base = idx /\ s.entries = <<>> /\ s.commit = idx
      /\ s.term = t0 /\ s.voted_for = Nil
  BY <1>6
<1>9. Len(s.entries) = 0
  BY <1>8
<1>10. LastRecovered(s) = idx
  BY <1>8, <1>9 DEF LastRecovered
<1> QED BY <1>7, <1>8, <1>9, <1>10 DEF Sound
\* What is recovered of a compacted file up to its k-th entry.
Compacts(r, idx, tm, v, es, k) ==
    /\ r.base = idx /\ r.entries = SubSeq(es, 1, k) /\ r.commit = idx
    /\ r.term = tm /\ r.voted_for = v

\* The entries that a compaction writes, one after another.
LEMMA CompactedEntries ==
  ASSUME NEW idx \in Nat, NEW tm \in 0..MaxTerm, NEW v \in Voter \cup {Nil},
         NEW lg \in Seq(1..MaxTerm), NEW es \in Seq(1..MaxTerm),
         \A i \in 1..Len(es) : es[i] <= tm,
         NEW lines \in Seq(FileLine), 3 + Len(es) <= Len(lines),
         \A k \in 1..Len(es) : lines[3 + k].record = EntryRecord(idx + k, es[k]),
         Sound(Until(lines, 3), lg), Compacts(Until(lines, 3), idx, tm, v, es, 0)
  PROVE  LET r == Until(lines, 3 + Len(es)) IN
         Sound(r, lg) /\ Compacts(r, idx, tm, v, es, Len(es))
<1> DEFINE m == Len(es)
           Good(k) == Sound(Until(lines, 3 + k), lg)
                      /\ Compacts(Until(lines, 3 + k), idx, tm, v, es, k)
           S == {k \in Nat : k <= m => Good(k)}
<1>1. m \in Nat /\ Len(lines) \in Nat
  BY LenProperties
<1>2. Good(0)
  <2>1. 3 + 0 = 3
    OBVIOUS
  <2> QED BY <2>1
<1>3. ASSUME NEW k \in Nat, k + 1 <= m, Good(k)
      PROVE  Good(k + 1)
  <2> DEFINE j == 3 + k
             t == es[k + 1]
             r == Until(lines, j)
             s == Until(lines, j + 1)
             at == idx + (k + 1)
  <2>1. /\ j \in Nat /\ j + 1 <= Len(lines) /\ j + 1 = 3 + (k + 1) /\ k + 1 \in 1..m
        /\ k \in 0..m /\ at \in Nat
    BY <1>1, <1>3
  <2>2. s = Replay(r, lines[j + 1].record)
    BY <2>1, UntilNext
  <2>3. lines[j + 1].record = EntryRecord(at, t)
    BY <2>1
  <2>4. t \in 1..MaxTerm /\ t <= tm
    BY <2>1, ElementOfSeq
  <2>5. /\ Sound(r, lg) /\ r.base = idx /\ r.entries = SubSeq(es, 1, k) /\ r.commit = idx
        /\ r.term = tm /\ r.voted_for = v
    BY <1>3 DEF Compacts
  <2>6. Len(SubSeq(es, 1, k)) = k
    BY <2>1, Beginning
  <2>7. SubSeq(es, 1, k + 1) = Append(SubSeq(es, 1, k), t)
    BY <1>3, BeginningNext
  <2> HIDE DEF r, s, t
  <2>8. at = LastRecovered(r) + 1
    BY <1>3, <2>5, <2>6 DEF LastRecovered
  <2>9. s = Replay(r, EntryRecord(at, t))
    BY <2>2, <2>3
  <2> HIDE DEF at
  <2>10. /\ Sound(s, lg) /\ s.base = r.base /\ s.entries = Append(r.entries, t)
         /\ s.commit = r.commit /\ s.term = MaxOf(r.term, t) /\ s.voted_for = r.voted_for
    <3>1. at \in Nat /\ at = LastRecovered(r) + 1
      BY <2>1, <2>8 DEF at
    <3>2. t \in 1..MaxTerm
      BY <2>4
    <3>3. Sound(r, lg)
      BY <2>5
    <3> QED BY <2>9, <3>1, <3>2, <3>3, EntrySound
  <2>11. MaxOf(tm, t) = tm
    BY <2>4, BoundAssumption DEF MaxOf
  <2>12. Compacts(s, idx, tm, v, es, k + 1)
    BY <2>5, <2>7, <2>10, <2>11 DEF Compacts
  <2> QED BY <2>1, <2>10, <2>12 DEF s
<1> HIDE DEF Good
<1>4. ASSUME NEW k \in S PROVE k + 1 \in S
  <2>1. k \in Nat /\ k + 1 \in Nat /\ (k + 1 <= m => k <= m)
    BY <1>1
  <2> QED BY <1>3, <2>1
<1>5. 0 \in S /\ S \in SUBSET Nat
  BY <1>2
<1> HIDE DEF S
<1>6. S = Nat
  BY <1>4, <1>5, CountingUp
<1>7. m \in S
  BY <1>1, <1>6
<1>8. Good(m)
  BY <1>1, <1>7 DEF S
<1> QED BY <1>8 DEF Good

\* The file brings back the memory it was written from.
BringsBack(lines, lg, idx, tm, v, es, c) ==
    /\ FileSound(lines, Len(lines), lg) /\ AllWhole(lines)
    /\ Finds(lines).base = idx /\ Finds(lines).entries = es
    /\ Finds(lines).commit = c /\ Finds(lines).term = tm /\ Finds(lines).voted_for = v

\* What a compaction writes brings back the memory it was written from.
LEMMA CompactedSound ==
  ASSUME NEW idx \in Nat, NEW t0 \in 1..MaxTerm, NEW tm \in 0..MaxTerm, t0 <= tm,
         NEW v \in Voter \cup {Nil}, NEW lg \in Seq(1..MaxTerm),
         NEW es \in Seq(1..MaxTerm), \A i \in 1..Len(es) : es[i] <= tm,
         NEW c \in Nat, idx <= c, c <= idx + Len(es), c <= Len(lg),
         \A i \in 1..Len(es) : idx + i <= c => es[i] = lg[idx + i],
         NEW lines,
         lines = Rewritten(idx, t0, tm, v, es, c)
  PROVE  BringsBack(lines, lg, idx, tm, v, es, c)
<1> DEFINE m == Len(es)
           n == m + 4
<1>1. m \in Nat /\ Len(lg) \in Nat
  BY LenProperties
<1>2. /\ lines \in Seq(FileLine) /\ Len(lines) = n /\ AllWhole(lines)
      /\ lines[1].record = HeaderRecord /\ lines[2].record = SnapshotRecord(idx, t0)
      /\ lines[3].record = TermRecord(tm, v)
      /\ \A k \in 1..m : lines[3 + k].record = EntryRecord(idx + k, es[k])
      /\ lines[n].record = CommitRecord(c)
  <2>1. Consists(lines, idx, t0, tm, v, es, c)
    BY CompactedLines
  <2> QED BY <2>1 DEF Consists
<1>3. /\ Until(lines, 1) = Replay(Until(lines, 0), lines[1].record)
      /\ Until(lines, 2) = Replay(Until(lines, 1), lines[2].record)
      /\ Until(lines, 3) = Replay(Until(lines, 2), lines[3].record)
  <2>1. 0 + 1 <= Len(lines) /\ 1 + 1 <= Len(lines) /\ 2 + 1 <= Len(lines)
    BY <1>1, <1>2
  <2>2. 0 + 1 = 1 /\ 1 + 1 = 2 /\ 2 + 1 = 3 /\ 0 \in Nat /\ 1 \in Nat /\ 2 \in Nat
    OBVIOUS
  <2>3. Until(lines, 0 + 1) = Replay(Until(lines, 0), lines[0 + 1].record)
    BY <1>2, <2>1, <2>2, UntilNext
  <2>4. Until(lines, 1 + 1) = Replay(Until(lines, 1), lines[1 + 1].record)
    BY <1>2, <2>1, <2>2, UntilNext
  <2>5. Until(lines, 2 + 1) = Replay(Until(lines, 2), lines[2 + 1].record)
    BY <1>2, <2>1, <2>2, UntilNext
  <2> QED BY <2>2, <2>3, <2>4, <2>5
<1> DEFINE r0 == Until(lines, 0)
           r1 == Until(lines, 1)
           r2 == Until(lines, 2)
           r3 == Until(lines, 3)
           r == Until(lines, 3 + m)
           s == Until(lines, n)
<1>4. r0 = NothingRecovered
  <2>1. SubSeq(lines, 1, 0) = <<>> /\ Len(<<>>) = 0
    BY SubSeqEmpty
  <2> QED BY <2>1, FoldNone DEF Until
<1>5. r1 = NothingRecovered
  <2>1. r1 = Replay(NothingRecovered, HeaderRecord)
    BY <1>2, <1>3, <1>4
  <2> HIDE DEF r1
  <2> QED BY <2>1 DEF Replay, HeaderRecord
<1>6. r2 = Replay(NothingRecovered, SnapshotRecord(idx, t0))
  BY <1>2, <1>3, <1>5
<1>7. r3 = Replay(r2, TermRecord(tm, v))
  BY <1>2, <1>3
<1> HIDE DEF r0, r1, r2, r3, n
<1>8. /\ Sound(r2, lg) /\ r2.base = idx /\ r2.entries = <<>> /\ r2.commit = idx
      /\ r2.term = t0 /\ r2.voted_for = Nil
  <2>1. idx <= Len(lg)
    BY <1>1
  <2> QED BY <1>6, <2>1, SnapshotSound
<1>9. /\ Sound(r3, lg) /\ r3.base = idx /\ r3.entries = <<>> /\ r3.commit = idx
      /\ r3.term = tm /\ r3.voted_for = v
  <2>1. /\ Sound(r3, lg) /\ r3.base = r2.base /\ r3.entries = r2.entries
        /\ r3.commit = r2.commit /\ r3.term = tm /\ r3.voted_for = v
    BY <1>7, <1>8, TermSound
  <2> QED BY <1>8, <2>1
<1>10. Compacts(r3, idx, tm, v, es, 0)
  <2>1. SubSeq(es, 1, 0) = <<>>
    BY SubSeqEmpty
  <2> QED BY <1>9, <2>1 DEF Compacts
<1>11. Sound(r, lg) /\ Compacts(r, idx, tm, v, es, m)
  <2>1. 3 + m <= Len(lines)
    BY <1>1, <1>2 DEF n
  <2>2. lines \in Seq(FileLine)
        /\ \A k \in 1..m : lines[3 + k].record = EntryRecord(idx + k, es[k])
    BY <1>2
  <2>3. Sound(Until(lines, 3), lg) /\ Compacts(Until(lines, 3), idx, tm, v, es, 0)
    BY <1>9, <1>10 DEF r3
  <2> QED BY <2>1, <2>2, <2>3, CompactedEntries
<1>12. s = Replay(r, CommitRecord(c))
  <2>1. 3 + m \in Nat /\ (3 + m) + 1 <= Len(lines) /\ (3 + m) + 1 = n
    BY <1>1, <1>2 DEF n
  <2>2. Until(lines, (3 + m) + 1) = Replay(Until(lines, 3 + m), lines[(3 + m) + 1].record)
    BY <1>2, <2>1, UntilNext
  <2> QED BY <1>2, <2>1, <2>2
<1>13. /\ r.base = idx /\ r.entries = es /\ r.commit = idx /\ r.term = tm /\ r.voted_for = v
  <2>1. SubSeq(es, 1, m) = es
    BY SubSeqFull
  <2> QED BY <1>11, <2>1 DEF Compacts
<1> HIDE DEF r, s
<1>14. /\ Sound(s, lg) /\ s.base = idx /\ s.entries = es /\ s.commit = c
       /\ s.term = tm /\ s.voted_for = v
  <2>1. r.commit <= c /\ c <= LastRecovered(r)
    BY <1>13 DEF LastRecovered
  <2>2. \A k \in 1..Len(r.entries) : r.base + k <= c => r.entries[k] = lg[r.base + k]
    BY <1>13
  <2>3. Sound(r, lg)
    BY <1>11
  <2>4. /\ Sound(s, lg) /\ s.base = r.base /\ s.entries = r.entries /\ s.commit = c
        /\ s.term = r.term /\ s.voted_for = r.voted_for
    BY <1>12, <2>1, <2>2, <2>3, CommitSound
  <2> QED BY <1>13, <2>4
<1>15. /\ n \in Nat /\ n \in 0..Len(lines) /\ ~ (n < Len(lines))
       /\ \A i \in 1..n : lines[i].form = "whole"
  <2>1. n \in Nat
    BY <1>1 DEF n
  <2> QED BY <1>2, <2>1 DEF AllWhole
<1>16. ValidPrefix(lines) = n
  BY <1>2, <1>15, ValidUpTo
<1>17. Finds(lines) = s
  BY <1>16 DEF Finds, s
<1>18. FileSound(lines, Len(lines), lg)
  <2>1. ASSUME NEW k \in 0..n, n <= k \/ k = n
        PROVE  Sound(Until(lines, k), lg) /\ Until(lines, k).base = Finds(lines).base
    <3>1. k = n
      BY <1>15, <2>1
    <3> QED BY <1>14, <1>17, <3>1 DEF s
  <2> QED BY <1>2, <1>15, <1>16, <2>1 DEF FileSound
<1> QED BY <1>2, <1>14, <1>17, <1>18 DEF BringsBack
-----------------------------------------------------------------------------
(***************************************************************************)
(* The memory and the snapshots.                                           *)
(***************************************************************************)
\* What is decided grows, to begin with, to itself.
LEMMA GrowsItself ==
  ASSUME NEW lg \in Seq(1..MaxTerm)
  PROVE  Grows(lg, lg)
<1>1. Len(lg) \in Nat
  BY LenProperties
<1> QED BY <1>1 DEF Grows

\* The whole log, and what of it is decided.
LEMMA WholeLogParts ==
  ASSUME MemorySound
  PROVE  /\ WholeLog \in Seq(1..MaxTerm) /\ Len(WholeLog) = last_index
         /\ \A i \in 1..Len(log) : WholeLog[base + i] = log[i]
         /\ \A i \in 1..base : WholeLog[i] = decided[i]
         /\ \A i \in 1..commit_index : WholeLog[i] = decided[i]
<1> DEFINE old == SubSeq(store, 1, base)
<1>1. /\ base \in Nat /\ log \in Seq(1..MaxTerm) /\ Len(log) \in Nat
      /\ store \in Seq(1..MaxTerm) /\ decided \in Seq(1..MaxTerm) /\ commit_index \in Nat
      /\ Len(store) \in Nat /\ Len(decided) \in Nat /\ snapshot_index \in Nat
  BY LenProperties DEF MemorySound
<1>2. base <= Len(store) /\ Len(store) <= commit_index /\ commit_index <= Len(decided)
      /\ commit_index <= base + Len(log)
  BY <1>1 DEF MemorySound, last_index
<1>3. base \in 0..Len(store) /\ Len(store) \in 0..Len(decided)
  BY <1>1, <1>2
<1>4. old \in Seq(1..MaxTerm) /\ Len(old) = base /\ \A i \in 1..base : old[i] = store[i]
  BY <1>1, <1>3, Beginning
<1>5. \A i \in 1..Len(store) : store[i] = decided[i]
  <2>1. store = SubSeq(decided, 1, Len(store))
    BY DEF MemorySound
  <2>2. \A i \in 1..Len(store) : SubSeq(decided, 1, Len(store))[i] = decided[i]
    BY <1>1, <1>3, Beginning
  <2> QED BY <2>1, <2>2
<1> HIDE DEF old
<1>6. /\ WholeLog \in Seq(1..MaxTerm) /\ Len(WholeLog) = Len(old) + Len(log)
      /\ \A i \in 1..(Len(old) + Len(log)) :
            WholeLog[i] = IF i <= Len(old) THEN old[i] ELSE log[i - Len(old)]
  <2>1. WholeLog = old \o log
    BY DEF WholeLog, old
  <2> HIDE DEF WholeLog
  <2> QED BY <1>1, <1>4, <2>1, ConcatProperties
<1>7. /\ WholeLog \in Seq(1..MaxTerm) /\ Len(WholeLog) = base + Len(log)
      /\ \A i \in 1..(base + Len(log)) :
            WholeLog[i] = IF i <= base THEN old[i] ELSE log[i - base]
  BY <1>4, <1>6
<1>8. ASSUME NEW i \in 1..Len(log) PROVE WholeLog[base + i] = log[i]
  <2>1. base + i \in 1..(base + Len(log)) /\ ~ (base + i <= base) /\ (base + i) - base = i
    BY <1>1
  <2> QED BY <1>7, <2>1
<1>9. ASSUME NEW i \in 1..base PROVE WholeLog[i] = decided[i]
  <2>1. i \in 1..(base + Len(log)) /\ i <= base /\ i \in 1..Len(store)
    BY <1>1, <1>3
  <2> QED BY <1>4, <1>5, <1>7, <2>1
<1>10. ASSUME NEW i \in 1..commit_index PROVE WholeLog[i] = decided[i]
  <2>1. CASE i <= base
    BY <1>1, <1>9, <2>1
  <2>2. CASE ~ (i <= base)
    <3>1. i - base \in 1..Len(log) /\ base + (i - base) = i
      BY <1>1, <1>2, <2>2
    <3>2. WholeLog[base + (i - base)] = log[i - base]
      BY <1>8, <3>1
    <3>3. base + (i - base) <= commit_index => log[i - base] = decided[base + (i - base)]
      BY <3>1 DEF MemorySound
    <3> QED BY <1>1, <3>1, <3>2, <3>3
  <2> QED BY <2>1, <2>2
<1> QED BY <1>7, <1>8, <1>9, <1>10 DEF last_index

\* The file of a running node reaches to the end of its log.
LEMMA FoundReaches ==
  ASSUME Inv, pc # "down"
  PROVE  /\ Sound(Found, decided) /\ AllWhole(file)
         /\ Found.base = snapshot_index
         /\ snapshot_index - base \in 0..Len(log) /\ snapshot_index - base \in Nat
         /\ Found.entries = SubSeq(log, (snapshot_index - base) + 1, Len(log))
         /\ LastRecovered(Found) = last_index
         /\ \A k \in 1..Len(Found.entries) :
               /\ (snapshot_index - base) + k \in 1..Len(log)
               /\ Found.entries[k] = log[(snapshot_index - base) + k]
<1> DEFINE d == snapshot_index - base
           rest == SubSeq(log, d + 1, Len(log))
<1>1. FilesSound /\ MemorySound /\ FileIsMemory
  BY DEF Inv
<1>2. Sound(Found, decided) /\ AllWhole(file)
  BY <1>1, ReadsWhatItFinds DEF FilesSound, Found
<1>3. /\ base \in Nat /\ log \in Seq(1..MaxTerm) /\ Len(log) \in Nat /\ Len(store) \in Nat
      /\ snapshot_index \in Nat /\ base <= snapshot_index /\ commit_index \in Nat
  BY <1>1, LenProperties DEF MemorySound
<1>4. snapshot_index <= Len(store) /\ Len(store) <= commit_index /\ commit_index <= base + Len(log)
  BY <1>1 DEF MemorySound, last_index
<1>5. d \in 0..Len(log) /\ d \in Nat /\ d <= Len(log) /\ base + d = snapshot_index
  BY <1>3, <1>4
<1>6. Found.base = snapshot_index /\ Found.entries = rest
  BY <1>1 DEF FileIsMemory
<1> HIDE DEF d
<1>7. Len(rest) = Len(log) - d /\ \A i \in 1..(Len(log) - d) : rest[i] = log[d + i]
  BY <1>3, <1>5, Piece
<1> HIDE DEF rest
<1>8. LastRecovered(Found) = last_index
  <2>1. LastRecovered(Found) = snapshot_index + (Len(log) - d)
    BY <1>6, <1>7 DEF LastRecovered
  <2> QED BY <1>3, <1>5, <2>1 DEF last_index
<1>9. \A k \in 1..Len(Found.entries) :
         d + k \in 1..Len(log) /\ Found.entries[k] = log[d + k]
  BY <1>3, <1>5, <1>6, <1>7
<1> QED BY <1>2, <1>5, <1>6, <1>8, <1>9 DEF d, rest

\* Snapshots stay sound when more is decided.
LEMMA SavedStays ==
  ASSUME NEW saved, NEW lg \in Seq(1..MaxTerm), NEW more \in Seq(1..MaxTerm),
         SavedSound(saved, lg), Grows(lg, more)
  PROVE  SavedSound(saved, more)
<1>1. Len(lg) \in Nat /\ Len(more) \in Nat /\ Len(lg) <= Len(more)
  BY LenProperties DEF Grows
<1>2. ASSUME NEW i \in DOMAIN saved
      PROVE  i \in Nat \ {0} /\ i <= Len(more) /\ saved[i] = SubSeq(more, 1, i)
  <2>1. i \in Nat \ {0} /\ i <= Len(lg) /\ saved[i] = SubSeq(lg, 1, i)
    BY DEF SavedSound
  <2>2. i \in 0..Len(lg) /\ i \in 0..Len(more) /\ i <= Len(more)
    BY <1>1, <2>1
  <2> DEFINE a == SubSeq(lg, 1, i)
             b == SubSeq(more, 1, i)
  <2>3. a \in Seq(1..MaxTerm) /\ Len(a) = i /\ \A k \in 1..i : a[k] = lg[k]
    BY <2>2, Beginning
  <2>4. b \in Seq(1..MaxTerm) /\ Len(b) = i /\ \A k \in 1..i : b[k] = more[k]
    BY <2>2, Beginning
  <2> HIDE DEF a, b
  <2>5. \A k \in 1..i : lg[k] = more[k]
    <3>1. \A k \in 1..i : k \in 1..Len(lg)
      BY <1>1, <2>1
    <3> QED BY <3>1 DEF Grows
  <2>6. a = b
    <3>1. Len(a) = Len(b) /\ \A k \in 1..Len(a) : a[k] = b[k]
      BY <2>3, <2>4, <2>5
    <3> QED BY <2>3, <2>4, <3>1, SameSequence
  <2> QED BY <2>1, <2>2, <2>6 DEF a, b
<1> QED BY <1>2 DEF SavedSound

\* What is decided grows and the snapshots stay where they are.
LEMMA SnapshotsStay ==
  ASSUME SnapshotsSound, snapshots' = snapshots, Found'.base = Found.base,
         pc # "saved", pc' # "saved",
         decided \in Seq(1..MaxTerm), decided' \in Seq(1..MaxTerm), Grows(decided, decided')
  PROVE  SnapshotsSound'
<1>1. SavedSound(snapshots, decided')
  BY SavedStays DEF SnapshotsSound
<1> QED BY <1>1 DEF SnapshotsSound
\* A file that nothing writes.
LEMMA FilesStay ==
  ASSUME FilesSound, file' = file, synced' \in {synced, Len(file)},
         decided \in Seq(1..MaxTerm), decided' \in Seq(1..MaxTerm), Grows(decided, decided'),
         pc # "down" \/ pc' = "down"
  PROVE  FilesSound' /\ Found' = Found
<1>1. FileSound(file, synced, decided) /\ (pc' # "down" => AllWhole(file))
  BY DEF FilesSound
<1>2. synced' \in synced..Len(file)
  BY <1>1, ValidLines
<1>3. FileSound(file, synced', decided')
  BY <1>1, <1>2, FileStays
<1> QED BY <1>1, <1>3 DEF FilesSound, Found

\* A record.
LEMMA RecordStep ==
  ASSUME FilesSound, pc # "down", decided' = decided,
         NEW rec \in LogRecord, Record(rec), NEW s, s = Replay(Found, rec),
         Sound(s, decided), s.base = Found.base
  PROVE  FilesSound' /\ Found' = s
<1>1. FileSound(file, synced, decided) /\ AllWhole(file)
  BY DEF FilesSound
<1>2. s = Replay(Finds(file), rec) /\ s.base = Finds(file).base
  BY DEF Found
<1>3. file' = AppendLine(file, rec) /\ synced' = synced
  BY DEF Record
<1>4. FileSound(file', synced, decided) /\ AllWhole(file') /\ Finds(file') = s
  <2>1. /\ FileSound(AppendLine(file, rec), synced, decided) /\ AllWhole(AppendLine(file, rec))
        /\ Finds(AppendLine(file, rec)) = s
    BY <1>1, <1>2, AppendSound
  <2> QED BY <1>3, <2>1
<1> QED BY <1>3, <1>4 DEF FilesSound, Found
-----------------------------------------------------------------------------
(***************************************************************************)
(* Each step keeps the invariant.                                          *)
(***************************************************************************)
\* A new term in memory is ahead of the file, as it may be.
LEMMA EnterTermKeeps ==
  ASSUME Inv, NEW v \in Voter \cup {Nil}, EnterTerm(v)
  PROVE  Inv'
<1>1. /\ FilesSound /\ SnapshotsSound /\ MemorySound /\ FileIsMemory
      /\ pc = "idle" /\ pc' = pc /\ decided' = decided /\ snapshots' = snapshots
      /\ file' = file /\ synced' = synced /\ term' = term + 1 /\ voted_for' = v /\ log' = log
      /\ commit_index' = commit_index /\ base' = base /\ base_term' = base_term
      /\ store' = store /\ snapshot_index' = snapshot_index /\ term < MaxTerm
      /\ persisted_vote' = persisted_vote /\ persisted_commit' = persisted_commit
  BY DEF Inv, EnterTerm, diskVars, watchVars, history
<1>2. decided \in Seq(1..MaxTerm) /\ Grows(decided, decided') /\ term \in 0..MaxTerm
  BY <1>1, GrowsItself DEF MemorySound
<1>3. FilesSound' /\ Found' = Found
  BY <1>1, <1>2, FilesStay
<1>4. SnapshotsSound'
  BY <1>1, <1>2, <1>3, SnapshotsStay
<1>5. term' \in 0..MaxTerm /\ term <= term'
  BY <1>1, <1>2, BoundAssumption
<1>6. MemorySound'
  <2>1. \A i \in 1..Len(log) : log[i] <= term'
    <3> TAKE i \in 1..Len(log)
    <3>1. log[i] \in 1..MaxTerm /\ log[i] <= term
      BY <1>1, ElementOfSeq DEF MemorySound
    <3> QED BY <1>2, <1>5, <3>1, BoundAssumption
  <2> QED BY <1>1, <1>5, <2>1 DEF MemorySound, last_index
<1>7. FileIsMemory'
  <2>1. Found.term \in 0..MaxTerm
    BY <1>1, FoundReaches DEF Inv, Sound, Recovery
  <2>2. Found.term <= term'
    BY <1>1, <1>2, <1>5, <2>1, BoundAssumption DEF FileIsMemory
  <2> QED BY <1>1, <1>3, <2>2 DEF FileIsMemory
<1> QED BY <1>3, <1>4, <1>6, <1>7 DEF Inv

\* So is a vote.
LEMMA CastVoteKeeps ==
  ASSUME Inv, NEW v \in Voter, CastVote(v)
  PROVE  Inv'
<1>1. /\ FilesSound /\ SnapshotsSound /\ MemorySound /\ FileIsMemory
      /\ pc = "idle" /\ pc' = pc /\ decided' = decided /\ snapshots' = snapshots
      /\ file' = file /\ synced' = synced /\ term' = term /\ voted_for' = v /\ log' = log
      /\ commit_index' = commit_index /\ base' = base /\ base_term' = base_term
      /\ store' = store /\ snapshot_index' = snapshot_index
      /\ persisted_vote' = persisted_vote /\ persisted_commit' = persisted_commit
  BY DEF Inv, CastVote, diskVars, watchVars, history
<1>2. decided \in Seq(1..MaxTerm) /\ Grows(decided, decided')
  BY <1>1, GrowsItself DEF MemorySound
<1>3. FilesSound' /\ Found' = Found
  BY <1>1, <1>2, FilesStay
<1>4. SnapshotsSound'
  BY <1>1, <1>2, <1>3, SnapshotsStay
<1>5. MemorySound'
  BY <1>1 DEF MemorySound, last_index
<1>6. FileIsMemory'
  BY <1>1, <1>3 DEF FileIsMemory
<1> QED BY <1>3, <1>4, <1>5, <1>6 DEF Inv

\* What is applied is committed, and so decided.
LEMMA ApplyCommittedKeeps ==
  ASSUME Inv, ApplyCommitted
  PROVE  Inv'
<1>1. /\ FilesSound /\ SnapshotsSound /\ MemorySound /\ FileIsMemory
      /\ pc = "idle" /\ pc' = pc /\ decided' = decided /\ snapshots' = snapshots
      /\ file' = file /\ synced' = synced /\ term' = term /\ voted_for' = voted_for /\ log' = log
      /\ commit_index' = commit_index /\ base' = base /\ base_term' = base_term
      /\ store' = SubSeq(WholeLog, 1, commit_index) /\ snapshot_index' = snapshot_index
      /\ persisted_vote' = persisted_vote /\ persisted_commit' = persisted_commit
      /\ Len(store) < commit_index
  BY DEF Inv, ApplyCommitted, last_applied, diskVars, watchVars, history
<1>2. decided \in Seq(1..MaxTerm) /\ Grows(decided, decided')
  BY <1>1, GrowsItself DEF MemorySound
<1>3. FilesSound' /\ Found' = Found
  BY <1>1, <1>2, FilesStay
<1>4. SnapshotsSound'
  BY <1>1, <1>2, <1>3, SnapshotsStay
<1>5. MemorySound'
  <2> DEFINE a == SubSeq(WholeLog, 1, commit_index)
             b == SubSeq(decided, 1, commit_index)
  <2>1. /\ commit_index \in Nat /\ base \in Nat /\ Len(log) \in Nat /\ Len(decided) \in Nat
        /\ Len(store) \in Nat /\ snapshot_index \in Nat
    BY <1>1, LenProperties DEF MemorySound
  <2>2. commit_index <= base + Len(log) /\ commit_index <= Len(decided)
    BY <1>1 DEF MemorySound, last_index
  <2>3. WholeLog \in Seq(1..MaxTerm) /\ Len(WholeLog) = base + Len(log)
        /\ \A i \in 1..commit_index : WholeLog[i] = decided[i]
    BY <1>1, WholeLogParts DEF last_index
  <2>4. commit_index \in 0..Len(WholeLog) /\ commit_index \in 0..Len(decided)
    BY <2>1, <2>2, <2>3
  <2>5. a \in Seq(1..MaxTerm) /\ Len(a) = commit_index
        /\ \A i \in 1..commit_index : a[i] = WholeLog[i]
    BY <2>3, <2>4, Beginning
  <2>6. b \in Seq(1..MaxTerm) /\ Len(b) = commit_index
        /\ \A i \in 1..commit_index : b[i] = decided[i]
    BY <1>2, <2>4, Beginning
  <2>7. store' = a
    BY <1>1
  <2> HIDE DEF a, b
  <2>8. a = b
    BY <2>3, <2>5, <2>6, SameSequence
  <2>9. store' \in Seq(1..MaxTerm) /\ Len(store') = commit_index
        /\ store' = SubSeq(decided, 1, Len(store'))
    BY <2>5, <2>7, <2>8 DEF b
  <2>10. snapshot_index <= commit_index /\ commit_index <= commit_index
    <3>1. snapshot_index <= Len(store)
      BY <1>1 DEF MemorySound
    <3> QED BY <1>1, <2>1, <3>1
  <2> QED BY <1>1, <2>9, <2>10 DEF MemorySound, last_index
<1>6. FileIsMemory'
  BY <1>1, <1>3 DEF FileIsMemory
<1> QED BY <1>3, <1>4, <1>5, <1>6 DEF Inv

\* A sync leaves fewer lines for a crash to take.
LEMMA SyncAndSendKeeps ==
  ASSUME Inv, SyncAndSend
  PROVE  Inv'
<1>1. /\ FilesSound /\ SnapshotsSound /\ MemorySound /\ FileIsMemory
      /\ pc = "commit_recorded" /\ pc' = "idle" /\ decided' = decided /\ snapshots' = snapshots
      /\ file' = file /\ synced' \in {synced, Len(file)} /\ term' = term
      /\ voted_for' = voted_for /\ log' = log
      /\ commit_index' = commit_index /\ base' = base /\ base_term' = base_term
      /\ store' = store /\ snapshot_index' = snapshot_index
      /\ persisted_vote' = persisted_vote /\ persisted_commit' = persisted_commit
  BY DEF Inv, SyncAndSend, SyncedNow, memVars, watchVars
<1>2. decided \in Seq(1..MaxTerm) /\ Grows(decided, decided')
  BY <1>1, GrowsItself DEF MemorySound
<1>3. FilesSound' /\ Found' = Found
  BY <1>1, <1>2, FilesStay
<1>4. SnapshotsSound'
  BY <1>1, <1>2, <1>3, SnapshotsStay
<1>5. MemorySound'
  BY <1>1 DEF MemorySound, last_index
<1>6. FileIsMemory'
  BY <1>1, <1>3 DEF FileIsMemory
<1> QED BY <1>3, <1>4, <1>5, <1>6 DEF Inv
\* The memory stays as it is.
LEMMA MemoryStays ==
  ASSUME MemorySound, UNCHANGED memVars, UNCHANGED <<snapshot_index, decided>>
  PROVE  MemorySound'
BY DEF MemorySound, memVars, last_index

\* The record of a term is above the recorded one, or no record is written.
LEMMA PersistVoteKeeps ==
  ASSUME Inv, PersistVote
  PROVE  Inv'
<1>1. /\ FilesSound /\ SnapshotsSound /\ MemorySound /\ FileIsMemory
      /\ pc = "idle" /\ pc' = "vote_recorded" /\ decided' = decided
      /\ UNCHANGED memVars /\ snapshot_index' = snapshot_index
      /\ persisted_vote' = <<term, voted_for>> /\ persisted_commit' = persisted_commit
  BY DEF Inv, PersistVote, history
<1>2. term' = term /\ log' = log /\ commit_index' = commit_index /\ base' = base
  BY <1>1 DEF memVars
<1>3. /\ decided \in Seq(1..MaxTerm) /\ Grows(decided, decided') /\ term \in 0..MaxTerm
      /\ voted_for \in Voter \cup {Nil} /\ term \in Nat
  BY <1>1, GrowsItself DEF MemorySound
<1>4. MemorySound'
  BY <1>1, MemoryStays
<1>5. Sound(Found, decided) /\ Found.term \in 0..MaxTerm
  BY <1>1, FoundReaches DEF Sound, Recovery
<1>6. CASE persisted_vote # <<term, voted_for>>
  <2> DEFINE rec == TermRecord(term, voted_for)
             s == Replay(Found, rec)
  <2>1. Record(rec)
    BY <1>6 DEF PersistVote
  <2>2. Found.term <= term
    BY <1>1 DEF FileIsMemory
  <2>3. /\ Sound(s, decided) /\ rec \in LogRecord /\ s.base = Found.base
        /\ s.entries = Found.entries /\ s.commit = Found.commit /\ s.term = term
        /\ s.voted_for = voted_for
    BY <1>3, <1>5, <2>2, TermSound
  <2> HIDE DEF rec
  <2>4. FilesSound' /\ Found' = s
    BY <1>1, <2>1, <2>3, RecordStep
  <2>5. snapshots' = snapshots
    BY <2>1 DEF Record
  <2> HIDE DEF s
  <2>6. SnapshotsSound'
    BY <1>1, <1>3, <2>3, <2>4, <2>5, SnapshotsStay
  <2>7. FileIsMemory'
    <3>1. persisted_vote'[1] = term /\ persisted_vote'[2] = voted_for /\ term <= term
      BY <1>1, <1>3
    <3> QED BY <1>1, <1>2, <1>3, <2>3, <2>4, <3>1 DEF FileIsMemory
  <2> QED BY <1>4, <2>4, <2>6, <2>7 DEF Inv
<1>7. CASE persisted_vote = <<term, voted_for>>
  <2>1. file' = file /\ synced' = synced /\ snapshots' = snapshots
    BY <1>7 DEF PersistVote, diskVars
  <2>2. FilesSound' /\ Found' = Found
    BY <1>1, <1>3, <2>1, FilesStay
  <2>3. SnapshotsSound'
    BY <1>1, <1>3, <2>1, <2>2, SnapshotsStay
  <2>4. FileIsMemory'
    BY <1>1, <1>2, <1>7, <2>2 DEF FileIsMemory
  <2> QED BY <1>4, <2>2, <2>3, <2>4 DEF Inv
<1> QED BY <1>6, <1>7

\* The record of a commit index is within the log and above the recorded one.
LEMMA PersistCommitKeeps ==
  ASSUME Inv, PersistCommit
  PROVE  Inv'
<1>1. /\ FilesSound /\ SnapshotsSound /\ MemorySound /\ FileIsMemory
      /\ pc = "vote_recorded" /\ pc' = "commit_recorded" /\ decided' = decided
      /\ UNCHANGED memVars /\ snapshot_index' = snapshot_index
      /\ persisted_vote' = persisted_vote /\ persisted_commit' = commit_index
  BY DEF Inv, PersistCommit, history
<1>2. term' = term /\ log' = log /\ commit_index' = commit_index /\ base' = base
  BY <1>1 DEF memVars
<1>3. /\ decided \in Seq(1..MaxTerm) /\ Grows(decided, decided') /\ commit_index \in Nat
      /\ base \in Nat /\ snapshot_index \in Nat /\ commit_index <= Len(decided)
      /\ commit_index <= last_index
  BY <1>1, GrowsItself DEF MemorySound
<1>4. MemorySound'
  BY <1>1, MemoryStays
<1>5. /\ Sound(Found, decided) /\ Found.base = snapshot_index
      /\ LastRecovered(Found) = last_index
      /\ \A k \in 1..Len(Found.entries) :
            /\ (snapshot_index - base) + k \in 1..Len(log)
            /\ Found.entries[k] = log[(snapshot_index - base) + k]
  BY <1>1, FoundReaches
<1>6. CASE persisted_commit # commit_index
  <2> DEFINE rec == CommitRecord(commit_index)
             s == Replay(Found, rec)
  <2>1. Record(rec)
    BY <1>6 DEF PersistCommit
  <2>2. Found.commit <= commit_index
    BY <1>1 DEF FileIsMemory
  <2>3. ASSUME NEW k \in 1..Len(Found.entries), Found.base + k <= commit_index
        PROVE  Found.entries[k] = decided[Found.base + k]
    <3> DEFINE j == (snapshot_index - base) + k
    <3>1. Len(Found.entries) \in Nat
      BY <1>5, LenProperties DEF Sound, Recovery
    <3>2. j \in 1..Len(log) /\ Found.entries[k] = log[j] /\ base + j = Found.base + k
      BY <1>3, <1>5, <3>1
    <3> HIDE DEF j
    <3>3. base + j <= commit_index => log[j] = decided[base + j]
      BY <1>1, <3>2 DEF MemorySound
    <3> QED BY <2>3, <3>2, <3>3
  <2>4. /\ Sound(s, decided) /\ rec \in LogRecord /\ s.base = Found.base
        /\ s.entries = Found.entries /\ s.commit = commit_index /\ s.term = Found.term
        /\ s.voted_for = Found.voted_for
    <3>1. commit_index <= LastRecovered(Found) /\ commit_index \in Nat
      BY <1>3, <1>5
    <3>2. Sound(Found, decided) /\ commit_index <= Len(decided)
      BY <1>3, <1>5
    <3>3. s = Replay(Found, CommitRecord(commit_index))
      OBVIOUS
    <3> HIDE DEF s
    <3>4. /\ Sound(s, decided) /\ CommitRecord(commit_index) \in LogRecord
          /\ s.base = Found.base /\ s.entries = Found.entries /\ s.commit = commit_index
          /\ s.term = Found.term /\ s.voted_for = Found.voted_for
      BY <2>2, <2>3, <3>1, <3>2, <3>3, CommitSound
    <3> QED BY <3>4
  <2> HIDE DEF rec
  <2>5. FilesSound' /\ Found' = s
    BY <1>1, <2>1, <2>4, RecordStep
  <2>6. snapshots' = snapshots
    BY <2>1 DEF Record
  <2> HIDE DEF s
  <2>7. SnapshotsSound'
    BY <1>1, <1>3, <2>4, <2>5, <2>6, SnapshotsStay
  <2>8. FileIsMemory'
    <3>1. commit_index <= commit_index
      BY <1>3
    <3> QED BY <1>1, <1>2, <2>4, <2>5, <3>1 DEF FileIsMemory
  <2> QED BY <1>4, <2>5, <2>7, <2>8 DEF Inv
<1>7. CASE persisted_commit = commit_index
  <2>1. file' = file /\ synced' = synced /\ snapshots' = snapshots
    BY <1>7 DEF PersistCommit, diskVars
  <2>2. FilesSound' /\ Found' = Found
    BY <1>1, <1>3, <2>1, FilesStay
  <2>3. SnapshotsSound'
    BY <1>1, <1>3, <2>1, <2>2, SnapshotsStay
  <2>4. FileIsMemory'
    BY <1>1, <1>2, <1>7, <2>2 DEF FileIsMemory
  <2> QED BY <1>4, <2>2, <2>3, <2>4 DEF Inv
<1> QED BY <1>6, <1>7

\* The end of a sequence, and one more behind it.
LEMMA PieceOfAppend ==
  ASSUME NEW T, NEW s \in Seq(T), NEW x \in T, NEW d \in Nat, d <= Len(s)
  PROVE  SubSeq(Append(s, x), d + 1, Len(Append(s, x))) = Append(SubSeq(s, d + 1, Len(s)), x)
<1> DEFINE u == Append(s, x)
           a == SubSeq(u, d + 1, Len(u))
           p == SubSeq(s, d + 1, Len(s))
           b == Append(p, x)
<1>1. Len(s) \in Nat
  BY LenProperties
<1>2. /\ u \in Seq(T) /\ Len(u) = Len(s) + 1 /\ \A i \in 1..Len(s) : u[i] = s[i]
      /\ u[Len(s) + 1] = x
  BY AppendProperties
<1>3. p \in Seq(T) /\ Len(p) = Len(s) - d /\ \A i \in 1..(Len(s) - d) : p[i] = s[d + i]
  BY Piece
<1> HIDE DEF u, p
<1>4. d <= Len(u)
  BY <1>1, <1>2
<1>5. a \in Seq(T) /\ Len(a) = Len(u) - d /\ \A i \in 1..(Len(u) - d) : a[i] = u[d + i]
  <2>1. u \in Seq(T)
    BY <1>2
  <2> QED BY <1>4, <2>1, Piece
<1>6. /\ b \in Seq(T) /\ Len(b) = Len(p) + 1 /\ \A i \in 1..Len(p) : b[i] = p[i]
      /\ b[Len(p) + 1] = x
  BY <1>3, AppendProperties
<1> HIDE DEF a, b
<1>7. Len(a) = Len(b)
  BY <1>1, <1>2, <1>3, <1>5, <1>6
<1>8. ASSUME NEW i \in 1..Len(a) PROVE a[i] = b[i]
  <2>1. i \in 1..((Len(s) - d) + 1) /\ i \in 1..(Len(u) - d)
    BY <1>1, <1>2, <1>5
  <2>2. a[i] = u[d + i]
    BY <1>5, <2>1
  <2>3. CASE i \in 1..(Len(s) - d)
    <3>1. d + i \in 1..Len(s)
      BY <1>1, <2>3
    <3> QED BY <1>2, <1>3, <1>6, <2>2, <2>3, <3>1
  <2>4. CASE i = (Len(s) - d) + 1
    <3>1. d + i = Len(s) + 1 /\ i = Len(p) + 1
      BY <1>1, <1>3, <2>4
    <3> QED BY <1>2, <1>6, <2>2, <3>1
  <2> QED BY <1>1, <2>1, <2>3, <2>4
<1>9. a = b
  BY <1>5, <1>6, <1>7, <1>8, SameSequence
<1> QED BY <1>9 DEF a, b, u, p

\* The record of an entry is the next of the file as of the log.
LEMMA AppendEntryKeeps ==
  ASSUME Inv, NEW t \in 1..MaxTerm, AppendEntry(t)
  PROVE  Inv'
<1> DEFINE i == last_index + 1
           rec == EntryRecord(i, t)
           s == Replay(Found, rec)
           d == snapshot_index - base
<1>1. /\ FilesSound /\ SnapshotsSound /\ MemorySound /\ FileIsMemory
      /\ pc = "idle" /\ pc' = pc /\ decided' = decided
      /\ term' = term /\ voted_for' = voted_for /\ log' = Append(log, t)
      /\ commit_index' = commit_index /\ base' = base /\ base_term' = base_term
      /\ store' = store /\ snapshot_index' = snapshot_index
      /\ persisted_vote' = persisted_vote /\ persisted_commit' = persisted_commit
      /\ t <= term /\ Record(rec)
  BY DEF Inv, AppendEntry, watchVars, history
<1>2. /\ decided \in Seq(1..MaxTerm) /\ Grows(decided, decided') /\ term \in 0..MaxTerm
      /\ base \in Nat /\ log \in Seq(1..MaxTerm) /\ Len(log) \in Nat /\ snapshot_index \in Nat
      /\ commit_index \in Nat /\ commit_index <= base + Len(log)
  BY <1>1, GrowsItself, LenProperties DEF MemorySound, last_index
<1>3. /\ Sound(Found, decided) /\ Found.base = snapshot_index
      /\ d \in 0..Len(log) /\ d \in Nat
      /\ Found.entries = SubSeq(log, d + 1, Len(log)) /\ LastRecovered(Found) = last_index
  BY <1>1, FoundReaches
<1>4. i \in Nat /\ i = LastRecovered(Found) + 1
  BY <1>2, <1>3 DEF last_index
<1>5. snapshots' = snapshots
  BY <1>1 DEF Record
<1> HIDE DEF i
<1>6. /\ Sound(s, decided) /\ rec \in LogRecord /\ s.base = Found.base
      /\ s.entries = Append(Found.entries, t) /\ s.commit = Found.commit
      /\ s.term = MaxOf(Found.term, t) /\ s.voted_for = Found.voted_for
  <2>1. Sound(Found, decided)
    BY <1>3
  <2> QED BY <1>4, <2>1, EntrySound
<1> HIDE DEF rec
<1>7. FilesSound' /\ Found' = s
  <2>1. pc # "down"
    BY <1>1
  <2> QED BY <1>1, <1>6, <2>1, RecordStep
<1> HIDE DEF s
<1>8. SnapshotsSound'
  <2>1. pc # "saved" /\ pc' # "saved"
    BY <1>1
  <2> QED BY <1>1, <1>2, <1>5, <1>6, <1>7, <2>1, SnapshotsStay
<1>9. /\ log' \in Seq(1..MaxTerm) /\ Len(log') = Len(log) + 1
      /\ \A k \in 1..Len(log) : log'[k] = log[k]
      /\ log'[Len(log) + 1] = t
  BY <1>1, <1>2, AppendProperties
<1>10. MemorySound'
  <2>1. ASSUME NEW k \in 1..Len(log')
        PROVE  log'[k] <= term /\ (base + k <= commit_index => log'[k] = decided[base + k])
    <3>1. CASE k \in 1..Len(log)
      BY <1>1, <1>9, <3>1 DEF MemorySound
    <3>2. CASE k = Len(log) + 1
      BY <1>1, <1>2, <1>9, <3>2
    <3> QED BY <1>2, <1>9, <2>1, <3>1, <3>2
  <2>2. commit_index <= base + Len(log')
    BY <1>2, <1>9
  <2> QED BY <1>1, <1>9, <2>1, <2>2 DEF MemorySound, last_index
<1>11. FileIsMemory'
  <2>1. Found'.entries = SubSeq(log', d + 1, Len(log'))
    <3>1. d <= Len(log)
      BY <1>2, <1>3
    <3> HIDE DEF d
    <3>2. SubSeq(Append(log, t), d + 1, Len(Append(log, t))) = Append(SubSeq(log, d + 1, Len(log)), t)
      BY <1>2, <1>3, <3>1, PieceOfAppend
    <3> QED BY <1>1, <1>3, <1>6, <1>7, <3>2
  <2>2. Found.term \in 0..MaxTerm
    BY <1>3 DEF Sound, Recovery
  <2>3. /\ persisted_vote[1] \in Nat /\ persisted_vote[1] <= Found.term /\ Found.term <= term
        /\ Found.commit = persisted_commit /\ persisted_commit <= commit_index
        /\ Found.voted_for = persisted_vote[2]
    BY <1>1 DEF FileIsMemory
  <2>4. persisted_vote[1] <= MaxOf(Found.term, t) /\ MaxOf(Found.term, t) <= term
    BY <1>1, <1>2, <2>2, <2>3, BoundAssumption DEF MaxOf
  <2> QED BY <1>1, <1>3, <1>6, <1>7, <2>1, <2>3, <2>4 DEF FileIsMemory
<1> QED BY <1>7, <1>8, <1>10, <1>11 DEF Inv
\* The beginning of an end is the end of a beginning.
LEMMA PieceOfBeginning ==
  ASSUME NEW T, NEW s \in Seq(T), NEW d \in Nat, NEW j \in Nat, d <= j, j <= Len(s)
  PROVE  SubSeq(SubSeq(s, 1, j), d + 1, Len(SubSeq(s, 1, j)))
           = SubSeq(SubSeq(s, d + 1, Len(s)), 1, j - d)
<1> DEFINE u == SubSeq(s, 1, j)
           p == SubSeq(s, d + 1, Len(s))
           a == SubSeq(u, d + 1, Len(u))
           b == SubSeq(p, 1, j - d)
<1>1. Len(s) \in Nat
  BY LenProperties
<1>2. j \in 0..Len(s) /\ d <= Len(s)
  BY <1>1
<1>3. u \in Seq(T) /\ Len(u) = j /\ \A i \in 1..j : u[i] = s[i]
  BY <1>2, Beginning
<1>4. p \in Seq(T) /\ Len(p) = Len(s) - d /\ \A i \in 1..(Len(s) - d) : p[i] = s[d + i]
  BY <1>2, Piece
<1> HIDE DEF u, p
<1>5. a \in Seq(T) /\ Len(a) = Len(u) - d /\ \A i \in 1..(Len(u) - d) : a[i] = u[d + i]
  <2>1. d <= Len(u)
    BY <1>3
  <2> QED BY <1>3, <2>1, Piece
<1>6. j - d \in 0..Len(p)
  BY <1>1, <1>4
<1>7. b \in Seq(T) /\ Len(b) = j - d /\ \A i \in 1..(j - d) : b[i] = p[i]
  BY <1>4, <1>6, Beginning
<1> HIDE DEF a, b
<1>8. Len(a) = j - d /\ Len(b) = j - d
  BY <1>3, <1>5, <1>7
<1>9. ASSUME NEW i \in 1..(j - d) PROVE a[i] = b[i]
  <2>1. d + i \in 1..j /\ i \in 1..(Len(s) - d)
    BY <1>1
  <2> QED BY <1>3, <1>4, <1>5, <1>7, <1>8, <2>1
<1>10. a = b
  BY <1>5, <1>7, <1>8, <1>9, SameSequence
<1> QED BY <1>10 DEF a, b, u, p

\* A truncation, in the file as in the log, takes nothing that is committed.
LEMMA TruncateFromKeeps ==
  ASSUME Inv, NEW i \in Nat, TruncateFrom(i)
  PROVE  Inv'
<1> DEFINE rec == TruncateRecord(i)
           s == Replay(Found, rec)
           d == snapshot_index - base
           j == i - base - 1
<1>1. /\ FilesSound /\ SnapshotsSound /\ MemorySound /\ FileIsMemory
      /\ pc = "idle" /\ pc' = pc /\ decided' = decided
      /\ term' = term /\ voted_for' = voted_for /\ log' = SubSeq(log, 1, j)
      /\ commit_index' = commit_index /\ base' = base /\ base_term' = base_term
      /\ store' = store /\ snapshot_index' = snapshot_index
      /\ persisted_vote' = persisted_vote /\ persisted_commit' = persisted_commit
      /\ commit_index < i /\ i <= last_index /\ Record(rec)
  BY DEF Inv, TruncateFrom, watchVars, history
<1>2. /\ decided \in Seq(1..MaxTerm) /\ Grows(decided, decided')
      /\ base \in Nat /\ log \in Seq(1..MaxTerm) /\ Len(log) \in Nat /\ snapshot_index \in Nat
      /\ commit_index \in Nat /\ Len(store) \in Nat
  BY <1>1, GrowsItself, LenProperties DEF MemorySound
<1>3. /\ Sound(Found, decided) /\ Found.base = snapshot_index
      /\ d \in 0..Len(log) /\ d \in Nat
      /\ Found.entries = SubSeq(log, d + 1, Len(log)) /\ LastRecovered(Found) = last_index
  BY <1>1, FoundReaches
<1>4. base <= snapshot_index /\ snapshot_index <= Len(store) /\ Len(store) <= commit_index
  BY <1>1 DEF MemorySound
<1>5. /\ j \in 0..Len(log) /\ j \in Nat /\ j <= Len(log) /\ d <= j
      /\ j - d = i - snapshot_index - 1 /\ base + j = i - 1
  BY <1>1, <1>2, <1>3, <1>4 DEF last_index
<1>6. Found.commit = persisted_commit /\ persisted_commit <= commit_index
  BY <1>1 DEF FileIsMemory
<1>7. Found.commit \in Nat /\ Found.commit < i /\ i <= LastRecovered(Found)
  <2>1. Found.commit \in Nat
    BY <1>3 DEF Sound, Recovery
  <2> QED BY <1>1, <1>2, <1>3, <1>6, <2>1
<1> HIDE DEF d, j
<1>8. /\ Sound(s, decided) /\ rec \in LogRecord /\ s.base = Found.base
      /\ s.entries = SubSeq(Found.entries, 1, i - Found.base - 1)
      /\ s.commit = Found.commit /\ s.term = Found.term /\ s.voted_for = Found.voted_for
  <2>1. Sound(Found, decided) /\ Found.commit < i /\ i <= LastRecovered(Found)
    BY <1>3, <1>7
  <2>2. s = Replay(Found, TruncateRecord(i))
    OBVIOUS
  <2> HIDE DEF s
  <2>3. /\ Sound(s, decided) /\ TruncateRecord(i) \in LogRecord /\ s.base = Found.base
        /\ s.entries = SubSeq(Found.entries, 1, i - Found.base - 1)
        /\ s.commit = Found.commit /\ s.term = Found.term /\ s.voted_for = Found.voted_for
    BY <2>1, <2>2, TruncateSound
  <2> QED BY <2>3
<1>9. snapshots' = snapshots
  BY <1>1 DEF Record
<1> HIDE DEF rec
<1>10. FilesSound' /\ Found' = s
  <2>1. pc # "down"
    BY <1>1
  <2> QED BY <1>1, <1>8, <2>1, RecordStep
<1> HIDE DEF s
<1>11. SnapshotsSound'
  <2>1. pc # "saved" /\ pc' # "saved"
    BY <1>1
  <2> QED BY <1>1, <1>2, <1>8, <1>9, <1>10, <2>1, SnapshotsStay
<1>12. /\ log' \in Seq(1..MaxTerm) /\ Len(log') = j
       /\ \A k \in 1..j : log'[k] = log[k]
  BY <1>1, <1>2, <1>5, Beginning
<1>13. MemorySound'
  <2>1. \A k \in 1..Len(log') :
           log'[k] <= term /\ (base + k <= commit_index => log'[k] = decided[base + k])
    <3> TAKE k \in 1..Len(log')
    <3>1. k \in 1..j /\ k \in 1..Len(log)
      BY <1>2, <1>5, <1>12
    <3> QED BY <1>1, <1>12, <3>1 DEF MemorySound
  <2>2. commit_index <= base + Len(log')
    BY <1>1, <1>2, <1>5, <1>12
  <2> QED BY <1>1, <1>12, <2>1, <2>2 DEF MemorySound, last_index
<1>14. FileIsMemory'
  <2>1. Found'.entries = SubSeq(log', d + 1, Len(log'))
    <3>1. SubSeq(SubSeq(log, 1, j), d + 1, Len(SubSeq(log, 1, j)))
            = SubSeq(SubSeq(log, d + 1, Len(log)), 1, j - d)
      BY <1>2, <1>3, <1>5, PieceOfBeginning
    <3>2. s.entries = SubSeq(SubSeq(log, d + 1, Len(log)), 1, j - d)
      BY <1>3, <1>5, <1>8
    <3> QED BY <1>1, <1>10, <3>1, <3>2
  <2> QED BY <1>1, <1>3, <1>8, <1>10, <2>1 DEF FileIsMemory, d
<1> QED BY <1>10, <1>11, <1>13, <1>14 DEF Inv

\* What is decided grows with the commit index, and nothing decided changes.
LEMMA AdvanceCommitKeeps ==
  ASSUME Inv, NEW i \in Nat, AdvanceCommit(i)
  PROVE  Inv'
<1> DEFINE lg == SubSeq(WholeLog, 1, i)
<1>1. /\ FilesSound /\ SnapshotsSound /\ MemorySound /\ FileIsMemory
      /\ pc = "idle" /\ pc' = pc /\ snapshots' = snapshots
      /\ file' = file /\ synced' = synced /\ term' = term /\ voted_for' = voted_for /\ log' = log
      /\ commit_index' = i /\ base' = base /\ base_term' = base_term
      /\ store' = store /\ snapshot_index' = snapshot_index
      /\ persisted_vote' = persisted_vote /\ persisted_commit' = persisted_commit
      /\ commit_index < i /\ i <= last_index /\ Agrees(lg)
      /\ decided' = IF i > Len(decided) THEN lg ELSE decided
  BY DEF Inv, AdvanceCommit, diskVars, watchVars
<1>2. /\ decided \in Seq(1..MaxTerm) /\ Len(decided) \in Nat
      /\ base \in Nat /\ log \in Seq(1..MaxTerm) /\ Len(log) \in Nat /\ commit_index \in Nat
      /\ Len(store) \in Nat /\ store \in Seq(1..MaxTerm) /\ commit_index <= Len(decided)
      /\ Len(store) <= commit_index /\ base <= Len(store) /\ snapshot_index \in Nat
  <2>1. snapshot_index <= Len(store) /\ base <= snapshot_index
    BY <1>1 DEF MemorySound
  <2> QED BY <1>1, <2>1, LenProperties DEF MemorySound
<1>3. /\ WholeLog \in Seq(1..MaxTerm) /\ Len(WholeLog) = base + Len(log)
      /\ \A k \in 1..Len(log) : WholeLog[base + k] = log[k]
  BY <1>1, WholeLogParts DEF last_index
<1>4. i \in 0..Len(WholeLog)
  BY <1>1, <1>2, <1>3 DEF last_index
<1>5. lg \in Seq(1..MaxTerm) /\ Len(lg) = i /\ \A k \in 1..i : lg[k] = WholeLog[k]
  BY <1>3, <1>4, Beginning
<1> HIDE DEF lg
<1>6. /\ decided' \in Seq(1..MaxTerm) /\ Grows(decided, decided') /\ i <= Len(decided')
      /\ \A k \in 1..i : decided'[k] = WholeLog[k]
  <2>1. CASE i > Len(decided)
    <3>1. IsPrefix(decided, lg)
      <4>1. CASE IsPrefix(lg, decided)
        BY <1>2, <1>5, <2>1, <4>1 DEF IsPrefix
      <4> QED BY <1>1, <4>1 DEF Agrees
    <3>2. Len(decided) <= i /\ Len(decided) \in 0..i
      BY <1>2, <2>1
    <3>3. SubSeq(decided, 1, Len(decided)) = SubSeq(lg, 1, Len(decided))
      BY <3>1 DEF IsPrefix
    <3>4. SubSeq(decided, 1, Len(decided)) = decided
      BY <1>2, SubSeqFull
    <3>5. \A k \in 1..Len(decided) : SubSeq(lg, 1, Len(decided))[k] = lg[k]
      BY <1>5, <3>2, Beginning
    <3>6. \A k \in 1..Len(decided) : lg[k] = decided[k]
      BY <3>3, <3>4, <3>5
    <3>7. decided' = lg
      BY <1>1, <2>1
    <3> QED BY <1>5, <3>2, <3>6, <3>7 DEF Grows
  <2>2. CASE ~ (i > Len(decided))
    <3>1. decided' = decided /\ i <= Len(decided) /\ i \in 0..Len(decided)
      BY <1>1, <1>2, <2>2
    <3>2. IsPrefix(lg, decided)
      <4>1. CASE IsPrefix(decided, lg)
        <5>1. Len(decided) = i
          BY <1>2, <1>5, <3>1, <4>1 DEF IsPrefix
        <5>2. SubSeq(decided, 1, i) = SubSeq(lg, 1, i)
          BY <4>1, <5>1 DEF IsPrefix
        <5> QED BY <1>2, <1>5, <3>1, <5>2 DEF IsPrefix
      <4> QED BY <1>1, <4>1 DEF Agrees
    <3>3. SubSeq(lg, 1, i) = SubSeq(decided, 1, i)
      BY <1>5, <3>2 DEF IsPrefix
    <3>4. SubSeq(lg, 1, i) = lg
      BY <1>5, SubSeqFull
    <3>5. \A k \in 1..i : SubSeq(decided, 1, i)[k] = decided[k]
      BY <1>2, <3>1, Beginning
    <3>6. \A k \in 1..i : decided[k] = WholeLog[k]
      BY <1>5, <3>3, <3>4, <3>5
    <3> QED BY <1>2, <3>1, <3>6, GrowsItself
  <2> QED BY <2>1, <2>2
<1>7. FilesSound' /\ Found' = Found
  BY <1>1, <1>2, <1>6, FilesStay
<1>8. SnapshotsSound'
  BY <1>1, <1>2, <1>6, <1>7, SnapshotsStay
<1>9. MemorySound'
  <2>1. ASSUME NEW k \in 1..Len(log), base + k <= i PROVE log[k] = decided'[base + k]
    <3>1. base + k \in 1..i
      BY <1>2, <2>1
    <3> QED BY <1>3, <1>6, <3>1
  <2>2. store = SubSeq(decided', 1, Len(store))
    <3> DEFINE a == SubSeq(decided, 1, Len(store))
               b == SubSeq(decided', 1, Len(store))
    <3>1. Len(store) \in 0..Len(decided) /\ Len(store) \in 0..Len(decided')
      BY <1>1, <1>2, <1>6, LenProperties
    <3>2. a \in Seq(1..MaxTerm) /\ Len(a) = Len(store) /\ \A k \in 1..Len(store) : a[k] = decided[k]
      BY <1>2, <3>1, Beginning
    <3>3. b \in Seq(1..MaxTerm) /\ Len(b) = Len(store) /\ \A k \in 1..Len(store) : b[k] = decided'[k]
      BY <1>6, <3>1, Beginning
    <3> HIDE DEF a, b
    <3>4. \A k \in 1..Len(store) : decided[k] = decided'[k]
      <4>1. \A k \in 1..Len(store) : k \in 1..Len(decided)
        BY <1>2
      <4> QED BY <1>6, <4>1 DEF Grows
    <3>5. a = b
      BY <3>2, <3>3, <3>4, SameSequence
    <3>6. store = a
      BY <1>1 DEF MemorySound, a
    <3> QED BY <3>5, <3>6 DEF b
  <2>3. Len(store) <= i
    BY <1>1, <1>2
  <2> QED BY <1>1, <1>6, <2>1, <2>2, <2>3 DEF MemorySound, last_index
<1>10. FileIsMemory'
  <2>1. Found.commit \in Nat
    BY <1>1, FoundReaches DEF Sound, Recovery
  <2>2. persisted_commit <= i
    BY <1>1, <1>2, <2>1 DEF FileIsMemory
  <2> QED BY <1>1, <1>7, <2>2 DEF FileIsMemory
<1> QED BY <1>7, <1>8, <1>9, <1>10 DEF Inv
\* A snapshot is what is applied, and none was saved above it but by a crash before.
LEMMA SaveSnapshotKeeps ==
  ASSUME Inv, SaveSnapshot
  PROVE  Inv'
<1> DEFINE n == Len(store)
<1>1. /\ FilesSound /\ SnapshotsSound /\ MemorySound /\ FileIsMemory
      /\ pc = "idle" /\ pc' = "saved" /\ decided' = decided
      /\ snapshots' = [i \in DOMAIN snapshots \cup {n} |-> IF i = n THEN store ELSE snapshots[i]]
      /\ file' = file /\ synced' = synced /\ UNCHANGED memVars
      /\ n > snapshot_index /\ snapshot_index' = snapshot_index
      /\ persisted_vote' = persisted_vote /\ persisted_commit' = persisted_commit
  BY DEF Inv, SaveSnapshot, last_applied, watchVars, history
<1>2. /\ decided \in Seq(1..MaxTerm) /\ Grows(decided, decided') /\ n \in Nat
      /\ snapshot_index \in Nat /\ Len(decided) \in Nat /\ commit_index \in Nat
      /\ n <= commit_index /\ commit_index <= Len(decided) /\ store = SubSeq(decided, 1, n)
  BY <1>1, GrowsItself, LenProperties DEF MemorySound
<1>3. /\ term' = term /\ log' = log /\ commit_index' = commit_index /\ base' = base
      /\ store' = store
  BY <1>1 DEF memVars
<1>4. FilesSound' /\ Found' = Found
  BY <1>1, <1>2, FilesStay
<1>5. MemorySound'
  BY <1>1, MemoryStays
<1>6. FileIsMemory'
  BY <1>1, <1>3, <1>4 DEF FileIsMemory
<1>7. SnapshotsSound'
  <2>1. DOMAIN snapshots' = DOMAIN snapshots \cup {n} /\ IsFiniteSet(DOMAIN snapshots)
    BY <1>1 DEF SnapshotsSound, SavedSound
  <2>2. SavedSound(snapshots', decided)
    <3>1. IsFiniteSet(DOMAIN snapshots')
      BY <2>1, FS_AddElement
    <3>2. n \in Nat \ {0} /\ n <= Len(decided)
      BY <1>1, <1>2
    <3>3. ASSUME NEW i \in DOMAIN snapshots'
          PROVE  i \in Nat \ {0} /\ i <= Len(decided) /\ snapshots'[i] = SubSeq(decided, 1, i)
      <4>1. CASE i = n
        BY <1>1, <1>2, <3>2, <4>1
      <4>2. CASE i # n
        <5>1. i \in DOMAIN snapshots /\ snapshots'[i] = snapshots[i]
          BY <1>1, <2>1, <3>3, <4>2
        <5> QED BY <1>1, <5>1 DEF SnapshotsSound, SavedSound
      <4> QED BY <4>1, <4>2
    <3> QED BY <3>1, <3>3 DEF SavedSound
  <2>3. Cardinality(Above(snapshots', n)) <= MaxOrphans
    <3>1. Found.base = snapshot_index
      BY <1>1 DEF FileIsMemory
    <3>2. \A i \in DOMAIN snapshots : i \in Nat
      BY <1>1 DEF SnapshotsSound, SavedSound
    <3>3. Above(snapshots', n) \subseteq Above(snapshots, Found.base)
      <4> SUFFICES ASSUME NEW i \in Above(snapshots', n) PROVE i \in Above(snapshots, Found.base)
        OBVIOUS
      <4>1. i \in DOMAIN snapshots' /\ i > n
        BY DEF Above
      <4>2. i \in DOMAIN snapshots
        BY <1>2, <2>1, <4>1
      <4>3. i > Found.base
        BY <1>1, <1>2, <3>1, <3>2, <4>1, <4>2
      <4> QED BY <4>2, <4>3 DEF Above
    <3>4. IsFiniteSet(Above(snapshots, Found.base))
      <4>1. Above(snapshots, Found.base) \subseteq DOMAIN snapshots
        BY DEF Above
      <4> QED BY <2>1, <4>1, FS_Subset
    <3>5. Cardinality(Above(snapshots, Found.base)) <= MaxOrphans
      BY <1>1 DEF SnapshotsSound
    <3> DEFINE x == Cardinality(Above(snapshots', n))
               y == Cardinality(Above(snapshots, Found.base))
    <3>6. x <= y /\ IsFiniteSet(Above(snapshots', n))
      BY <3>3, <3>4, FS_Subset
    <3>7. x \in Nat /\ y \in Nat
      BY <3>4, <3>6, FS_CardinalityType
    <3> HIDE DEF x, y
    <3>8. x <= MaxOrphans
      BY <3>5, <3>6, <3>7, BoundAssumption DEF y
    <3> QED BY <3>8 DEF x
  <2>4. Found'.base # 0 => Found'.base \in DOMAIN snapshots'
    BY <1>1, <1>4, <2>1 DEF SnapshotsSound
  <2> QED BY <1>1, <1>3, <2>1, <2>2, <2>3, <2>4 DEF SnapshotsSound, last_applied
<1> QED BY <1>4, <1>5, <1>6, <1>7 DEF Inv

\* The snapshot that the log refers to is among those kept: fewer are above it.
LEMMA PruneKeeps ==
  ASSUME Inv, Prune, MaxOrphans < Keep
  PROVE  Inv'
<1>1. /\ FilesSound /\ SnapshotsSound /\ MemorySound /\ FileIsMemory
      /\ pc = "compacted" /\ pc' = "idle" /\ decided' = decided
      /\ snapshots' = [i \in Newest(DOMAIN snapshots) |-> snapshots[i]]
      /\ file' = file /\ synced' = synced /\ UNCHANGED memVars
      /\ snapshot_index' = snapshot_index
      /\ persisted_vote' = persisted_vote /\ persisted_commit' = persisted_commit
  BY DEF Inv, Prune, watchVars, history
<1>2. decided \in Seq(1..MaxTerm) /\ Grows(decided, decided')
  BY <1>1, GrowsItself DEF MemorySound
<1>3. term' = term /\ log' = log /\ commit_index' = commit_index /\ base' = base
  BY <1>1 DEF memVars
<1>4. FilesSound' /\ Found' = Found
  BY <1>1, <1>2, FilesStay
<1>5. MemorySound'
  BY <1>1, MemoryStays
<1>6. FileIsMemory'
  BY <1>1, <1>3, <1>4 DEF FileIsMemory
<1> DEFINE D == DOMAIN snapshots
<1>7. SnapshotsSound'
  <2>1. /\ IsFiniteSet(D) /\ DOMAIN snapshots' = Newest(D) /\ Newest(D) \subseteq D
        /\ \A i \in Newest(D) : snapshots'[i] = snapshots[i]
    BY <1>1 DEF SnapshotsSound, SavedSound, Newest
  <2>2. IsFiniteSet(DOMAIN snapshots')
    BY <2>1, FS_Subset
  <2>3. SavedSound(snapshots', decided')
    BY <1>1, <2>1, <2>2 DEF SnapshotsSound, SavedSound
  <2> DEFINE up == Above(snapshots, Found.base)
             y == Cardinality(up)
  <2>4. y <= MaxOrphans
    BY <1>1 DEF SnapshotsSound
  <2>5. IsFiniteSet(up)
    <3>1. up \subseteq D
      BY DEF Above
    <3> QED BY <2>1, <3>1, FS_Subset
  <2>6. y \in Nat
    BY <2>5, FS_CardinalityType
  <2>7. Found.base # 0 => Found.base \in Newest(D)
    <3>1. y < Keep
      <4> HIDE DEF y
      <4> QED BY <2>4, <2>6, BoundAssumption, KeepAssumption
    <3>2. up = {j \in D : j > Found.base}
      BY DEF Above
    <3>3. Found.base # 0 => Found.base \in D
      BY <1>1 DEF SnapshotsSound
    <3> QED BY <3>1, <3>2, <3>3 DEF Newest
  <2>8. Cardinality(Above(snapshots', Found.base)) <= MaxOrphans
    <3>1. Above(snapshots', Found.base) \subseteq up
      BY <2>1 DEF Above
    <3> DEFINE x == Cardinality(Above(snapshots', Found.base))
    <3> HIDE DEF up
    <3>2. x <= y /\ IsFiniteSet(Above(snapshots', Found.base))
      BY <2>5, <3>1, FS_Subset
    <3>3. x \in Nat
      BY <3>2, FS_CardinalityType
    <3> HIDE DEF x, y
    <3>4. x <= MaxOrphans
      BY <2>4, <2>6, <3>2, <3>3, BoundAssumption
    <3> QED BY <3>4 DEF x
  <2> QED BY <1>1, <1>4, <2>1, <2>3, <2>7, <2>8 DEF SnapshotsSound
<1> QED BY <1>4, <1>5, <1>6, <1>7 DEF Inv

\* The rewritten file brings back the memory, and refers to the snapshot just saved.
LEMMA CompactKeeps ==
  ASSUME Inv, Compact
  PROVE  Inv'
<1> DEFINE idx == Len(store)
           d == idx - base
           es == SubSeq(log, d + 1, Len(log))
           t0 == WholeLog[idx]
<1>1. /\ FilesSound /\ SnapshotsSound /\ MemorySound /\ FileIsMemory
      /\ pc = "saved" /\ pc' = "compacted" /\ decided' = decided /\ snapshots' = snapshots
      /\ file' = Compacted(idx) /\ synced' = Len(file') /\ UNCHANGED memVars
      /\ snapshot_index' = idx
      /\ persisted_vote' = <<term, voted_for>> /\ persisted_commit' = commit_index
  BY DEF Inv, Compact, last_applied, history
<1>2. /\ decided \in Seq(1..MaxTerm) /\ Len(decided) \in Nat /\ idx \in Nat /\ base \in Nat
      /\ snapshot_index \in Nat /\ commit_index \in Nat /\ commit_index <= Len(decided)
      /\ log \in Seq(1..MaxTerm) /\ Len(log) \in Nat /\ idx <= commit_index
      /\ commit_index <= base + Len(log) /\ base <= snapshot_index
      /\ term \in 0..MaxTerm /\ voted_for \in Voter \cup {Nil} /\ term \in Nat
  BY <1>1, LenProperties DEF MemorySound, last_index
<1>3. snapshot_index < idx /\ idx \in DOMAIN snapshots
      /\ Cardinality(Above(snapshots, idx)) <= MaxOrphans
  BY <1>1, <1>2 DEF SnapshotsSound, last_applied
<1>4. term' = term /\ log' = log /\ commit_index' = commit_index /\ base' = base
      /\ voted_for' = voted_for /\ base_term' = base_term /\ store' = store
  BY <1>1 DEF memVars
<1> HIDE DEF idx
<1>5. d \in 1..Len(log) /\ d \in Nat /\ d <= Len(log) /\ base + d = idx
  BY <1>2, <1>3
<1> HIDE DEF d
<1>6. /\ WholeLog \in Seq(1..MaxTerm) /\ Len(WholeLog) = base + Len(log)
      /\ \A k \in 1..Len(log) : WholeLog[base + k] = log[k]
  BY <1>1, WholeLogParts DEF last_index
<1>7. \A k \in 1..Len(log) :
         /\ log[k] \in 1..MaxTerm /\ log[k] <= term
         /\ base + k <= commit_index => log[k] = decided[base + k]
  <2> TAKE k \in 1..Len(log)
  <2>1. log[k] \in 1..MaxTerm
    BY <1>2, ElementOfSeq
  <2> QED BY <1>1, <2>1 DEF MemorySound
<1>8. t0 \in 1..MaxTerm /\ t0 <= term
  <2>1. t0 = log[d]
    BY <1>5, <1>6
  <2> QED BY <1>5, <1>7, <2>1
<1>9. es \in Seq(1..MaxTerm) /\ Len(es) = Len(log) - d
      /\ \A k \in 1..(Len(log) - d) : es[k] = log[d + k]
  BY <1>2, <1>5, Piece
<1>10. file' = Rewritten(idx, t0, term, voted_for, es, commit_index)
  <2>1. /\ last_index - idx = Len(log) - d
    BY <1>2, <1>5 DEF last_index
  <2>2. ASSUME NEW k \in 1..(Len(log) - d) PROVE WholeLog[idx + k] = es[k]
    <3>1. d + k \in 1..Len(log) /\ idx + k = base + (d + k)
      BY <1>2, <1>5
    <3> QED BY <1>6, <1>9, <3>1
  <2> DEFINE n == Len(log) - d
  <2>3. [k \in 1..n |-> EntryRecord(idx + k, WholeLog[idx + k])]
          = [k \in 1..n |-> EntryRecord(idx + k, es[k])]
    <3> HIDE DEF es
    <3>1. \A k \in 1..n : EntryRecord(idx + k, WholeLog[idx + k]) = EntryRecord(idx + k, es[k])
      BY <2>2
    <3> QED BY <3>1
  <2>4. last_index - idx = n /\ Len(es) = n
    BY <1>9, <2>1
  <2> HIDE DEF n, es
  <2>5. [k \in 1..(last_index - idx) |-> EntryRecord(idx + k, WholeLog[idx + k])]
          = [k \in 1..Len(es) |-> EntryRecord(idx + k, es[k])]
    BY <2>3, <2>4
  <2> QED BY <1>1, <2>5 DEF Compacted, Rewritten
<1> HIDE DEF es, t0
<1>11. /\ \A k \in 1..Len(es) : es[k] <= term
       /\ \A k \in 1..Len(es) : idx + k <= commit_index => es[k] = decided[idx + k]
       /\ commit_index <= idx + Len(es)
  <2>1. ASSUME NEW k \in 1..Len(es)
        PROVE  es[k] <= term /\ (idx + k <= commit_index => es[k] = decided[idx + k])
    <3>1. d + k \in 1..Len(log) /\ idx + k = base + (d + k) /\ es[k] = log[d + k]
      BY <1>2, <1>5, <1>9
    <3> QED BY <1>7, <3>1
  <2>2. commit_index <= idx + Len(es)
    BY <1>2, <1>5, <1>9
  <2> QED BY <2>1, <2>2
<1> DEFINE lines == file'
<1>12. /\ FileSound(lines, Len(lines), decided) /\ AllWhole(lines)
       /\ Finds(lines).base = idx /\ Finds(lines).entries = es
       /\ Finds(lines).commit = commit_index /\ Finds(lines).term = term
       /\ Finds(lines).voted_for = voted_for
  <2>1. lines = Rewritten(idx, t0, term, voted_for, es, commit_index)
    BY <1>10
  <2> HIDE DEF lines
  <2>2. es \in Seq(1..MaxTerm)
    BY <1>9
  <2>3. /\ \A k \in 1..Len(es) : es[k] <= term
        /\ \A k \in 1..Len(es) : idx + k <= commit_index => es[k] = decided[idx + k]
    BY <1>11
  <2>4. idx <= commit_index /\ commit_index <= idx + Len(es) /\ commit_index <= Len(decided)
    BY <1>2, <1>11
  <2>5. idx \in Nat /\ term \in 0..MaxTerm /\ voted_for \in Voter \cup {Nil}
        /\ decided \in Seq(1..MaxTerm) /\ commit_index \in Nat
    BY <1>2
  <2>6. BringsBack(lines, decided, idx, term, voted_for, es, commit_index)
    BY <1>8, <2>1, <2>2, <2>3, <2>4, <2>5, CompactedSound
  <2> QED BY <2>6 DEF BringsBack
<1>13. FilesSound'
  BY <1>1, <1>12 DEF FilesSound
<1>14. /\ Found'.base = idx /\ Found'.entries = es /\ Found'.commit = commit_index
       /\ Found'.term = term /\ Found'.voted_for = voted_for
  BY <1>12 DEF Found
<1>15. SnapshotsSound'
  BY <1>1, <1>3, <1>14 DEF SnapshotsSound
<1>16. MemorySound'
  <2>1. base <= idx /\ idx <= Len(store')
    BY <1>2, <1>3, <1>4 DEF idx
  <2> QED BY <1>1, <1>2, <1>4, <2>1 DEF MemorySound, last_index
<1>17. FileIsMemory'
  <2>1. persisted_vote'[1] = term /\ persisted_vote'[2] = voted_for
        /\ commit_index <= commit_index /\ term <= term
    BY <1>1, <1>2
  <2> QED BY <1>1, <1>2, <1>4, <1>14, <2>1 DEF FileIsMemory, es, d
<1> QED BY <1>13, <1>15, <1>16, <1>17 DEF Inv
\* A node that has stopped remembers nothing, and no more snapshots are above
\* the one its log refers to than the model lets there be.
LEMMA DieForgets ==
  ASSUME Inv, Die, Found'.base = Found.base
  PROVE  MemorySound' /\ FileIsMemory' /\ SnapshotsSound'
<1>1. /\ pc # "down" /\ pc' = "down" /\ term' = 0 /\ voted_for' = Nil /\ log' = <<>>
      /\ commit_index' = 0 /\ base' = 0 /\ base_term' = 0 /\ store' = <<>>
      /\ snapshot_index' = 0 /\ snapshots' = snapshots /\ decided' = decided
      /\ Cardinality(Orphans) <= MaxOrphans
  BY DEF Die
<1>2. FilesSound /\ SnapshotsSound /\ decided \in Seq(1..MaxTerm)
  BY DEF Inv, MemorySound
<1>3. MemorySound'
  <2>1. <<>> \in Seq(1..MaxTerm) /\ Len(<<>>) = 0 /\ 0 \in 0..MaxTerm /\ Len(decided) \in Nat
    BY <1>2, BoundAssumption, LenProperties
  <2>2. SubSeq(decided, 1, 0) = <<>>
    BY SubSeqEmpty
  <2>3. \A i \in 1..Len(log') : FALSE
    BY <1>1, <2>1
  <2>4. Len(log') = 0 /\ Len(store') = 0
    BY <1>1, <2>1
  <2> QED BY <1>1, <1>2, <2>1, <2>2, <2>3, <2>4 DEF MemorySound, last_index
<1>4. FileIsMemory'
  BY <1>1 DEF FileIsMemory
<1>5. Found = Fold(file)
  BY <1>1, <1>2, ValidLines DEF FilesSound, Found
<1>6. Orphans = Above(snapshots, Found.base)
  BY <1>5 DEF Orphans, Above
<1>7. SnapshotsSound'
  BY <1>1, <1>2, <1>6 DEF SnapshotsSound
<1> QED BY <1>3, <1>4, <1>7

\* What a power loss leaves.
LEMMA LossLeaves ==
  ASSUME PowerLoss, TornForms \subseteq {"torn"}, FileSound(file, synced, decided)
  PROVE  \E n \in synced..Len(file), rec \in LogRecord :
            file' = SubSeq(file, 1, n) \/ file' = Torn(file, n, rec)
<1>1. /\ file \in Seq(FileLine) /\ Len(file) \in Nat /\ synced \in 0..Len(file)
  BY ValidLines
<1>2. PICK n \in synced..Len(file) :
        \/ file' = SubSeq(file, 1, n)
        \/ /\ n < Len(file)
           /\ \E form \in TornForms :
                 file' = Append(SubSeq(file, 1, n), Line(file[n + 1].record, form))
  BY DEF PowerLoss
<1>3. CASE file' = SubSeq(file, 1, n)
  <2>1. HeaderRecord \in LogRecord
    BY DEF HeaderRecord, LogRecord
  <2> QED BY <1>3, <2>1
<1>4. CASE /\ n < Len(file)
           /\ \E form \in TornForms :
                 file' = Append(SubSeq(file, 1, n), Line(file[n + 1].record, form))
  <2>1. n + 1 \in 1..Len(file)
    BY <1>1, <1>4
  <2>2. file[n + 1] \in FileLine
    BY <1>1, <2>1, ElementOfSeq
  <2>3. file[n + 1].record \in LogRecord
    BY <2>2 DEF FileLine
  <2>4. file' = Torn(file, n, file[n + 1].record)
    BY <1>4 DEF Torn
  <2> QED BY <2>3, <2>4
<1> QED BY <1>2, <1>3, <1>4

\* A power loss leaves whole lines, at least those synced, and perhaps a torn one.
LEMMA PowerLossKeeps ==
  ASSUME Inv, PowerLoss, TornForms \subseteq {"torn"}
  PROVE  Inv'
<1> DEFINE left == file'
<1>1. FileSound(file, synced, decided) /\ AllWhole(file) /\ Die
      /\ decided' = decided /\ synced' = Len(left) /\ pc' = "down"
  BY DEF Inv, FilesSound, PowerLoss, Die
<1>2. PICK n \in synced..Len(file) :
        \E rec \in LogRecord : left = SubSeq(file, 1, n) \/ left = Torn(file, n, rec)
  BY <1>1, LossLeaves
<1>3. Found'.base = Finds(left).base /\ Found.base = Finds(file).base
  BY DEF Found
<1>4. FilesSound' <=> FileSound(left, Len(left), decided)
  BY <1>1 DEF FilesSound
<1> HIDE DEF left
<1>5. FileSound(left, Len(left), decided) /\ Finds(left).base = Finds(file).base
  BY <1>1, <1>2, LeftSound
<1>6. FilesSound' /\ Found'.base = Found.base
  BY <1>3, <1>4, <1>5
<1>7. MemorySound' /\ FileIsMemory' /\ SnapshotsSound'
  BY <1>1, <1>6, DieForgets
<1> QED BY <1>6, <1>7 DEF Inv

\* A kill leaves the file as it is.
LEMMA KillKeeps ==
  ASSUME Inv, Kill
  PROVE  Inv'
<1>1. /\ FilesSound /\ decided \in Seq(1..MaxTerm) /\ Die /\ pc' = "down"
      /\ decided' = decided /\ file' = file /\ synced' = synced
  BY DEF Inv, MemorySound, Kill, Die
<1>2. Grows(decided, decided')
  BY <1>1, GrowsItself
<1>3. FilesSound' /\ Found' = Found
  BY <1>1, <1>2, FilesStay
<1>4. MemorySound' /\ FileIsMemory' /\ SnapshotsSound'
  BY <1>1, <1>3, DieForgets
<1> QED BY <1>3, <1>4 DEF Inv

\* The whole log that a sound recovery brings back.
LEMMA RecoveredParts ==
  ASSUME NEW r, NEW lg \in Seq(1..MaxTerm), NEW saved, Sound(r, lg), SavedSound(saved, lg),
         r.base # 0 => r.base \in DOMAIN saved
  PROVE  /\ RecoveredLog(r, saved) \in Seq(1..MaxTerm)
         /\ Len(RecoveredLog(r, saved)) = LastRecovered(r)
         /\ \A i \in 1..r.base : RecoveredLog(r, saved)[i] = lg[i]
         /\ \A i \in 1..Len(r.entries) : RecoveredLog(r, saved)[r.base + i] = r.entries[i]
         /\ \A i \in 1..r.commit : RecoveredLog(r, saved)[i] = lg[i]
<1> DEFINE old == IF r.base \in DOMAIN saved THEN saved[r.base] ELSE <<>>
           all == RecoveredLog(r, saved)
<1>1. /\ r.base \in Nat /\ r.commit \in Nat /\ r.entries \in Seq(1..MaxTerm)
      /\ Len(r.entries) \in Nat /\ Len(lg) \in Nat
  BY LenProperties DEF Sound, Recovery
<1>2. r.base <= r.commit /\ r.commit <= r.base + Len(r.entries) /\ r.commit <= Len(lg)
  BY DEF Sound, LastRecovered
<1>3. old \in Seq(1..MaxTerm) /\ Len(old) = r.base /\ \A i \in 1..r.base : old[i] = lg[i]
  <2>1. CASE r.base = 0
    <3>1. r.base \notin DOMAIN saved
      BY <2>1 DEF SavedSound
    <3>2. old = <<>>
      BY <3>1
    <3> HIDE DEF old
    <3>3. old \in Seq(1..MaxTerm) /\ Len(old) = 0
      BY <3>2
    <3> QED BY <2>1, <3>3
  <2>2. CASE r.base # 0
    <3>1. old = SubSeq(lg, 1, r.base)
      BY <2>2 DEF SavedSound
    <3>2. r.base \in 0..Len(lg)
      BY <1>1, <1>2
    <3> HIDE DEF old
    <3> QED BY <3>1, <3>2, Beginning
  <2> QED BY <2>1, <2>2
<1>4. all = old \o r.entries
  BY DEF RecoveredLog
<1> HIDE DEF old, all
<1>5. /\ all \in Seq(1..MaxTerm) /\ Len(all) = Len(old) + Len(r.entries)
      /\ \A i \in 1..(Len(old) + Len(r.entries)) :
            all[i] = IF i <= Len(old) THEN old[i] ELSE r.entries[i - Len(old)]
  BY <1>1, <1>3, <1>4, ConcatProperties
<1>6. /\ Len(all) = r.base + Len(r.entries)
      /\ \A i \in 1..(r.base + Len(r.entries)) :
            all[i] = IF i <= r.base THEN old[i] ELSE r.entries[i - r.base]
  BY <1>3, <1>5
<1>7. \A i \in 1..r.base : all[i] = lg[i]
  <2> TAKE i \in 1..r.base
  <2>1. i \in 1..(r.base + Len(r.entries)) /\ i <= r.base
    BY <1>1
  <2> QED BY <1>3, <1>6, <2>1
<1>8. \A i \in 1..Len(r.entries) : all[r.base + i] = r.entries[i]
  <2> TAKE i \in 1..Len(r.entries)
  <2>1. r.base + i \in 1..(r.base + Len(r.entries)) /\ ~ (r.base + i <= r.base)
        /\ (r.base + i) - r.base = i
    BY <1>1
  <2> QED BY <1>6, <2>1
<1>9. ASSUME NEW i \in 1..r.commit PROVE all[i] = lg[i]
  <2>1. CASE i <= r.base
    <3>1. i \in 1..r.base
      BY <1>1, <2>1
    <3> QED BY <1>7, <3>1
  <2>2. CASE ~ (i <= r.base)
    <3> DEFINE k == i - r.base
    <3>1. k \in 1..Len(r.entries) /\ r.base + k = i /\ i <= r.commit
      BY <1>1, <1>2, <2>2
    <3> HIDE DEF k
    <3>2. r.base + k <= r.commit => r.entries[k] = lg[r.base + k]
      BY <3>1 DEF Sound
    <3> QED BY <1>8, <3>1, <3>2
  <2> QED BY <2>1, <2>2
<1> QED BY <1>5, <1>6, <1>7, <1>8, <1>9 DEF LastRecovered, all

\* A restart takes its memory from the file and drops the torn line.
LEMMA RestartKeeps ==
  ASSUME Inv, Restart
  PROVE  Inv'
<1> DEFINE r == ReadWal(file)
           fixed == file'
<1>1. /\ FileSound(file, synced, decided) /\ SnapshotsSound /\ MemorySound
      /\ pc = "down" /\ pc' = "idle" /\ decided' = decided /\ snapshots' = snapshots
      /\ fixed = Repaired(file)
      /\ synced' = IF synced < Len(fixed) THEN synced ELSE Len(fixed)
      /\ term' = r.term /\ voted_for' = r.voted_for
      /\ base' = r.base /\ base_term' = r.base_term /\ log' = r.entries
      /\ commit_index' = CommitOnRestart(r)
      /\ store' = SubSeq(RecoveredLog(r, snapshots), 1, commit_index')
      /\ persisted_vote' = <<r.term, r.voted_for>>
      /\ persisted_commit' = commit_index' /\ snapshot_index' = r.base
  BY DEF Inv, FilesSound, Restart, history
<1>2. r = Found /\ Sound(r, decided)
  BY <1>1, ReadsWhatItFinds DEF Found
<1> HIDE DEF r
<1>3. /\ r \in Recovery /\ r.base \in Nat /\ r.commit \in Nat /\ r.entries \in Seq(1..MaxTerm)
      /\ Len(r.entries) \in Nat /\ r.term \in 0..MaxTerm /\ r.voted_for \in Voter \cup {Nil}
      /\ r.base_term \in Nat /\ r.term \in Nat
  BY <1>2, LenProperties, BoundAssumption DEF Sound, Recovery
<1>4. /\ r.base <= r.commit /\ r.commit <= r.base + Len(r.entries) /\ r.commit <= Len(decided)
  BY <1>2 DEF Sound, LastRecovered
<1>5. commit_index' = r.commit
  BY <1>1, <1>3, <1>4 DEF CommitOnRestart, MinOf, LastRecovered
<1>6. decided \in Seq(1..MaxTerm) /\ Len(decided) \in Nat
  BY <1>1, LenProperties DEF MemorySound
<1>7. FileSound(fixed, synced', decided) /\ AllWhole(fixed) /\ Finds(fixed) = Finds(file)
  <2> HIDE DEF fixed
  <2> QED BY <1>1, <1>6, RepairedSound
<1>8. FilesSound' /\ Found' = r
  BY <1>1, <1>2, <1>7 DEF FilesSound, Found
<1>9. SavedSound(snapshots, decided) /\ (r.base # 0 => r.base \in DOMAIN snapshots)
  BY <1>1, <1>2 DEF SnapshotsSound
<1>10. SnapshotsSound'
  BY <1>1, <1>2, <1>8 DEF SnapshotsSound
<1>11. store' \in Seq(1..MaxTerm) /\ Len(store') = r.commit
       /\ store' = SubSeq(decided, 1, Len(store'))
  <2> DEFINE all == RecoveredLog(r, snapshots)
             a == SubSeq(all, 1, r.commit)
             b == SubSeq(decided, 1, r.commit)
  <2>1. /\ all \in Seq(1..MaxTerm) /\ Len(all) = LastRecovered(r)
        /\ \A i \in 1..r.commit : all[i] = decided[i]
    BY <1>2, <1>6, <1>9, RecoveredParts
  <2>2. store' = a
    BY <1>1, <1>5
  <2> HIDE DEF all
  <2>3. r.commit \in 0..Len(all) /\ r.commit \in 0..Len(decided)
    BY <1>3, <1>4, <1>6, <2>1 DEF LastRecovered
  <2>4. a \in Seq(1..MaxTerm) /\ Len(a) = r.commit /\ \A i \in 1..r.commit : a[i] = all[i]
    BY <2>1, <2>3, Beginning
  <2>5. b \in Seq(1..MaxTerm) /\ Len(b) = r.commit /\ \A i \in 1..r.commit : b[i] = decided[i]
    BY <1>6, <2>3, Beginning
  <2> HIDE DEF a, b
  <2>6. a = b
    BY <2>1, <2>4, <2>5, SameSequence
  <2> QED BY <2>2, <2>4, <2>6 DEF b
<1>12. MemorySound'
  <2>1. \A i \in 1..Len(r.entries) :
           r.entries[i] <= r.term /\ (r.base + i <= r.commit => r.entries[i] = decided[r.base + i])
    BY <1>2 DEF Sound
  <2>2. r.base <= r.base /\ r.base <= Len(store') /\ Len(store') <= r.commit
    BY <1>3, <1>4, <1>11
  <2> QED BY <1>1, <1>3, <1>4, <1>5, <1>6, <1>11, <2>1, <2>2 DEF MemorySound, last_index
<1>13. FileIsMemory'
  <2>1. r.entries = SubSeq(r.entries, r.base - r.base + 1, Len(r.entries))
    <3>1. r.base - r.base + 1 = 1
      BY <1>3
    <3>2. SubSeq(r.entries, 1, Len(r.entries)) = r.entries
      BY <1>3, SubSeqFull
    <3> QED BY <3>1, <3>2
  <2>2. persisted_vote'[1] = r.term /\ persisted_vote'[2] = r.voted_for
        /\ r.term <= r.term /\ r.commit <= r.commit
    BY <1>1, <1>3
  <2> QED BY <1>1, <1>3, <1>5, <1>8, <2>1, <2>2 DEF FileIsMemory
<1> QED BY <1>8, <1>10, <1>12, <1>13 DEF Inv-----------------------------------------------------------------------------
(***************************************************************************)
(* The invariant, and what follows from it.                                *)
(***************************************************************************)
\* A fresh file brings back a fresh node.
LEMMA InitInv ==
  ASSUME Init
  PROVE  Inv
<1>1. /\ file = Lines(<<HeaderRecord>>) /\ synced = 0 /\ pc = "idle"
      /\ snapshots = [i \in {} |-> <<>>]
      /\ term = 0 /\ voted_for = Nil /\ log = <<>> /\ commit_index = 0
      /\ base = 0 /\ base_term = 0 /\ store = <<>>
      /\ persisted_vote = <<0, Nil>> /\ persisted_commit = 0 /\ snapshot_index = 0
      /\ decided = <<>>
  BY DEF Init
<1>2. /\ file \in Seq(FileLine) /\ Len(file) = 1 /\ AllWhole(file)
      /\ Until(file, 0) = NothingRecovered /\ Until(file, 1) = NothingRecovered
      /\ ValidPrefix(file) = 1 /\ Finds(file) = NothingRecovered
  BY <1>1, HeaderAlone
<1>3. <<>> \in Seq(1..MaxTerm) /\ Len(<<>>) = 0
  OBVIOUS
<1>4. Sound(NothingRecovered, decided)
  BY <1>1, <1>3, NothingSound
<1>5. FileSound(file, synced, decided)
  <2>1. \A n \in 1..Len(file) : file[n].form = "whole"
    BY <1>2 DEF AllWhole
  <2>2. ASSUME NEW n \in 0..1 PROVE Until(file, n) = NothingRecovered
    <3>1. n = 0 \/ n = 1
      OBVIOUS
    <3> QED BY <1>2, <3>1
  <2>3. synced \in 0..Len(file)
    BY <1>1, <1>2
  <2> QED BY <1>2, <1>4, <2>1, <2>2, <2>3 DEF FileSound
<1>6. FilesSound
  BY <1>2, <1>5 DEF FilesSound
<1>7. /\ Found.base = 0 /\ Found.entries = <<>> /\ Found.commit = 0
      /\ Found.voted_for = Nil /\ Found.term = 0
  BY <1>2 DEF Found, NothingRecovered
<1>8. SnapshotsSound
  <2>1. DOMAIN snapshots = {}
    BY <1>1
  <2>2. Above(snapshots, Found.base) = {}
    BY <2>1 DEF Above
  <2>3. Cardinality(Above(snapshots, Found.base)) <= MaxOrphans
    BY <2>2, FS_EmptySet, BoundAssumption
  <2>4. SavedSound(snapshots, decided)
    BY <2>1, FS_EmptySet DEF SavedSound
  <2> QED BY <1>1, <1>7, <2>3, <2>4 DEF SnapshotsSound
<1>9. MemorySound
  <2>1. last_index = 0
    BY <1>1, <1>3 DEF last_index
  <2>2. store = SubSeq(decided, 1, Len(store))
    BY <1>1, <1>3, SubSeqEmpty
  <2>3. Nil \in Voter \cup {Nil} /\ 0 \in 0..MaxTerm
    BY BoundAssumption
  <2> QED BY <1>1, <1>3, <2>1, <2>2, <2>3 DEF MemorySound
<1>10. FileIsMemory
  <2>1. Found.entries = SubSeq(log, snapshot_index - base + 1, Len(log))
    BY <1>1, <1>3, <1>7, SubSeqEmpty
  <2>2. persisted_vote[1] = 0 /\ persisted_vote[2] = Nil
    BY <1>1
  <2> QED BY <1>1, <1>7, <2>1, <2>2 DEF FileIsMemory
<1> QED BY <1>6, <1>8, <1>9, <1>10 DEF Inv

\* The invariant reads nothing but the variables.
LEMMA NothingChanges ==
  ASSUME Inv, UNCHANGED vars
  PROVE  Inv'
<1>1. /\ UNCHANGED <<file, synced, snapshots, term, voted_for, log, commit_index, base, base_term>>
      /\ UNCHANGED <<store, persisted_vote, persisted_commit, snapshot_index, pc, decided>>
  BY DEF vars, diskVars, memVars, watchVars, history
<1>2. FilesSound' /\ Found' = Found
  BY <1>1 DEF Inv, FilesSound, Found
<1>3. SnapshotsSound'
  <2>1. last_applied' = last_applied
    BY <1>1 DEF last_applied
  <2>2. /\ SavedSound(snapshots, decided)' = SavedSound(snapshots, decided)
        /\ Above(snapshots, last_applied)' = Above(snapshots, last_applied)
        /\ Above(snapshots, Found.base)' = Above(snapshots, Found.base)
    BY <1>1, <1>2, <2>1 DEF SavedSound, Above
  <2>3. snapshots' = snapshots /\ pc' = pc /\ snapshot_index' = snapshot_index
    BY <1>1
  <2> QED BY <1>2, <2>1, <2>2, <2>3 DEF Inv, SnapshotsSound
<1>4. MemorySound'
  BY <1>1 DEF Inv, MemorySound, last_index
<1>5. FileIsMemory'
  BY <1>1, <1>2 DEF Inv, FileIsMemory
<1> QED BY <1>2, <1>3, <1>4, <1>5 DEF Inv

\* Every step of the node, of a crash and of a restart keeps the invariant.
LEMMA NextKeeps ==
  ASSUME TornForms \subseteq {"torn"}, MaxOrphans < Keep, Inv, [Next]_vars
  PROVE  Inv'
<1>1. CASE \E v \in Voter \cup {Nil} : EnterTerm(v)
  BY <1>1, EnterTermKeeps
<1>2. CASE \E v \in Voter : CastVote(v)
  BY <1>2, CastVoteKeeps
<1>3. CASE \E t \in 1..MaxTerm : AppendEntry(t)
  BY <1>3, AppendEntryKeeps
<1>4. CASE \E i \in 1..MaxIndex : TruncateFrom(i) \/ AdvanceCommit(i)
  <2>1. PICK i \in 1..MaxIndex : TruncateFrom(i) \/ AdvanceCommit(i)
    BY <1>4
  <2>2. i \in Nat
    OBVIOUS
  <2> QED BY <2>1, <2>2, TruncateFromKeeps, AdvanceCommitKeeps
<1>5. CASE ApplyCommitted
  BY <1>5, ApplyCommittedKeeps
<1>6. CASE PersistVote \/ PersistCommit \/ SyncAndSend
  BY <1>6, PersistVoteKeeps, PersistCommitKeeps, SyncAndSendKeeps
<1>7. CASE SaveSnapshot \/ Compact \/ Prune
  BY <1>7, SaveSnapshotKeeps, CompactKeeps, PruneKeeps
<1>8. CASE PowerLoss \/ Kill
  BY <1>8, PowerLossKeeps, KillKeeps
<1>9. CASE Restart
  BY <1>9, RestartKeeps
<1>10. CASE UNCHANGED vars
  BY <1>10, NothingChanges
<1> QED BY <1>1, <1>2, <1>3, <1>4, <1>5, <1>6, <1>7, <1>8, <1>9, <1>10 DEF Next
\* A node that is down finds in its file what it can start from.
LEMMA DownIsRecoverable ==
  ASSUME Inv
  PROVE  AlwaysRecoverable
<1>1. ReadWal(file) = Found /\ Sound(Found, decided)
  BY ReadsWhatItFinds DEF Inv, FilesSound, Found
<1>2. Found.base # 0 => Found.base \in DOMAIN snapshots
  BY DEF Inv, SnapshotsSound
<1> QED BY <1>1, <1>2 DEF AlwaysRecoverable, Recoverable, Sound

\* The state machine is what was decided, as far as it has been applied.
LEMMA StoreBegins ==
  ASSUME MemorySound
  PROVE  StoreIsDecided
<1>1. /\ store \in Seq(1..MaxTerm) /\ decided \in Seq(1..MaxTerm)
      /\ store = SubSeq(decided, 1, Len(store))
  BY DEF MemorySound
<1>2. /\ Len(store) <= Len(decided)
  <2>1. Len(store) \in Nat /\ Len(decided) \in Nat /\ Len(log) \in Nat
    BY <1>1, LenProperties DEF MemorySound
  <2> QED BY <2>1 DEF MemorySound
<1>3. SubSeq(store, 1, Len(store)) = store
  BY <1>1, SubSeqFull
<1> QED BY <1>1, <1>2, <1>3 DEF StoreIsDecided, IsPrefix

\* The file of a running node, and the snapshot it refers to, hold its log.
LEMMA RunningHoldsLog ==
  ASSUME Inv
  PROVE  FileHoldsLog
<1> SUFFICES ASSUME pc # "down"
             PROVE  Recovered(file, Len(file), snapshots).log = WholeLog
  BY DEF FileHoldsLog
<1> DEFINE all == RecoveredLog(Found, snapshots)
           skip == snapshot_index - base
<1>1. /\ FileSound(file, synced, decided) /\ MemorySound /\ SavedSound(snapshots, decided)
      /\ Found.base # 0 => Found.base \in DOMAIN snapshots
  BY DEF Inv, FilesSound, SnapshotsSound
<1>2. /\ Sound(Found, decided) /\ Found.base = snapshot_index
      /\ skip \in 0..Len(log) /\ skip \in Nat /\ LastRecovered(Found) = last_index
      /\ \A k \in 1..Len(Found.entries) : Found.entries[k] = log[skip + k]
  BY FoundReaches
<1>3. /\ all \in Seq(1..MaxTerm) /\ Len(all) = last_index
      /\ \A i \in 1..snapshot_index : all[i] = decided[i]
      /\ \A k \in 1..Len(Found.entries) : all[snapshot_index + k] = Found.entries[k]
  <2>1. decided \in Seq(1..MaxTerm)
    BY <1>1 DEF MemorySound
  <2> QED BY <1>1, <1>2, <2>1, RecoveredParts
<1>4. /\ WholeLog \in Seq(1..MaxTerm) /\ Len(WholeLog) = last_index
      /\ \A i \in 1..Len(log) : WholeLog[base + i] = log[i]
      /\ \A i \in 1..commit_index : WholeLog[i] = decided[i]
  BY <1>1, WholeLogParts
<1>5. /\ base \in Nat /\ snapshot_index \in Nat /\ commit_index \in Nat /\ Len(log) \in Nat
      /\ snapshot_index <= commit_index /\ last_index = base + Len(log)
      /\ Len(store) \in Nat
  BY <1>1, LenProperties DEF MemorySound, last_index
<1>6. Len(Found.entries) \in Nat /\ snapshot_index + Len(Found.entries) = last_index
  BY <1>2, LenProperties DEF LastRecovered, Sound, Recovery
<1> HIDE DEF all
<1>7. ASSUME NEW i \in 1..last_index PROVE all[i] = WholeLog[i]
  <2>1. CASE i <= snapshot_index
    <3>1. i \in 1..snapshot_index /\ i \in 1..commit_index
      BY <1>5, <2>1
    <3> QED BY <1>3, <1>4, <3>1
  <2>2. CASE ~ (i <= snapshot_index)
    <3> DEFINE k == i - snapshot_index
    <3>1. k \in 1..Len(Found.entries) /\ snapshot_index + k = i
      BY <1>5, <1>6, <2>2
    <3>2. skip + k \in 1..Len(log) /\ base + (skip + k) = i
      <4>1. skip + k = i - base /\ i \in Int /\ i <= last_index /\ i > snapshot_index
        BY <1>5, <1>6, <2>2
      <4>2. snapshot_index >= base
        BY <1>2, <1>5
      <4> QED BY <1>5, <4>1, <4>2
    <3> HIDE DEF k
    <3>3. all[i] = log[skip + k]
      BY <1>2, <1>3, <3>1
    <3> HIDE DEF skip
    <3>4. WholeLog[base + (skip + k)] = log[skip + k]
      BY <1>4, <3>2
    <3> QED BY <3>2, <3>3, <3>4
  <2> QED BY <2>1, <2>2
<1>8. all = WholeLog
  <2> HIDE DEF skip
  <2> QED BY <1>3, <1>4, <1>7, SameSequence
<1>9. Recovered(file, Len(file), snapshots).log = all
  <2>1. SubSeq(file, 1, Len(file)) = file
    BY <1>1, SubSeqFull DEF FileSound
  <2>2. ReadWal(SubSeq(file, 1, Len(file))) = Found
    BY <1>1, <2>1, ReadsWhatItFinds DEF Found
  <2> QED BY <2>2 DEF Recovered, all
<1> QED BY <1>8, <1>9

\* What is in memory is in its ranges.
LEMMA InRange ==
  ASSUME Inv
  PROVE  TypeOK
<1>1. Len(log) \in Nat /\ Len(store) \in Nat
  BY LenProperties DEF Inv, MemorySound
<1>2. synced \in 0..Len(file)
  BY DEF Inv, FilesSound, FileSound
<1>3. base <= last_applied /\ last_applied <= commit_index /\ commit_index <= last_index
  BY <1>1 DEF Inv, MemorySound, last_applied
<1> QED BY <1>2, <1>3 DEF Inv, MemorySound, TypeOK

\* The three together.
LEMMA InvRestartIsSound ==
  ASSUME Inv
  PROVE  RestartIsSound
<1>1. FileHoldsLog
  BY RunningHoldsLog
<1>2. StoreIsDecided
  BY StoreBegins DEF Inv
<1>3. TypeOK
  BY InRange
<1> QED BY <1>1, <1>2, <1>3 DEF RestartIsSound

\* The invariant holds however the node is stopped, as long as a write that is
\* cut short is cut inside its record, and fewer snapshots are left behind than
\* are kept.
THEOREM InvAlways ==
  ASSUME TornForms \subseteq {"torn"}, MaxOrphans < Keep
  PROVE  Spec => []Inv
<1>1. Init => Inv
  BY InitInv
<1>2. Inv /\ [Next]_vars => Inv'
  BY NextKeeps
<1> QED BY <1>1, <1>2, PTL DEF Spec

\* _restore always succeeds: read_wal finds a log in the file, whatever the
\* crashes and wherever they came, and the snapshot it refers to is there.
THEOREM AlwaysRecovers ==
  ASSUME TornForms \subseteq {"torn"}, MaxOrphans < Keep
  PROVE  Spec => []AlwaysRecoverable
<1>1. Inv => AlwaysRecoverable
  BY DownIsRecoverable
<1> QED BY <1>1, InvAlways, PTL

\* And what it restores is what the node had: the file of a running node and its
\* snapshot hold the log in memory, and the state machine is rebuilt from
\* committed entries only, in order.
THEOREM RestartsSoundly ==
  ASSUME TornForms \subseteq {"torn"}, MaxOrphans < Keep
  PROVE  Spec => []RestartIsSound
<1>1. Inv => RestartIsSound
  BY InvRestartIsSound
<1> QED BY <1>1, InvAlways, PTL

-----------------------------------------------------------------------------
(***************************************************************************)
(* The write-ahead log implements stable storage, when the machine may     *)
(* lose power but no process is killed alone.                              *)
(***************************************************************************)
\* What a crash cannot take, and what each line behind it brings.
Disk == Recovered(file, synced, snapshots)
Pending == Unsynced(file, synced, snapshots)

Storage == INSTANCE StableStorage WITH Vote <- Voter, disk <- Disk, pending <- Pending

\* The state that a recovery comes to.
Brought(r, saved) ==
    [term |-> r.term, voted_for |-> r.voted_for, log |-> RecoveredLog(r, saved),
     commit |-> r.commit]

\* The term t and the vote v do not take back what u tells.
Keeps(u, t, v) == u.term <= t /\ (u.term = t /\ u.voted_for # Nil => v = u.voted_for)

\* Whatever a crash leaves of the lines keeps what u tells.
LinesKeep(u, lines, from) ==
    \A n \in 0..ValidPrefix(lines) :
        from <= n \/ n = ValidPrefix(lines) =>
            Keeps(u, Until(lines, n).term, Until(lines, n).voted_for)

\* What is told is kept in memory and on disk; a process that has written nothing
\* has nothing to sync; and _persist has recorded what it says.
PowerInv ==
    /\ ~ dirty => synced = Len(file)
    /\ pc = "down" => ~ dirty
    /\ pc \in {"vote_recorded", "commit_recorded"} => persisted_vote = <<term, voted_for>>
    /\ pc = "commit_recorded" => persisted_commit = commit_index
    /\ told.term \in Nat
    /\ LinesKeep(told, file, synced)
    /\ pc # "down" => Keeps(told, term, voted_for)

\* No record but one of a vote changes the vote, and none takes the term back.
LEMMA SameVote ==
  ASSUME NEW r \in Recovery, NEW i \in Nat, NEW rec,
         \/ \E t \in 1..MaxTerm : rec = EntryRecord(i, t)
         \/ rec = TruncateRecord(i) \/ rec = CommitRecord(i)
  PROVE  /\ rec \in LogRecord /\ Replay(r, rec).voted_for = r.voted_for
         /\ Replay(r, rec).term \in Nat /\ r.term \in Nat /\ r.term <= Replay(r, rec).term
<1>1. r.term \in 0..MaxTerm /\ r.term \in Nat
  BY BoundAssumption DEF Recovery
<1>2. CASE \E t \in 1..MaxTerm : rec = EntryRecord(i, t)
  <2> PICK t \in 1..MaxTerm : rec = EntryRecord(i, t)
    BY <1>2
  <2>1. rec \in LogRecord /\ rec.kind = "entry" /\ rec.term = t
    BY DEF EntryRecord, LogRecord
  <2>2. Replay(r, rec) = ReplayEntry(r, rec)
    BY <2>1 DEF Replay
  <2>3. Replay(r, rec).voted_for = r.voted_for /\ Replay(r, rec).term = MaxOf(r.term, t)
    BY <2>1, <2>2 DEF ReplayEntry, Recovery
  <2>4. MaxOf(r.term, t) \in Nat /\ r.term <= MaxOf(r.term, t)
    BY <1>1 DEF MaxOf
  <2> QED BY <1>1, <2>1, <2>3, <2>4
<1>3. CASE rec = TruncateRecord(i)
  <2>1. rec \in LogRecord /\ rec.kind = "truncate"
    BY <1>3 DEF TruncateRecord, LogRecord
  <2>2. Replay(r, rec) = ReplayTruncate(r, rec)
    BY <2>1 DEF Replay
  <2>3. Replay(r, rec).voted_for = r.voted_for /\ Replay(r, rec).term = r.term
    BY <2>2 DEF ReplayTruncate, Recovery
  <2> QED BY <1>1, <2>1, <2>3
<1>4. CASE rec = CommitRecord(i)
  <2>1. rec \in LogRecord /\ rec.kind = "commit"
    BY <1>4 DEF CommitRecord, LogRecord
  <2>2. Replay(r, rec) = ReplayCommit(r, rec)
    BY <2>1 DEF Replay
  <2>3. Replay(r, rec).voted_for = r.voted_for /\ Replay(r, rec).term = r.term
    BY <2>2 DEF ReplayCommit, Recovery
  <2> QED BY <1>1, <2>1, <2>3
<1> QED BY <1>2, <1>3, <1>4

\* All the lines that verify keep what is told, if any are to.
LEMMA FoundKeeps ==
  ASSUME NEW lines, NEW from, NEW lg, FileSound(lines, from, lg),
         NEW u, LinesKeep(u, lines, from)
  PROVE  Keeps(u, Finds(lines).term, Finds(lines).voted_for)
<1>1. ValidPrefix(lines) \in 0..ValidPrefix(lines)
  BY ValidLines
<1> QED BY <1>1 DEF LinesKeep, Finds

\* When all lines are synced nothing else needs to.
LEMMA SyncedKeep ==
  ASSUME NEW lines, NEW from, NEW lg, FileSound(lines, from, lg),
         NEW u, Keeps(u, Finds(lines).term, Finds(lines).voted_for)
  PROVE  LinesKeep(u, lines, Len(lines))
<1>1. ValidPrefix(lines) \in 0..Len(lines) /\ Len(lines) \in Nat
  BY ValidLines
<1>2. ASSUME NEW n \in 0..ValidPrefix(lines), Len(lines) <= n \/ n = ValidPrefix(lines)
      PROVE  Keeps(u, Until(lines, n).term, Until(lines, n).voted_for)
  <2>1. n = ValidPrefix(lines)
    BY <1>1, <1>2
  <2> QED BY <2>1 DEF Finds
<1> QED BY <1>2 DEF LinesKeep

\* One more line.
LEMMA MoreKeep ==
  ASSUME NEW lines, NEW from, NEW lg, FileSound(lines, from, lg), AllWhole(lines),
         NEW rec \in LogRecord, NEW more, more = AppendLine(lines, rec),
         NEW u, LinesKeep(u, lines, from),
         Keeps(u, Finds(more).term, Finds(more).voted_for)
  PROVE  LinesKeep(u, more, from)
<1> DEFINE m == Len(lines)
<1>1. /\ ValidPrefix(lines) = m /\ ValidPrefix(more) = m + 1
      /\ \A k \in 0..m : Until(more, k) = Until(lines, k)
  BY RecordAdds
<1>2. m \in Nat
  BY ValidLines
<1> HIDE DEF m
<1>3. ASSUME NEW n \in 0..(m + 1), from <= n \/ n = m + 1
      PROVE  Keeps(u, Until(more, n).term, Until(more, n).voted_for)
  <2>1. CASE n = m + 1
    BY <1>1, <2>1 DEF Finds
  <2>2. CASE n # m + 1
    <3>1. n \in 0..m /\ from <= n
      BY <1>2, <1>3, <2>2
    <3>2. Keeps(u, Until(lines, n).term, Until(lines, n).voted_for)
      BY <1>1, <3>1 DEF LinesKeep
    <3> QED BY <1>1, <3>1, <3>2
  <2> QED BY <2>1, <2>2
<1> QED BY <1>1, <1>3 DEF LinesKeep

\* What a recovery leaves of a file that was synced.
LEMMA RepairedKeep ==
  ASSUME NEW lines, NEW lg \in Seq(1..MaxTerm), FileSound(lines, Len(lines), lg),
         NEW fixed, fixed = Repaired(lines),
         NEW s, s = IF Len(lines) < Len(fixed) THEN Len(lines) ELSE Len(fixed),
         NEW u, LinesKeep(u, lines, Len(lines))
  PROVE  LinesKeep(u, fixed, s)
<1>1. /\ FileSound(fixed, s, lg) /\ AllWhole(fixed) /\ Finds(fixed) = Finds(lines)
      /\ ValidPrefix(lines) = 0 => fixed = Lines(<<HeaderRecord>>)
      /\ ValidPrefix(lines) # 0 => fixed = SubSeq(lines, 1, ValidPrefix(lines))
  BY RepairedSound
<1>2. Keeps(u, Finds(fixed).term, Finds(fixed).voted_for)
  BY <1>1, FoundKeeps
<1>3. lines \in Seq(FileLine) /\ Len(lines) \in Nat /\ ValidPrefix(lines) \in 0..Len(lines)
  BY ValidLines
<1>4. CASE ValidPrefix(lines) = 0
  <2>1. /\ Until(fixed, 0) = Finds(fixed) /\ Until(fixed, 1) = Finds(fixed)
        /\ ValidPrefix(fixed) = 1
    BY <1>1, <1>4, HeaderAlone
  <2>2. ASSUME NEW n \in 0..1 PROVE Until(fixed, n) = Finds(fixed)
    <3>1. n = 0 \/ n = 1
      OBVIOUS
    <3> QED BY <2>1, <3>1
  <2> QED BY <1>2, <2>1, <2>2 DEF LinesKeep
<1>5. CASE ValidPrefix(lines) # 0
  <2>1. Len(fixed) = ValidPrefix(lines)
    BY <1>1, <1>3, <1>5, Beginning
  <2>2. s = Len(fixed)
    BY <1>3, <2>1
  <2> QED BY <1>1, <1>2, <2>2, SyncedKeep
<1> QED BY <1>4, <1>5

\* Steps that do not touch the file.
LEMMA QuietPower ==
  ASSUME PowerInv, pc # "down", UNCHANGED <<file, synced, dirty, told>>,
         pc' \in {"idle", "saved", "compacted"}, Keeps(told, term', voted_for')
  PROVE  PowerInv'
BY DEF PowerInv

\* Steps that add a line which keeps what is told.
LEMMA RecordPower ==
  ASSUME Inv, Inv', PowerInv, pc # "down", pc' # "down", NEW rec \in LogRecord, Record(rec),
         Keeps(told, Found'.term, Found'.voted_for)
  PROVE  /\ LinesKeep(told, file', synced') /\ dirty'
         /\ \A k \in 0..Len(file) : SubSeq(file', 1, k) = SubSeq(file, 1, k)
         /\ Len(file') = Len(file) + 1 /\ Found' = Replay(Found, rec)
<1> DEFINE more == file'
<1>1. FileSound(file, synced, decided) /\ AllWhole(file) /\ LinesKeep(told, file, synced)
  BY DEF Inv, FilesSound, PowerInv
<1>2. more = AppendLine(file, rec) /\ synced' = synced /\ dirty'
  BY DEF Record
<1>3. Found' = Finds(more) /\ Found = Finds(file)
  BY DEF Found
<1> HIDE DEF more
<1>4. /\ Len(more) = Len(file) + 1 /\ Finds(more) = Replay(Finds(file), rec)
      /\ \A k \in 0..Len(file) : SubSeq(more, 1, k) = SubSeq(file, 1, k)
  BY <1>1, <1>2, RecordAdds
<1>5. Keeps(told, Finds(more).term, Finds(more).voted_for)
  BY <1>3
<1>6. LinesKeep(told, more, synced)
  BY <1>1, <1>2, <1>5, MoreKeep
<1> QED BY <1>2, <1>3, <1>4, <1>6 DEF more

\* The node's file keeps what is told; and a record that is not of a vote goes
\* on doing so.
LEMMA RecordKeepsVote ==
  ASSUME Inv, PowerInv, pc # "down", NEW i \in Nat, NEW rec,
         \/ \E t \in 1..MaxTerm : rec = EntryRecord(i, t)
         \/ rec = TruncateRecord(i) \/ rec = CommitRecord(i),
         Record(rec)
  PROVE  /\ rec \in LogRecord /\ Found'.term \in Nat /\ Found.term <= Found'.term
         /\ Keeps(told, Found'.term, Found'.voted_for)
<1> DEFINE more == file'
<1>1. FileSound(file, synced, decided) /\ AllWhole(file) /\ LinesKeep(told, file, synced)
  BY DEF Inv, FilesSound, PowerInv
<1>2. Found \in Recovery
  BY FoundReaches DEF Sound
<1>3. /\ rec \in LogRecord /\ Replay(Found, rec).voted_for = Found.voted_for
      /\ Replay(Found, rec).term \in Nat /\ Found.term \in Nat
      /\ Found.term <= Replay(Found, rec).term
  BY <1>2, SameVote
<1>4. more = AppendLine(file, rec)
  BY DEF Record
<1>5. Found' = Finds(more) /\ Found = Finds(file)
  BY DEF Found
<1> HIDE DEF more
<1>6. Finds(more) = Replay(Finds(file), rec)
  BY <1>1, <1>3, <1>4, RecordAdds
<1>7. Found' = Replay(Found, rec)
  BY <1>5, <1>6
<1>8. Keeps(told, Found.term, Found.voted_for)
  BY <1>1, <1>5, FoundKeeps
<1>9. told.term \in Nat
  BY DEF PowerInv
<1>10. Keeps(told, Found'.term, Found'.voted_for)
  BY <1>3, <1>7, <1>8, <1>9 DEF Keeps
<1> QED BY <1>3, <1>7, <1>10

\* When _persist is done the file is the memory, the commit index included.
LEMMA RecordedIsMemory ==
  ASSUME Inv, PowerInv, pc \in {"vote_recorded", "commit_recorded"}
  PROVE  /\ Found.term = term /\ Found.voted_for = voted_for
         /\ pc = "commit_recorded" => Found.commit = commit_index
<1>1. persisted_vote = <<term, voted_for>> /\ pc # "down"
  BY DEF PowerInv
<1>2. persisted_vote[1] = term /\ persisted_vote[2] = voted_for
  BY <1>1
<1>3. Found.term \in Nat /\ term \in Nat
  BY <1>1, FoundReaches, BoundAssumption DEF Sound, Recovery, Inv, MemorySound
<1>4. Found.term = term
  BY <1>1, <1>2, <1>3 DEF Inv, FileIsMemory
<1> QED BY <1>1, <1>2, <1>4 DEF Inv, FileIsMemory, PowerInv

\* A term and vote that have been recorded are what a restart would find.
LEMMA VoteOnDisk ==
  ASSUME Inv, Inv', pc' # "down", term' = term, voted_for' = voted_for,
         persisted_vote' = <<term, voted_for>>
  PROVE  /\ Found'.term = term /\ Found'.voted_for = voted_for
         /\ Found'.commit = persisted_commit'
<1>1. persisted_vote'[1] = term /\ persisted_vote'[2] = voted_for
  OBVIOUS
<1>2. /\ Found'.voted_for = persisted_vote'[2] /\ persisted_vote'[1] <= Found'.term
      /\ Found'.term <= term' /\ Found'.commit = persisted_commit'
  BY DEF Inv, FileIsMemory
<1>3. FileSound(file', synced', decided') /\ Found' = Finds(file')
  BY DEF Inv, FilesSound, Found
<1>4. Sound(Found', decided')
  BY <1>3, ReadsWhatItFinds
<1>5. term \in Nat /\ Found'.term \in Nat
  BY <1>4, BoundAssumption DEF Sound, Recovery, Inv, MemorySound
<1> QED BY <1>1, <1>2, <1>5

\* The term and vote that _persist records are those of memory, which keep what is told.
LEMMA PersistVotePower ==
  ASSUME Inv, Inv', PowerInv, PersistVote
  PROVE  PowerInv'
<1>1. /\ pc = "idle" /\ pc' = "vote_recorded" /\ term' = term /\ voted_for' = voted_for
      /\ told' = told /\ persisted_vote' = <<term, voted_for>>
  BY DEF PersistVote, memVars, history
<1>2. Keeps(told, term, voted_for) /\ told.term \in Nat
  BY <1>1 DEF PowerInv
<1>3. CASE persisted_vote # <<term, voted_for>>
  <2> DEFINE rec == TermRecord(term, voted_for)
  <2>1. Record(rec)
    BY <1>3 DEF PersistVote
  <2>2. rec \in LogRecord
    BY BoundAssumption DEF TermRecord, LogRecord, Inv, MemorySound
  <2>3. Found'.term = term /\ Found'.voted_for = voted_for
    BY <1>1, VoteOnDisk
  <2> HIDE DEF rec
  <2>4. LinesKeep(told, file', synced') /\ dirty'
    BY <1>1, <1>2, <2>1, <2>2, <2>3, RecordPower
  <2> QED BY <1>1, <1>2, <2>4 DEF PowerInv
<1>4. CASE persisted_vote = <<term, voted_for>>
  <2>1. UNCHANGED <<file, synced, dirty>>
    BY <1>4 DEF PersistVote, diskVars
  <2> QED BY <1>1, <1>2, <2>1 DEF PowerInv
<1> QED BY <1>3, <1>4

\* A commit index on disk changes neither term nor vote.
LEMMA PersistCommitPower ==
  ASSUME Inv, Inv', PowerInv, PersistCommit
  PROVE  PowerInv'
<1>1. /\ pc = "vote_recorded" /\ pc' = "commit_recorded" /\ term' = term
      /\ voted_for' = voted_for /\ told' = told /\ persisted_vote' = persisted_vote
      /\ commit_index' = commit_index /\ persisted_commit' = commit_index
  BY DEF PersistCommit, memVars, history
<1>2. Keeps(told, term, voted_for) /\ told.term \in Nat /\ persisted_vote = <<term, voted_for>>
  BY <1>1 DEF PowerInv
<1>3. CASE persisted_commit # commit_index
  <2> DEFINE rec == CommitRecord(commit_index)
  <2>1. Record(rec)
    BY <1>3 DEF PersistCommit
  <2>2. MaxTerm \in Nat /\ commit_index \in Nat
    BY BoundAssumption DEF Inv, MemorySound
  <2>3. rec \in LogRecord
    BY <2>2 DEF CommitRecord, LogRecord
  <2>4. Found'.voted_for = Found.voted_for /\ Found'.term = Found.term
    <3> DEFINE more == file'
    <3>1. FileSound(file, synced, decided) /\ AllWhole(file) /\ more = AppendLine(file, rec)
      BY <1>1, <2>1 DEF Inv, FilesSound, Record
    <3>2. Found' = Finds(more) /\ Found = Finds(file)
      BY DEF Found
    <3> HIDE DEF more, rec
    <3>3. Found' = Replay(Found, rec)
      BY <2>3, <3>1, <3>2, RecordAdds
    <3>4. Found \in Recovery
      BY <1>1, FoundReaches DEF Sound
    <3>5. Replay(Found, rec) = ReplayCommit(Found, rec)
      BY DEF rec, Replay, CommitRecord
    <3> QED BY <3>3, <3>4, <3>5 DEF ReplayCommit, Recovery
  <2>5. Keeps(told, Found'.term, Found'.voted_for)
    BY <1>1, <1>2, <2>4, RecordedIsMemory
  <2> HIDE DEF rec
  <2>6. LinesKeep(told, file', synced') /\ dirty'
    BY <1>1, <2>1, <2>3, <2>5, RecordPower
  <2> QED BY <1>1, <1>2, <2>6 DEF PowerInv
<1>4. CASE persisted_commit = commit_index
  <2>1. UNCHANGED <<file, synced, dirty>>
    BY <1>4 DEF PersistCommit, diskVars
  <2> QED BY <1>1, <1>2, <1>4, <2>1 DEF PowerInv
<1> QED BY <1>3, <1>4

\* What is told is what is on disk.
LEMMA SyncAndSendPower ==
  ASSUME Inv, PowerInv, SyncAndSend
  PROVE  PowerInv' /\ synced' = Len(file)
<1>1. /\ pc = "commit_recorded" /\ pc' = "idle" /\ term' = term /\ voted_for' = voted_for
      /\ told' = InMemory /\ file' = file /\ synced' = SyncedNow /\ dirty' = FALSE
  BY DEF SyncAndSend, memVars
<1>2. synced' = Len(file)
  BY <1>1 DEF SyncedNow, PowerInv
<1>3. told'.term = term /\ told'.voted_for = voted_for
  BY <1>1 DEF InMemory
<1>4. term \in Nat
  BY BoundAssumption DEF Inv, MemorySound
<1>5. Keeps(told', term, voted_for)
  BY <1>3, <1>4 DEF Keeps
<1>6. Keeps(told', Finds(file).term, Finds(file).voted_for)
  BY <1>1, <1>5, RecordedIsMemory DEF Found
<1>7. LinesKeep(told', file, Len(file))
  BY <1>6, SyncedKeep DEF Inv, FilesSound
<1> QED BY <1>1, <1>2, <1>3, <1>4, <1>5, <1>7 DEF PowerInv

\* An entry brings a term that the node has reached, and no vote.
LEMMA AppendEntryPower ==
  ASSUME Inv, Inv', PowerInv, NEW t \in 1..MaxTerm, AppendEntry(t)
  PROVE  PowerInv'
<1> DEFINE i == last_index + 1
           rec == EntryRecord(i, t)
<1>1. /\ pc = "idle" /\ pc' = "idle" /\ term' = term /\ voted_for' = voted_for /\ told' = told
      /\ Record(rec)
  BY DEF AppendEntry, history
<1>2. i \in Nat
  <2>1. base \in Nat /\ Len(log) \in Nat
    BY LenProperties DEF Inv, MemorySound
  <2> QED BY <2>1 DEF last_index
<1>3. rec = EntryRecord(i, t)
  OBVIOUS
<1> HIDE DEF rec, i
<1>4. rec \in LogRecord /\ Keeps(told, Found'.term, Found'.voted_for)
  BY <1>1, <1>2, <1>3, RecordKeepsVote
<1>5. LinesKeep(told, file', synced') /\ dirty'
  BY <1>1, <1>4, RecordPower
<1> QED BY <1>1, <1>5 DEF PowerInv

\* A truncation brings neither a term nor a vote.
LEMMA TruncateFromPower ==
  ASSUME Inv, Inv', PowerInv, NEW i \in Nat, TruncateFrom(i)
  PROVE  PowerInv'
<1> DEFINE rec == TruncateRecord(i)
<1>1. /\ pc = "idle" /\ pc' = "idle" /\ term' = term /\ voted_for' = voted_for /\ told' = told
      /\ Record(rec)
  BY DEF TruncateFrom, history
<1>2. rec = TruncateRecord(i)
  OBVIOUS
<1> HIDE DEF rec
<1>3. rec \in LogRecord /\ Keeps(told, Found'.term, Found'.voted_for)
  BY <1>1, <1>2, RecordKeepsVote
<1>4. LinesKeep(told, file', synced') /\ dirty'
  BY <1>1, <1>3, RecordPower
<1> QED BY <1>1, <1>4 DEF PowerInv

\* A compacted file has the term and vote of memory, and all of it is synced.
LEMMA CompactPower ==
  ASSUME Inv, Inv', PowerInv, Compact
  PROVE  PowerInv'
<1>1. /\ pc = "saved" /\ pc' = "compacted" /\ term' = term /\ voted_for' = voted_for
      /\ told' = told /\ persisted_vote' = <<term, voted_for>> /\ synced' = Len(file')
  BY DEF Compact, memVars, history
<1>2. Keeps(told, Found'.term, Found'.voted_for)
  BY <1>1, VoteOnDisk DEF PowerInv
<1>3. FileSound(file', synced', decided') /\ Found' = Finds(file')
  BY DEF Inv, FilesSound, Found
<1>4. LinesKeep(told, file', synced')
  BY <1>1, <1>2, <1>3, SyncedKeep
<1> QED BY <1>1, <1>4 DEF PowerInv

\* Whatever a power loss leaves, it is what some line came to that was to be kept.
LEMMA PowerLossPower ==
  ASSUME Inv, Inv', PowerInv, PowerLoss, TornForms \subseteq {"torn"}
  PROVE  PowerInv'
<1>1. FileSound(file, synced, decided) /\ AllWhole(file) /\ pc # "down"
      /\ pc' = "down" /\ dirty' = FALSE /\ told' = told /\ synced' = Len(file')
  BY DEF Inv, FilesSound, PowerLoss, Die
<1>2. PICK n \in synced..Len(file) :
        \E rec \in LogRecord : file' = SubSeq(file, 1, n) \/ file' = Torn(file, n, rec)
  BY <1>1, LossLeaves
<1>3. Finds(file') = Until(file, n)
  BY <1>1, <1>2, LeftSound
<1>4. Keeps(told, Until(file, n).term, Until(file, n).voted_for)
  <2>1. n \in 0..ValidPrefix(file) /\ synced <= n
    BY <1>1, <1>2, ValidLines
  <2> QED BY <2>1 DEF PowerInv, LinesKeep
<1>5. FileSound(file', synced', decided')
  BY DEF Inv, FilesSound
<1>6. LinesKeep(told, file', synced')
  BY <1>1, <1>3, <1>4, <1>5, SyncedKeep
<1> QED BY <1>1, <1>6 DEF PowerInv

\* A restart finds what the crash left, and that keeps what is told.
LEMMA RestartPower ==
  ASSUME Inv, Inv', PowerInv, Restart
  PROVE  PowerInv'
<1> DEFINE r == ReadWal(file)
           fixed == file'
<1>1. /\ pc = "down" /\ pc' = "idle" /\ fixed = Repaired(file)
      /\ synced' = IF synced < Len(fixed) THEN synced ELSE Len(fixed)
      /\ dirty' = (ValidPrefix(file) = 0)
      /\ term' = r.term /\ voted_for' = r.voted_for /\ told' = told
  BY DEF Restart, history
<1>2. synced = Len(file)
  BY <1>1 DEF PowerInv
<1>3. FileSound(file, Len(file), decided) /\ decided \in Seq(1..MaxTerm)
      /\ LinesKeep(told, file, Len(file))
  BY <1>2 DEF Inv, FilesSound, MemorySound, PowerInv
<1>4. LinesKeep(told, fixed, synced')
  <2> HIDE DEF fixed
  <2> QED BY <1>1, <1>2, <1>3, RepairedKeep
<1>5. ~ dirty' => synced' = Len(fixed)
  <2>1. ValidPrefix(file) # 0 => fixed = SubSeq(file, 1, ValidPrefix(file))
    <3> HIDE DEF fixed
    <3>1. synced' = IF Len(file) < Len(fixed) THEN Len(file) ELSE Len(fixed)
      BY <1>1, <1>2
    <3> QED BY <1>1, <1>3, <3>1, RepairedSound
  <2>2. ValidPrefix(file) \in 0..Len(file) /\ Len(file) \in Nat /\ file \in Seq(FileLine)
    BY <1>3, ValidLines
  <2>3. ValidPrefix(file) # 0 => Len(fixed) = ValidPrefix(file)
    BY <2>1, <2>2, Beginning
  <2> HIDE DEF fixed
  <2>4. ValidPrefix(file) # 0 => synced' = Len(fixed)
    BY <1>1, <1>2, <2>2, <2>3
  <2>5. ValidPrefix(file) = 0 => dirty'
    BY <1>1
  <2> QED BY <2>4, <2>5
<1>6. Keeps(told, term', voted_for')
  BY <1>1, <1>3, FoundKeeps, ReadsWhatItFinds
<1> QED BY <1>1, <1>4, <1>5, <1>6 DEF PowerInv

\* What is told stays kept, by every step of a node that only power losses stop.
LEMMA NextPower ==
  ASSUME Faults \subseteq {"power"}, TornForms \subseteq {"torn"}, MaxOrphans < Keep,
         Inv, Inv', PowerInv, [Next]_vars
  PROVE  PowerInv'
<1>1. told.term \in Nat /\ (pc # "down" => Keeps(told, term, voted_for))
  BY DEF PowerInv
<1>2. term \in Nat
  BY BoundAssumption DEF Inv, MemorySound
<1>3. ASSUME NEW v, EnterTerm(v) PROVE PowerInv'
  <2>1. /\ pc = "idle" /\ pc' = "idle" /\ UNCHANGED <<file, synced, dirty, told>>
        /\ term' = term + 1
    BY <1>3 DEF EnterTerm, diskVars, history
  <2>2. Keeps(told, term', voted_for')
    BY <1>1, <1>2, <2>1 DEF Keeps
  <2> QED BY <2>1, <2>2, QuietPower
<1>4. ASSUME NEW v, CastVote(v) PROVE PowerInv'
  <2>1. /\ pc = "idle" /\ pc' = "idle" /\ UNCHANGED <<file, synced, dirty, told>>
        /\ term' = term /\ voted_for = Nil
    BY <1>4 DEF CastVote, diskVars, history
  <2>2. Keeps(told, term', voted_for')
    BY <1>1, <2>1 DEF Keeps
  <2> QED BY <2>1, <2>2, QuietPower
<1>5. ASSUME NEW i, AdvanceCommit(i) PROVE PowerInv'
  <2>1. /\ pc = "idle" /\ pc' = "idle" /\ UNCHANGED <<file, synced, dirty, told>>
        /\ term' = term /\ voted_for' = voted_for
    BY <1>5 DEF AdvanceCommit, diskVars
  <2> QED BY <1>1, <2>1, QuietPower
<1>6. CASE ApplyCommitted \/ SaveSnapshot \/ Prune
  <2>1. /\ pc # "down" /\ pc' \in {"idle", "saved"} /\ UNCHANGED <<file, synced, dirty, told>>
        /\ term' = term /\ voted_for' = voted_for
    BY <1>6 DEF ApplyCommitted, SaveSnapshot, Prune, diskVars, memVars, history
  <2> QED BY <1>1, <2>1, QuietPower
<1>7. CASE \E i \in 1..MaxIndex : TruncateFrom(i) \/ AdvanceCommit(i)
  <2>1. PICK i \in 1..MaxIndex : TruncateFrom(i) \/ AdvanceCommit(i)
    BY <1>7
  <2>2. i \in Nat
    OBVIOUS
  <2> QED BY <1>5, <2>1, <2>2, TruncateFromPower
<1>8. CASE \E t \in 1..MaxTerm : AppendEntry(t)
  BY <1>8, AppendEntryPower
<1>9. CASE PersistVote \/ PersistCommit \/ SyncAndSend
  BY <1>9, PersistVotePower, PersistCommitPower, SyncAndSendPower
<1>10. CASE Compact \/ PowerLoss \/ Restart
  BY <1>10, CompactPower, PowerLossPower, RestartPower
<1>11. ~ Kill
  BY DEF Kill
<1>12. CASE UNCHANGED vars
  <2>1. /\ UNCHANGED <<file, synced, dirty, told, pc, term, voted_for>>
        /\ UNCHANGED <<persisted_vote, persisted_commit, commit_index>>
    BY <1>12 DEF vars, diskVars, memVars, watchVars, history
  <2> QED BY <2>1 DEF PowerInv
<1> QED BY <1>3, <1>4, <1>5, <1>6, <1>7, <1>8, <1>9, <1>10, <1>11, <1>12 DEF Next

\* What any number of whole lines brings back, if a crash can leave them.
LEMMA Brings ==
  ASSUME NEW lines, NEW from, NEW lg, FileSound(lines, from, lg), AllWhole(lines),
         NEW n \in from..Len(lines), NEW saved
  PROVE  Recovered(lines, n, saved) = Brought(Until(lines, n), saved)
<1> DEFINE left == SubSeq(lines, 1, n)
<1>1. HeaderRecord \in LogRecord
  BY DEF HeaderRecord, LogRecord
<1>2. left = SubSeq(lines, 1, n) \/ left = Torn(lines, n, HeaderRecord)
  OBVIOUS
<1> HIDE DEF left
<1>3. FileSound(left, Len(left), lg) /\ Finds(left) = Until(lines, n)
  BY <1>1, <1>2, LeftSound
<1>4. ReadWal(left) = Until(lines, n)
  BY <1>3, ReadsWhatItFinds
<1> QED BY <1>4 DEF Recovered, Brought, left

\* And what all lines do, the last one torn or not.
LEMMA BringsAll ==
  ASSUME NEW lines, NEW from, NEW lg, FileSound(lines, from, lg), NEW saved
  PROVE  Recovered(lines, Len(lines), saved) = Brought(Finds(lines), saved)
<1>1. lines \in Seq(FileLine)
  BY DEF FileSound
<1>2. SubSeq(lines, 1, Len(lines)) = lines
  BY <1>1, SubSeqFull
<1>3. ReadWal(lines) = Finds(lines)
  BY ReadsWhatItFinds
<1> QED BY <1>2, <1>3 DEF Recovered, Brought

\* It is a state of stable storage, and holds what was decided.
LEMMA BroughtSound ==
  ASSUME NEW r, NEW lg \in Seq(1..MaxTerm), NEW saved, Sound(r, lg), SavedSound(saved, lg),
         r.base # 0 => r.base \in DOMAIN saved
  PROVE  /\ Brought(r, saved) \in Storage!State
         /\ Brought(r, saved).commit \in Nat /\ Brought(r, saved).term \in Nat
         /\ Brought(r, saved).commit <= Len(Brought(r, saved).log)
         /\ \A i \in 1..r.commit : Brought(r, saved).log[i] = lg[i]
<1> DEFINE all == RecoveredLog(r, saved)
           b == Brought(r, saved)
<1>1. /\ all \in Seq(1..MaxTerm) /\ Len(all) = LastRecovered(r)
      /\ \A i \in 1..r.commit : all[i] = lg[i]
  BY RecoveredParts
<1>2. r \in Recovery /\ r.commit <= LastRecovered(r)
  BY DEF Sound
<1>3. r.term \in Nat /\ r.voted_for \in Voter \cup {Nil} /\ r.commit \in Nat
  BY <1>2, BoundAssumption DEF Recovery
<1>4. b.term = r.term /\ b.voted_for = r.voted_for /\ b.commit = r.commit /\ b.log = all
      /\ b = [term |-> b.term, voted_for |-> b.voted_for, log |-> b.log, commit |-> b.commit]
  BY DEF Brought
<1> HIDE DEF all, b
<1>5. all \in Seq(Nat)
  <2>1. Len(all) \in Nat /\ all = [i \in 1..Len(all) |-> all[i]]
    BY <1>1, LenProperties
  <2>2. \A i \in 1..Len(all) : all[i] \in Nat
    <3> TAKE i \in 1..Len(all)
    <3>1. all[i] \in 1..MaxTerm
      BY <1>1, ElementOfSeq
    <3> QED BY <3>1
  <2> DEFINE f == [i \in 1..Len(all) |-> all[i]]
  <2>3. f \in [1..Len(all) -> Nat]
    BY <2>2
  <2>4. f \in Seq(Nat)
    BY <2>1, <2>3, Listed
  <2> QED BY <2>1, <2>4
<1>6. b \in Storage!State
  BY <1>3, <1>4, <1>5 DEF Storage!State
<1> QED BY <1>1, <1>2, <1>3, <1>4, <1>6 DEF b

\* What brings back no older a term and no lower a commit index extends.
LEMMA BroughtExtends ==
  ASSUME NEW r, NEW s, NEW lg \in Seq(1..MaxTerm), NEW saved, NEW kept,
         Sound(r, lg), SavedSound(saved, lg), r.base # 0 => r.base \in DOMAIN saved,
         Sound(s, lg), SavedSound(kept, lg), s.base # 0 => s.base \in DOMAIN kept,
         r.term <= s.term, r.commit <= s.commit
  PROVE  Storage!Extends(Brought(r, saved), Brought(s, kept))
<1> DEFINE u == Brought(r, saved)
           v == Brought(s, kept)
<1>1. u.term = r.term /\ u.commit = r.commit /\ v.term = s.term /\ v.commit = s.commit
  BY DEF Brought
<1>2. /\ r.commit \in Nat /\ u.commit <= Len(u.log) /\ \A i \in 1..r.commit : u.log[i] = lg[i]
  BY <1>1, BroughtSound
<1>3. /\ s.commit \in Nat /\ v.commit <= Len(v.log) /\ \A i \in 1..s.commit : v.log[i] = lg[i]
  BY <1>1, BroughtSound
<1> HIDE DEF u, v
<1>4. ASSUME NEW i \in 1..u.commit PROVE v.log[i] = u.log[i]
  <2>1. i \in 1..r.commit /\ i \in 1..s.commit
    BY <1>1, <1>2, <1>3
  <2> QED BY <1>2, <1>3, <2>1
<1>5. u.term <= v.term /\ u.commit <= v.commit
  BY <1>1
<1>6. Storage!Extends(u, v)
  BY <1>2, <1>3, <1>4, <1>5 DEF Storage!Extends
<1> QED BY <1>6 DEF u, v

\* The states after the lines that are not synced.
LEMMA UnsyncedParts ==
  ASSUME NEW lines \in Seq(FileLine), NEW n \in 0..Len(lines), NEW saved, NEW T,
         \A k \in Nat : Recovered(lines, k, saved) \in T
  PROVE  /\ Unsynced(lines, n, saved) \in Seq(T)
         /\ Len(Unsynced(lines, n, saved)) = Len(lines) - n
         /\ \A k \in 1..(Len(lines) - n) :
               Unsynced(lines, n, saved)[k] = Recovered(lines, n + k, saved)
         /\ n = Len(lines) => Unsynced(lines, n, saved) = <<>>
<1> DEFINE m == Len(lines) - n
           us == Unsynced(lines, n, saved)
<1>1. Len(lines) \in Nat /\ n \in Nat /\ m \in Nat
  BY LenProperties
<1>2. us = [k \in 1..m |-> Recovered(lines, n + k, saved)]
  BY DEF Unsynced
<1> HIDE DEF us
<1>3. \A k \in 1..m : Recovered(lines, n + k, saved) \in T
  <2> TAKE k \in 1..m
  <2>1. n + k \in Nat
    BY <1>1
  <2> QED BY <2>1
<1>4. us \in [1..m -> T]
  BY <1>2, <1>3
<1>5. us \in Seq(T) /\ Len(us) = m
  BY <1>1, <1>4, Listed
<1>6. n = Len(lines) => us = <<>>
  <2> HIDE DEF m
  <2>1. n = Len(lines) => m = 0
    BY <1>1 DEF m
  <2> QED BY <1>5, <2>1, EmptySeq
<1> QED BY <1>2, <1>5, <1>6 DEF us

\* One line more is one state more.
LEMMA OneMore ==
  ASSUME NEW lines \in Seq(FileLine), NEW more \in Seq(FileLine), NEW n \in 0..Len(lines),
         NEW saved, Len(more) = Len(lines) + 1,
         \A k \in 0..Len(lines) : SubSeq(more, 1, k) = SubSeq(lines, 1, k)
  PROVE  LET us == Unsynced(lines, n, saved)
             vs == Unsynced(more, n, saved)
         IN  /\ Recovered(more, n, saved) = Recovered(lines, n, saved)
             /\ Len(vs) = Len(us) + 1 /\ vs[Len(vs)] = Recovered(more, Len(more), saved)
             /\ vs = Append(us, vs[Len(vs)])
<1> DEFINE us == Unsynced(lines, n, saved)
           vs == Unsynced(more, n, saved)
           T == {Recovered(lines, k, saved) : k \in Nat}
                  \cup {Recovered(more, k, saved) : k \in Nat}
           m == Len(lines) - n
           last == vs[m + 1]
<1>1. Len(lines) \in Nat /\ n \in Nat /\ m \in Nat /\ n \in 0..Len(more)
      /\ Len(more) - n = m + 1 /\ n + (m + 1) = Len(more)
  BY LenProperties
<1>2. \A k \in 0..Len(lines) : Recovered(more, k, saved) = Recovered(lines, k, saved)
  BY DEF Recovered
<1>3. /\ \A k \in Nat : Recovered(lines, k, saved) \in T
      /\ \A k \in Nat : Recovered(more, k, saved) \in T
  OBVIOUS
<1> HIDE DEF T
<1>4. /\ us \in Seq(T) /\ Len(us) = m
      /\ \A k \in 1..m : us[k] = Recovered(lines, n + k, saved)
  BY <1>3, UnsyncedParts
<1>5. /\ vs \in Seq(T) /\ Len(vs) = Len(more) - n
      /\ \A k \in 1..(Len(more) - n) : vs[k] = Recovered(more, n + k, saved)
  BY <1>1, <1>3, UnsyncedParts
<1>6. Len(vs) = m + 1 /\ \A k \in 1..(m + 1) : vs[k] = Recovered(more, n + k, saved)
  BY <1>1, <1>5
<1> HIDE DEF us, vs, m
<1>7. last = Recovered(more, Len(more), saved) /\ last \in T
  <2>1. m + 1 \in 1..(m + 1)
    BY <1>1
  <2> QED BY <1>1, <1>3, <1>6, <2>1, LenProperties
<1> HIDE DEF last
<1>8. /\ Append(us, last) \in Seq(T) /\ Len(Append(us, last)) = m + 1
      /\ Append(us, last)[m + 1] = last /\ \A k \in 1..m : Append(us, last)[k] = us[k]
  BY <1>4, <1>7, AppendProperties
<1>9. ASSUME NEW k \in 1..(m + 1) PROVE vs[k] = Append(us, last)[k]
  <2>1. CASE k = m + 1
    BY <1>8, <2>1 DEF last
  <2>2. CASE k # m + 1
    <3>1. k \in 1..m /\ n + k \in 0..Len(lines)
      BY <1>1, <2>2 DEF m
    <3>2. vs[k] = us[k]
      BY <1>2, <1>4, <1>6, <3>1
    <3> QED BY <1>8, <3>1, <3>2
  <2> QED BY <2>1, <2>2
<1>10. vs = Append(us, last)
  BY <1>5, <1>6, <1>8, <1>9, SameSequence
<1>11. Recovered(more, n, saved) = Recovered(lines, n, saved)
  BY <1>2
<1> QED BY <1>4, <1>6, <1>7, <1>10, <1>11 DEF us, vs, last

\* The files are sound, and so is all that they bring back.
LEMMA DiskParts ==
  ASSUME Inv
  PROVE  /\ FileSound(file, synced, decided) /\ decided \in Seq(1..MaxTerm)
         /\ file \in Seq(FileLine) /\ Len(file) \in Nat /\ synced \in 0..Len(file)
         /\ Sound(Found, decided) /\ SavedSound(snapshots, decided)
         /\ Found.base # 0 => Found.base \in DOMAIN snapshots
         /\ Recovered(file, Len(file), snapshots) = Brought(Found, snapshots)
<1>1. FileSound(file, synced, decided) /\ decided \in Seq(1..MaxTerm) /\ Found = Finds(file)
  BY DEF Inv, FilesSound, MemorySound, Found
<1>2. Recovered(file, Len(file), snapshots) = Brought(Found, snapshots)
  BY <1>1, BringsAll
<1> QED BY <1>1, <1>2, ValidLines, ReadsWhatItFinds DEF Inv, SnapshotsSound

\* What is written last is what a restart would find.
LEMMA CurrentIsFound ==
  ASSUME Inv
  PROVE  Storage!Current = Brought(Found, snapshots)
<1> DEFINE T == {Recovered(file, k, snapshots) : k \in Nat}
           m == Len(file) - synced
<1>1. /\ file \in Seq(FileLine) /\ Len(file) \in Nat /\ synced \in 0..Len(file)
      /\ Recovered(file, Len(file), snapshots) = Brought(Found, snapshots)
  BY DiskParts
<1>2. \A k \in Nat : Recovered(file, k, snapshots) \in T
  OBVIOUS
<1> HIDE DEF T
<1>3. /\ Pending \in Seq(T) /\ Len(Pending) = m
      /\ \A k \in 1..m : Pending[k] = Recovered(file, synced + k, snapshots)
      /\ synced = Len(file) => Pending = <<>>
  BY <1>1, <1>2, UnsyncedParts DEF Pending
<1>4. CASE synced = Len(file)
  BY <1>1, <1>3, <1>4 DEF Storage!Current, Disk
<1>5. CASE synced # Len(file)
  <2>1. m \in 1..m /\ synced + m = Len(file) /\ m # 0
    BY <1>1, <1>5
  <2> HIDE DEF m
  <2>2. Pending # <<>>
    BY <1>3, <2>1, EmptySeq
  <2>3. Pending[m] = Brought(Found, snapshots)
    BY <1>1, <1>3, <2>1
  <2> QED BY <1>3, <2>2, <2>3 DEF Storage!Current
<1> QED BY <1>4, <1>5

\* What extends what a restart would find, and takes back nothing that is told,
\* may be written.
LEMMA MayBeWritten ==
  ASSUME Inv, NEW r, NEW saved, Sound(r, decided), SavedSound(saved, decided),
         r.base # 0 => r.base \in DOMAIN saved,
         Found.term <= r.term, Found.commit <= r.commit, Keeps(told, r.term, r.voted_for)
  PROVE  Storage!Writable(Brought(r, saved))
<1> DEFINE v == Brought(r, saved)
<1>1. /\ decided \in Seq(1..MaxTerm) /\ Sound(Found, decided)
      /\ SavedSound(snapshots, decided)
      /\ Found.base # 0 => Found.base \in DOMAIN snapshots
  BY DiskParts
<1>2. v \in Storage!State
  BY <1>1, BroughtSound
<1>3. Storage!Extends(Storage!Current, v)
  <2>1. Storage!Extends(Brought(Found, snapshots), v)
    BY <1>1, BroughtExtends
  <2> QED BY <2>1, CurrentIsFound
<1>4. Storage!KeepsVote(told, v)
  <2>1. v.term = r.term /\ v.voted_for = r.voted_for
    BY DEF Brought
  <2> HIDE DEF v
  <2> QED BY <2>1 DEF Keeps, Storage!KeepsVote
<1> HIDE DEF v
<1>5. Storage!Writable(v)
  BY <1>2, <1>3, <1>4 DEF Storage!Writable
<1> QED BY <1>5 DEF v

\* A record is a write, if it takes back nothing that is told.
LEMMA RecordWrites ==
  ASSUME Inv, Inv', PowerInv, pc # "down", NEW rec \in LogRecord, Record(rec),
         told' = told, decided' = decided,
         Keeps(told, Found'.term, Found'.voted_for),
         Found.term <= Found'.term, Found.commit <= Found'.commit
  PROVE  Storage!Write
<1> DEFINE more == file'
           v == Brought(Found', snapshots)
<1>1. /\ FileSound(file, synced, decided) /\ decided \in Seq(1..MaxTerm)
      /\ file \in Seq(FileLine) /\ Len(file) \in Nat /\ synced \in 0..Len(file)
      /\ Sound(Found, decided) /\ SavedSound(snapshots, decided)
      /\ Found.base # 0 => Found.base \in DOMAIN snapshots
  BY DiskParts
<1>2. snapshots' = snapshots /\ synced' = synced /\ more = AppendLine(file, rec)
  BY DEF Record
<1>3. FileSound(more, synced, decided) /\ Found' = Finds(more)
  BY <1>2 DEF Inv, FilesSound, Found
<1>4. AllWhole(file)
  BY DEF Inv, FilesSound
<1>5. Found'.base # 0 => Found'.base \in DOMAIN snapshots
  BY <1>2 DEF Inv, SnapshotsSound
<1>6. Disk' = Recovered(more, synced, snapshots) /\ Pending' = Unsynced(more, synced, snapshots)
  BY <1>2 DEF Disk, Pending
<1> HIDE DEF more
<1>7. /\ more \in Seq(FileLine) /\ Len(more) = Len(file) + 1
      /\ \A k \in 0..Len(file) : SubSeq(more, 1, k) = SubSeq(file, 1, k)
  BY <1>1, <1>2, <1>4, RecordAdds
<1>8. Sound(Found', decided) /\ Recovered(more, Len(more), snapshots) = v
  BY <1>3, BringsAll, ReadsWhatItFinds
<1>9. /\ Disk' = Disk /\ Len(Pending') = Len(Pending) + 1 /\ Pending'[Len(Pending')] = v
      /\ Pending' = Append(Pending, Pending'[Len(Pending')])
  BY <1>1, <1>6, <1>7, <1>8, OneMore DEF Disk, Pending
<1>10. Storage!Writable(v)
  BY <1>1, <1>5, <1>8, MayBeWritten
<1> HIDE DEF v
<1> QED BY <1>9, <1>10 DEF Storage!Write

\* Steps that leave the files alone are none of the storage's.
LEMMA NothingWritten ==
  ASSUME UNCHANGED <<file, synced, snapshots, told>>
  PROVE  UNCHANGED Storage!vars
BY DEF Storage!vars, Disk, Pending

\* The record of a term and vote is a write.
LEMMA PersistVoteWrites ==
  ASSUME Inv, Inv', PowerInv, PersistVote
  PROVE  Storage!Next \/ UNCHANGED Storage!vars
<1>1. /\ pc = "idle" /\ pc' = "vote_recorded" /\ term' = term /\ voted_for' = voted_for
      /\ told' = told /\ persisted_vote' = <<term, voted_for>> /\ decided' = decided
      /\ persisted_commit' = persisted_commit
  BY DEF PersistVote, memVars, history
<1>2. CASE persisted_vote # <<term, voted_for>>
  <2> DEFINE rec == TermRecord(term, voted_for)
  <2>1. Record(rec)
    BY <1>2 DEF PersistVote
  <2>2. rec \in LogRecord
    BY BoundAssumption DEF TermRecord, LogRecord, Inv, MemorySound
  <2>3. Found'.term = term /\ Found'.voted_for = voted_for /\ Found'.commit = persisted_commit
    BY <1>1, VoteOnDisk
  <2>4. Found.term <= term /\ Found.commit = persisted_commit
    BY <1>1 DEF Inv, FileIsMemory
  <2>5. Found.commit \in Nat
    BY DiskParts DEF Sound, Recovery
  <2>6. Found.commit <= Found'.commit /\ Found.term <= Found'.term
    BY <2>3, <2>4, <2>5
  <2>7. Keeps(told, Found'.term, Found'.voted_for)
    BY <1>1, <2>3 DEF PowerInv
  <2> HIDE DEF rec
  <2>8. Storage!Write
    BY <1>1, <2>1, <2>2, <2>6, <2>7, RecordWrites
  <2> QED BY <2>8 DEF Storage!Next
<1>3. CASE persisted_vote = <<term, voted_for>>
  <2>1. UNCHANGED <<file, synced, snapshots, told>>
    BY <1>1, <1>3 DEF PersistVote, diskVars
  <2> QED BY <2>1, NothingWritten
<1> QED BY <1>2, <1>3

\* So is the record of a commit index.
LEMMA PersistCommitWrites ==
  ASSUME Inv, Inv', PowerInv, PersistCommit
  PROVE  Storage!Next \/ UNCHANGED Storage!vars
<1>1. /\ pc = "vote_recorded" /\ pc' = "commit_recorded" /\ term' = term
      /\ voted_for' = voted_for /\ told' = told /\ persisted_vote' = persisted_vote
      /\ decided' = decided /\ persisted_commit' = commit_index
  BY DEF PersistCommit, memVars, history
<1>2. CASE persisted_commit # commit_index
  <2> DEFINE rec == CommitRecord(commit_index)
  <2>1. Record(rec)
    BY <1>2 DEF PersistCommit
  <2>2. rec \in LogRecord
    BY DEF CommitRecord, LogRecord, Inv, MemorySound
  <2>3. persisted_vote' = <<term, voted_for>> /\ Keeps(told, term, voted_for)
    BY <1>1 DEF PowerInv
  <2>4. Found'.term = term /\ Found'.voted_for = voted_for /\ Found'.commit = commit_index
    BY <1>1, <2>3, VoteOnDisk
  <2>5. Found.term <= term /\ Found.commit <= commit_index
    BY <1>1 DEF Inv, FileIsMemory
  <2> HIDE DEF rec
  <2>6. Storage!Write
    BY <1>1, <2>1, <2>2, <2>3, <2>4, <2>5, RecordWrites
  <2> QED BY <2>6 DEF Storage!Next
<1>3. CASE persisted_commit = commit_index
  <2>1. UNCHANGED <<file, synced, snapshots, told>>
    BY <1>1, <1>3 DEF PersistCommit, diskVars
  <2> QED BY <2>1, NothingWritten
<1> QED BY <1>2, <1>3

\* The record of an entry, or of a truncation.
LEMMA MergeWrites ==
  ASSUME Inv, Inv', PowerInv, NEW i \in Nat, NEW rec,
         (\E t \in 1..MaxTerm : rec = EntryRecord(i, t)) \/ rec = TruncateRecord(i),
         pc = "idle", pc' = "idle", Record(rec), told' = told, decided' = decided,
         persisted_commit' = persisted_commit
  PROVE  Storage!Next
<1>1. /\ rec \in LogRecord /\ Found.term <= Found'.term
      /\ Keeps(told, Found'.term, Found'.voted_for)
  BY RecordKeepsVote
<1>2. Found.commit = persisted_commit /\ Found'.commit = persisted_commit
  BY DEF Inv, FileIsMemory
<1>3. Found.commit \in Nat
  BY DiskParts DEF Sound, Recovery
<1>4. Found.commit <= Found'.commit
  BY <1>2, <1>3
<1>5. Storage!Write
  BY <1>1, <1>4, RecordWrites
<1> QED BY <1>5 DEF Storage!Next

\* And so is that of an entry, whose term the node has reached,
LEMMA AppendEntryWrites ==
  ASSUME Inv, Inv', PowerInv, NEW t \in 1..MaxTerm, AppendEntry(t)
  PROVE  Storage!Next
<1> DEFINE i == last_index + 1
           rec == EntryRecord(i, t)
<1>1. /\ pc = "idle" /\ pc' = "idle" /\ told' = told /\ decided' = decided
      /\ persisted_commit' = persisted_commit /\ Record(rec)
  BY DEF AppendEntry, watchVars, history
<1>2. i \in Nat
  <2>1. base \in Nat /\ Len(log) \in Nat
    BY LenProperties DEF Inv, MemorySound
  <2> QED BY <2>1 DEF last_index
<1>3. rec = EntryRecord(i, t)
  OBVIOUS
<1> HIDE DEF rec, i
<1> QED BY <1>1, <1>2, <1>3, MergeWrites

\* or of a truncation, which leaves what is committed.
LEMMA TruncateFromWrites ==
  ASSUME Inv, Inv', PowerInv, NEW i \in Nat, TruncateFrom(i)
  PROVE  Storage!Next
<1> DEFINE rec == TruncateRecord(i)
<1>1. /\ pc = "idle" /\ pc' = "idle" /\ told' = told /\ decided' = decided
      /\ persisted_commit' = persisted_commit /\ Record(rec)
  BY DEF TruncateFrom, watchVars, history
<1>2. rec = TruncateRecord(i)
  OBVIOUS
<1> HIDE DEF rec
<1> QED BY <1>1, <1>2, MergeWrites

\* When all is synced nothing is pending.
LEMMA SyncedParts ==
  ASSUME NEW lines, NEW lg, FileSound(lines, Len(lines), lg), NEW saved
  PROVE  /\ Recovered(lines, Len(lines), saved) = Brought(Finds(lines), saved)
         /\ Unsynced(lines, Len(lines), saved) = <<>>
<1> DEFINE T == {Recovered(lines, k, saved) : k \in Nat}
<1>1. \A k \in Nat : Recovered(lines, k, saved) \in T
  OBVIOUS
<1>2. lines \in Seq(FileLine) /\ Len(lines) \in 0..Len(lines)
  BY DEF FileSound
<1> HIDE DEF T
<1> QED BY <1>1, <1>2, UnsyncedParts, BringsAll

\* A sync makes the last state written stable, and it is that state which is told.
LEMMA SyncAndSendTells ==
  ASSUME Inv, PowerInv, SyncAndSend
  PROVE  Storage!Next
<1>1. /\ pc = "commit_recorded" /\ told' = InMemory /\ file' = file /\ snapshots' = snapshots
      /\ synced' = Len(file)
  BY SyncAndSendPower DEF SyncAndSend
<1>2. /\ FileSound(file, synced, decided) /\ decided \in Seq(1..MaxTerm)
      /\ Recovered(file, Len(file), snapshots) = Brought(Found, snapshots)
      /\ file \in Seq(FileLine) /\ Len(file) \in Nat
  BY DiskParts
<1>3. Unsynced(file, Len(file), snapshots) = <<>>
  <2> DEFINE T == {Recovered(file, k, snapshots) : k \in Nat}
  <2>1. \A k \in Nat : Recovered(file, k, snapshots) \in T
    OBVIOUS
  <2> HIDE DEF T
  <2>2. Len(file) \in 0..Len(file)
    BY <1>2
  <2> QED BY <1>2, <2>1, <2>2, UnsyncedParts
<1>4. Disk' = Storage!Current /\ Pending' = <<>>
  BY <1>1, <1>2, <1>3, CurrentIsFound DEF Disk, Pending
<1>5. InMemory = Brought(Found, snapshots)
  <2>1. Recovered(file, Len(file), snapshots).log = WholeLog
    BY <1>1, RunningHoldsLog DEF FileHoldsLog
  <2>2. RecoveredLog(Found, snapshots) = WholeLog
    BY <1>2, <2>1 DEF Brought
  <2>3. Found.term = term /\ Found.voted_for = voted_for /\ Found.commit = commit_index
    BY <1>1, RecordedIsMemory
  <2> QED BY <2>2, <2>3 DEF InMemory, Brought
<1>6. Storage!SyncAndTell
  BY <1>1, <1>4, <1>5, CurrentIsFound DEF Storage!SyncAndTell
<1> QED BY <1>6 DEF Storage!Next

\* Snapshots that the log does not refer to change nothing that a recovery
\* brings back.
LEMMA SameSaved ==
  ASSUME NEW lines, NEW from, NEW lg, FileSound(lines, from, lg), AllWhole(lines),
         NEW saved, NEW kept, NEW i, i = Finds(lines).base,
         i \in DOMAIN saved <=> i \in DOMAIN kept, i \in DOMAIN saved => saved[i] = kept[i]
  PROVE  /\ Recovered(lines, from, saved) = Recovered(lines, from, kept)
         /\ Unsynced(lines, from, saved) = Unsynced(lines, from, kept)
<1> DEFINE m == Len(lines) - from
<1>1. /\ Len(lines) \in Nat /\ from \in 0..Len(lines) /\ ValidPrefix(lines) = Len(lines)
  BY ValidLines
<1>2. ASSUME NEW n \in from..Len(lines)
      PROVE  Recovered(lines, n, saved) = Recovered(lines, n, kept)
  <2> DEFINE r == Until(lines, n)
  <2>1. r.base = i
    BY <1>1 DEF FileSound
  <2>2. RecoveredLog(r, saved) = RecoveredLog(r, kept)
    <3> HIDE DEF r
    <3> QED BY <2>1 DEF RecoveredLog
  <2>3. Brought(r, saved) = Brought(r, kept)
    BY <2>2 DEF Brought
  <2>4. /\ Recovered(lines, n, saved) = Brought(r, saved)
        /\ Recovered(lines, n, kept) = Brought(r, kept)
    BY Brings
  <2> QED BY <2>3, <2>4
<1>3. from \in from..Len(lines) /\ \A k \in 1..m : from + k \in from..Len(lines)
  BY <1>1
<1>4. \A k \in 1..m : Recovered(lines, from + k, saved) = Recovered(lines, from + k, kept)
  BY <1>2, <1>3
<1> HIDE DEF m
<1>5. [k \in 1..m |-> Recovered(lines, from + k, saved)]
        = [k \in 1..m |-> Recovered(lines, from + k, kept)]
  BY <1>4
<1> QED BY <1>2, <1>3, <1>5 DEF Unsynced, m

\* A snapshot saved before the log refers to it.
LEMMA SaveSnapshotWrites ==
  ASSUME Inv, SaveSnapshot
  PROVE  UNCHANGED Storage!vars
<1> DEFINE n == Len(store)
           kept == snapshots'
           i == Found.base
<1>1. /\ pc = "idle" /\ n > snapshot_index /\ file' = file /\ synced' = synced
      /\ kept = [j \in DOMAIN snapshots \cup {n} |-> IF j = n THEN store ELSE snapshots[j]]
      /\ told' = told
  BY DEF SaveSnapshot, last_applied, history
<1>2. i = snapshot_index /\ snapshot_index \in Nat /\ n \in Nat
  BY <1>1, LenProperties DEF Inv, FileIsMemory, MemorySound
<1>3. i # n
  BY <1>1, <1>2
<1>4. /\ i \in DOMAIN snapshots <=> i \in DOMAIN kept
      /\ i \in DOMAIN snapshots => snapshots[i] = kept[i]
  <2> HIDE DEF i, n
  <2> QED BY <1>1, <1>3
<1>5. FileSound(file, synced, decided) /\ AllWhole(file) /\ i = Finds(file).base
  BY <1>1 DEF Inv, FilesSound, Found
<1>6. Disk' = Recovered(file, synced, kept) /\ Pending' = Unsynced(file, synced, kept)
  BY <1>1 DEF Disk, Pending
<1> HIDE DEF kept, i, n
<1>7. Disk' = Disk /\ Pending' = Pending
  BY <1>4, <1>5, <1>6, SameSaved DEF Disk, Pending
<1> QED BY <1>1, <1>7 DEF Storage!vars

\* Snapshots removed that the log does not refer to.
LEMMA PruneWrites ==
  ASSUME Inv, Inv', Prune
  PROVE  UNCHANGED Storage!vars
<1> DEFINE kept == snapshots'
           i == Found.base
<1>1. /\ pc = "compacted" /\ file' = file /\ synced' = synced /\ told' = told
      /\ kept = [j \in Newest(DOMAIN snapshots) |-> snapshots[j]]
  BY DEF Prune, history
<1>2. Found' = Found
  BY <1>1 DEF Found
<1>3. (i # 0 => i \in DOMAIN kept) /\ SavedSound(snapshots, decided)
  BY <1>2 DEF Inv, SnapshotsSound
<1>4. 0 \notin DOMAIN snapshots
  BY <1>3 DEF SavedSound
<1>5. Newest(DOMAIN snapshots) \subseteq DOMAIN snapshots
  BY DEF Newest
<1>6. /\ i \in DOMAIN snapshots <=> i \in DOMAIN kept
      /\ i \in DOMAIN snapshots => snapshots[i] = kept[i]
  <2> HIDE DEF i
  <2> QED BY <1>1, <1>3, <1>4, <1>5
<1>7. FileSound(file, synced, decided) /\ AllWhole(file) /\ i = Finds(file).base
  BY <1>1 DEF Inv, FilesSound, Found
<1>8. Disk' = Recovered(file, synced, kept) /\ Pending' = Unsynced(file, synced, kept)
  BY <1>1 DEF Disk, Pending
<1> HIDE DEF kept, i
<1>9. Disk' = Disk /\ Pending' = Pending
  BY <1>6, <1>7, <1>8, SameSaved DEF Disk, Pending
<1> QED BY <1>1, <1>9 DEF Storage!vars

\* A compaction brings back what memory holds, the vote of the term included.
LEMMA CompactRewrites ==
  ASSUME Inv, Inv', PowerInv, Compact
  PROVE  Storage!Next
<1> DEFINE more == file'
           v == Brought(Found', snapshots)
<1>1. /\ pc = "saved" /\ pc' = "compacted" /\ term' = term /\ voted_for' = voted_for
      /\ told' = told /\ decided' = decided /\ snapshots' = snapshots
      /\ persisted_vote' = <<term, voted_for>> /\ persisted_commit' = commit_index
      /\ synced' = Len(more)
  BY DEF Compact, memVars, history
<1>2. Found'.term = term /\ Found'.voted_for = voted_for /\ Found'.commit = commit_index
  BY <1>1, VoteOnDisk
<1>3. Keeps(told, Found'.term, Found'.voted_for)
  BY <1>1, <1>2 DEF PowerInv
<1>4. Found.term <= term /\ Found.commit <= commit_index
  BY <1>1 DEF Inv, FileIsMemory
<1>5. FileSound(more, Len(more), decided) /\ Found' = Finds(more)
  BY <1>1 DEF Inv, FilesSound, Found
<1>6. SavedSound(snapshots, decided) /\ (Found'.base # 0 => Found'.base \in DOMAIN snapshots)
  BY <1>1 DEF Inv, SnapshotsSound
<1>7. Disk' = Recovered(more, Len(more), snapshots)
      /\ Pending' = Unsynced(more, Len(more), snapshots)
  BY <1>1 DEF Disk, Pending
<1> HIDE DEF more
<1>8. Sound(Found', decided)
  BY <1>5, ReadsWhatItFinds
<1>9. Disk' = v /\ Pending' = <<>>
  BY <1>5, <1>7, SyncedParts
<1>10. Storage!Writable(v)
  BY <1>2, <1>3, <1>4, <1>6, <1>8, MayBeWritten
<1> HIDE DEF v
<1>11. Storage!Rewrite
  BY <1>1, <1>9, <1>10 DEF Storage!Rewrite
<1> QED BY <1>11 DEF Storage!Next

\* A power loss falls back to the state after some line that a sync did not
\* follow, or to the one that was synced.
LEMMA PowerLossCrashes ==
  ASSUME Inv, PowerLoss, TornForms \subseteq {"torn"}
  PROVE  Storage!Next
<1> DEFINE left == file'
           m == Len(file) - synced
           T == {Recovered(file, k, snapshots) : k \in Nat}
<1>1. /\ FileSound(file, synced, decided) /\ AllWhole(file)
      /\ snapshots' = snapshots /\ told' = told /\ synced' = Len(left)
  BY DEF Inv, FilesSound, PowerLoss, Die
<1>2. file \in Seq(FileLine) /\ Len(file) \in Nat /\ synced \in 0..Len(file)
  BY DiskParts
<1>3. PICK n \in synced..Len(file) :
        \E rec \in LogRecord : left = SubSeq(file, 1, n) \/ left = Torn(file, n, rec)
  BY <1>1, LossLeaves
<1>4. Disk' = Recovered(left, Len(left), snapshots)
      /\ Pending' = Unsynced(left, Len(left), snapshots)
  BY <1>1 DEF Disk, Pending
<1> HIDE DEF left
<1>5. FileSound(left, Len(left), decided) /\ Finds(left) = Until(file, n)
  BY <1>1, <1>3, LeftSound
<1>6. Disk' = Brought(Until(file, n), snapshots) /\ Pending' = <<>>
  BY <1>4, <1>5, SyncedParts
<1>7. Disk' = Recovered(file, n, snapshots)
  BY <1>1, <1>6, Brings
<1>8. Len(Pending) = m /\ \A k \in 1..m : Pending[k] = Recovered(file, synced + k, snapshots)
  <2>1. \A k \in Nat : Recovered(file, k, snapshots) \in T
    OBVIOUS
  <2> HIDE DEF T
  <2> QED BY <1>2, <2>1, UnsyncedParts DEF Pending
<1>9. CASE n = synced
  <2>1. Disk' = Disk
    BY <1>7, <1>9 DEF Disk
  <2>2. Storage!Crash
    BY <1>1, <1>6, <2>1 DEF Storage!Crash
  <2> QED BY <2>2 DEF Storage!Next
<1>10. CASE n # synced
  <2>1. n - synced \in 1..m /\ synced + (n - synced) = n
    BY <1>2, <1>10
  <2>2. Disk' = Pending[n - synced] /\ n - synced \in 1..Len(Pending)
    BY <1>7, <1>8, <2>1
  <2>3. Storage!Crash
    BY <1>1, <1>6, <2>2 DEF Storage!Crash
  <2> QED BY <2>3 DEF Storage!Next
<1> QED BY <1>9, <1>10

\* A restart drops a torn line, which held nothing, or starts the file anew when
\* it holds nothing at all: then the header's line is one that is not synced.
LEMMA RestartWrites ==
  ASSUME Inv, PowerInv, Restart
  PROVE  Storage!Next \/ UNCHANGED Storage!vars
<1> DEFINE fixed == file'
           v == Brought(Found, snapshots)
<1>1. /\ pc = "down" /\ fixed = Repaired(file) /\ snapshots' = snapshots /\ told' = told
      /\ synced' = IF synced < Len(fixed) THEN synced ELSE Len(fixed)
  BY DEF Restart, history
<1>2. synced = Len(file)
  BY <1>1 DEF PowerInv
<1>3. /\ FileSound(file, Len(file), decided) /\ decided \in Seq(1..MaxTerm)
      /\ file \in Seq(FileLine) /\ Len(file) \in Nat
      /\ ValidPrefix(file) \in 0..Len(file) /\ ValidPrefix(file) >= Len(file) - 1
      /\ LinesKeep(told, file, Len(file)) /\ Found = Finds(file)
  BY <1>2, DiskParts, ValidLines DEF PowerInv, Found
<1>4. Disk' = Recovered(fixed, synced', snapshots)
      /\ Pending' = Unsynced(fixed, synced', snapshots)
  BY <1>1 DEF Disk, Pending
<1>5. Disk = Recovered(file, Len(file), snapshots)
      /\ Pending = Unsynced(file, Len(file), snapshots)
  BY <1>2 DEF Disk, Pending
<1> HIDE DEF fixed
<1>6. Disk = v /\ Pending = <<>>
  BY <1>3, <1>5, SyncedParts
<1>7. synced' = IF Len(file) < Len(fixed) THEN Len(file) ELSE Len(fixed)
  BY <1>1, <1>2
<1>8. /\ FileSound(fixed, synced', decided) /\ AllWhole(fixed) /\ Finds(fixed) = Found
      /\ ValidPrefix(file) = 0 => fixed = Lines(<<HeaderRecord>>)
      /\ ValidPrefix(file) # 0 => fixed = SubSeq(file, 1, ValidPrefix(file))
  <2> DEFINE now == synced'
  <2>1. FileSound(file, Len(file), decided) /\ decided \in Seq(1..MaxTerm)
    BY <1>3
  <2>2. fixed = Repaired(file)
    BY <1>1
  <2>3. now = IF Len(file) < Len(fixed) THEN Len(file) ELSE Len(fixed)
    BY <1>7
  <2> HIDE DEF now
  <2>4. /\ FileSound(fixed, now, decided) /\ AllWhole(fixed) /\ Finds(fixed) = Finds(file)
        /\ ValidPrefix(file) = 0 => fixed = Lines(<<HeaderRecord>>)
        /\ ValidPrefix(file) # 0 => fixed = SubSeq(file, 1, ValidPrefix(file))
    BY ONLY <2>1, <2>2, <2>3, RepairedSound
  <2> QED BY <1>3, <2>4 DEF now
<1>9. CASE synced' = Len(fixed)
  <2>1. FileSound(fixed, Len(fixed), decided)
    BY <1>8, <1>9
  <2>2. Disk' = Recovered(fixed, Len(fixed), snapshots)
        /\ Pending' = Unsynced(fixed, Len(fixed), snapshots)
    BY <1>4, <1>9
  <2>3. Disk' = v /\ Pending' = <<>>
    BY <1>8, <2>1, <2>2, SyncedParts
  <2> QED BY <1>1, <1>6, <2>3 DEF Storage!vars
<1>10. CASE synced' # Len(fixed)
  <2>1. ValidPrefix(file) = 0
    <3>1. ValidPrefix(file) # 0 => Len(fixed) = ValidPrefix(file)
      BY <1>3, <1>8, Beginning
    <3> QED BY <1>3, <1>7, <1>10, <3>1
  <2>2. fixed \in Seq(FileLine) /\ Len(fixed) = 1
    BY <1>8, <2>1, HeaderAlone
  <2>3. Len(file) = 0 /\ synced' = 0
    BY <1>3, <1>7, <1>10, <2>1, <2>2
  <2>4. \A k \in 0..Len(file) : SubSeq(fixed, 1, k) = SubSeq(file, 1, k)
    BY <2>3, SubSeqEmpty
  <2>5. 0 \in 0..Len(file) /\ Len(fixed) = Len(file) + 1
    BY <2>2, <2>3
  <2>6. /\ Disk' = Disk /\ Len(Pending') = Len(Pending) + 1
        /\ Pending'[Len(Pending')] = Recovered(fixed, Len(fixed), snapshots)
        /\ Pending' = Append(Pending, Pending'[Len(Pending')])
    <3>1. /\ Disk' = Recovered(fixed, 0, snapshots) /\ Pending' = Unsynced(fixed, 0, snapshots)
          /\ Disk = Recovered(file, 0, snapshots) /\ Pending = Unsynced(file, 0, snapshots)
      BY <1>4, <1>5, <2>3
    <3> DEFINE z == 0
               us == Unsynced(file, z, snapshots)
               vs == Unsynced(fixed, z, snapshots)
    <3>2. z \in 0..Len(file)
      BY <2>5
    <3>3. file \in Seq(FileLine) /\ fixed \in Seq(FileLine) /\ Len(fixed) = Len(file) + 1
      BY <1>3, <2>2, <2>5
    <3>4. Disk' = Recovered(fixed, z, snapshots) /\ Disk = Recovered(file, z, snapshots)
          /\ Pending' = vs /\ Pending = us
      BY <3>1
    <3> HIDE DEF z
    <3>5. /\ Recovered(fixed, z, snapshots) = Recovered(file, z, snapshots)
          /\ Len(vs) = Len(us) + 1 /\ vs[Len(vs)] = Recovered(fixed, Len(fixed), snapshots)
          /\ vs = Append(us, vs[Len(vs)])
      BY ONLY <2>4, <3>2, <3>3, OneMore
    <3> HIDE DEF us, vs
    <3> QED BY <3>4, <3>5
  <2>7. Recovered(fixed, Len(fixed), snapshots) = v
    BY <1>8, BringsAll
  <2>8. Storage!Writable(v)
    <3>1. Sound(Found, decided) /\ SavedSound(snapshots, decided)
      BY DiskParts
    <3>2. Found.base # 0 => Found.base \in DOMAIN snapshots
      BY DiskParts
    <3>3. Found.term \in Nat /\ Found.commit \in Nat
      BY <3>1, BoundAssumption DEF Sound, Recovery
    <3>4. Keeps(told, Found.term, Found.voted_for)
      BY <1>3, FoundKeeps
    <3>5. Found.term <= Found.term /\ Found.commit <= Found.commit
      BY <3>3
    <3> QED BY <3>1, <3>2, <3>4, <3>5, MayBeWritten
  <2> HIDE DEF v
  <2>9. Storage!Write
    BY <1>1, <2>6, <2>7, <2>8 DEF Storage!Write
  <2> QED BY <2>9 DEF Storage!Next
<1> QED BY <1>9, <1>10

\* Every step is one of the storage's, or none.
LEMMA NextWrites ==
  ASSUME Faults \subseteq {"power"}, TornForms \subseteq {"torn"},
         Inv, Inv', PowerInv, [Next]_vars
  PROVE  Storage!Next \/ UNCHANGED Storage!vars
<1>1. CASE \/ \E v \in Voter \cup {Nil} : EnterTerm(v)
           \/ \E v \in Voter : CastVote(v)
           \/ ApplyCommitted \/ UNCHANGED vars
  <2>1. UNCHANGED <<file, synced, snapshots, told>>
    BY <1>1 DEF EnterTerm, CastVote, ApplyCommitted, vars, diskVars, history
  <2> QED BY <2>1, NothingWritten
<1>2. CASE \E t \in 1..MaxTerm : AppendEntry(t)
  BY <1>2, AppendEntryWrites
<1>3. CASE \E i \in 1..MaxIndex : TruncateFrom(i) \/ AdvanceCommit(i)
  <2>1. PICK i \in 1..MaxIndex : TruncateFrom(i) \/ AdvanceCommit(i)
    BY <1>3
  <2>2. i \in Nat
    OBVIOUS
  <2>3. AdvanceCommit(i) => UNCHANGED <<file, synced, snapshots, told>>
    BY DEF AdvanceCommit, diskVars
  <2> QED BY <2>1, <2>2, <2>3, NothingWritten, TruncateFromWrites
<1>4. CASE PersistVote \/ PersistCommit \/ SyncAndSend
  BY <1>4, PersistVoteWrites, PersistCommitWrites, SyncAndSendTells
<1>5. CASE SaveSnapshot \/ Compact \/ Prune
  BY <1>5, SaveSnapshotWrites, CompactRewrites, PruneWrites
<1>6. CASE PowerLoss \/ Restart
  BY <1>6, PowerLossCrashes, RestartWrites
<1>7. ~ Kill
  BY DEF Kill
<1> QED BY <1>1, <1>2, <1>3, <1>4, <1>5, <1>6, <1>7 DEF Next

\* A node that starts for the first time has told nothing and has nothing on
\* disk, but for a header not yet synced.
LEMMA InitStorage ==
  ASSUME Init
  PROVE  PowerInv /\ Storage!Init
<1> DEFINE none == [term |-> 0, voted_for |-> Nil, log |-> <<>>, commit |-> 0]
           T == {none}
<1>1. /\ file = Lines(<<HeaderRecord>>) /\ synced = 0 /\ dirty = TRUE
      /\ snapshots = [i \in {} |-> <<>>] /\ pc = "idle" /\ told = none
      /\ term = 0 /\ voted_for = Nil
  BY DEF Init
<1>2. /\ file \in Seq(FileLine) /\ Len(file) = 1 /\ AllWhole(file) /\ ValidPrefix(file) = 1
      /\ Until(file, 0) = NothingRecovered /\ Until(file, 1) = NothingRecovered
  BY <1>1, HeaderAlone
<1>3. FileSound(file, 0, decided)
  BY <1>1, InitInv DEF Inv, FilesSound
<1>4. told.term = 0 /\ told.voted_for = Nil
  BY <1>1
<1>5. NothingRecovered.term = 0 /\ Keeps(told, 0, Nil)
  BY <1>4 DEF NothingRecovered, Keeps
<1>6. LinesKeep(told, file, 0)
  <2> SUFFICES ASSUME NEW n \in 0..1
               PROVE  Keeps(told, Until(file, n).term, Until(file, n).voted_for)
    BY <1>2 DEF LinesKeep
  <2>1. n = 0 \/ n = 1
    OBVIOUS
  <2>2. Until(file, n) = NothingRecovered
    BY <1>2, <2>1
  <2> QED BY <1>4, <2>2 DEF NothingRecovered, Keeps
<1>7. PowerInv
  BY <1>1, <1>4, <1>5, <1>6 DEF PowerInv
<1>8. Brought(NothingRecovered, snapshots) = none
  BY <1>1 DEF Brought, NothingRecovered, RecoveredLog
<1>9. ASSUME NEW n \in 0..1 PROVE Recovered(file, n, snapshots) = none
  <2>1. n = 0 \/ n = 1
    OBVIOUS
  <2>2. n \in 0..Len(file)
    BY <1>2
  <2>3. Recovered(file, n, snapshots) = Brought(Until(file, n), snapshots)
    BY <1>2, <1>3, <2>2, Brings
  <2> QED BY <1>2, <1>8, <2>1, <2>3
<1> HIDE DEF none
<1>10. Disk = none
  BY <1>1, <1>9 DEF Disk
<1>11. Pending = <<none>>
  <2> DEFINE us == [k \in 1..1 |-> Recovered(file, 0 + k, snapshots)]
  <2>1. Pending = us
    BY <1>1, <1>2 DEF Pending, Unsynced
  <2>2. us = [k \in 1..1 |-> none]
    <3>1. \A k \in 1..1 : Recovered(file, 0 + k, snapshots) = none
      <4> TAKE k \in 1..1
      <4>1. 0 + k \in 0..1
        OBVIOUS
      <4> QED BY <1>9, <4>1
    <3> QED BY <3>1
  <2> HIDE DEF us
  <2>3. us \in [1..1 -> T]
    BY <2>2
  <2>4. us \in Seq(T) /\ Len(us) = 1
    BY <2>3, Listed
  <2>5. us = <<none>>
    <3>1. <<none>> \in Seq(T) /\ Len(<<none>>) = 1 /\ us[1] = <<none>>[1]
      BY <2>2
    <3> QED BY <2>4, <3>1, SameSequence
  <2> QED BY <2>1, <2>5
<1>12. Storage!Init
  BY <1>1, <1>10, <1>11 DEF Storage!Init, none
<1> QED BY <1>7, <1>12

\* The write-ahead log and the snapshots implement stable storage: a record adds
\* a state that a crash may lose, a sync makes the last one stable before anyone
\* is told of it, a compaction changes nothing but where it is, and a power loss
\* falls back to a state written since the last sync, or to that sync's.
THEOREM ImplementsStorage ==
  ASSUME Faults \subseteq {"power"}, TornForms \subseteq {"torn"}, MaxOrphans < Keep
  PROVE  Spec => Storage!Spec
<1>1. Init => Inv /\ PowerInv /\ Storage!Init
  BY InitInv, InitStorage
<1>2. Inv /\ [Next]_vars => Inv'
  BY NextKeeps
<1>3. Inv /\ Inv' /\ PowerInv /\ [Next]_vars => PowerInv'
  BY NextPower
<1>4. Inv /\ Inv' /\ PowerInv /\ [Next]_vars => [Storage!Next]_Storage!vars
  BY NextWrites
<1> QED BY <1>1, <1>2, <1>3, <1>4, PTL DEF Spec, Storage!Spec

-----------------------------------------------------------------------------
(***************************************************************************)
(* Stable storage keeps its promise, for any number of votes, terms,       *)
(* entries and crashes.  Nothing here looks at the files: what is on disk  *)
(* and what is pending may be any states.                                  *)
(***************************************************************************)
\* A state extends itself once its commit index is within its log.
LEMMA StateExtendsItself ==
    ASSUME NEW v \in Storage!State, v.commit <= Len(v.log)
    PROVE  Storage!Extends(v, v) /\ Storage!KeepsVote(v, v)
BY DEF Storage!Extends, Storage!KeepsVote, Storage!State

\* What extends an extension extends: the committed entries are the same ones.
LEMMA StateExtendsOn ==
    ASSUME NEW u \in Storage!State, NEW v \in Storage!State, NEW w \in Storage!State,
           Storage!Extends(u, v), Storage!Extends(v, w)
    PROVE  Storage!Extends(u, w)
<1>1. u.term <= w.term /\ u.commit <= w.commit
  BY DEF Storage!Extends, Storage!State
<1>2. ASSUME NEW i \in 1..u.commit
      PROVE  w.log[i] = u.log[i]
  <2>1. i \in 1..v.commit
    BY <1>2 DEF Storage!Extends, Storage!State
  <2>2. v.log[i] = u.log[i] /\ w.log[i] = v.log[i]
    BY <1>2, <2>1 DEF Storage!Extends
  <2> QED
    BY <2>2
<1> QED
  BY <1>1, <1>2 DEF Storage!Extends

\* The last state written is a state, and one that the promise covers.
LEMMA CurrentIsCovered ==
    ASSUME Storage!TypeOK, Storage!ToldSurvives
    PROVE  /\ Storage!Current \in Storage!State
           /\ Storage!Extends(told, Storage!Current)
           /\ Storage!KeepsVote(told, Storage!Current)
<1>1. CASE Pending = <<>>
  BY <1>1 DEF Storage!TypeOK, Storage!ToldSurvives, Storage!Current
<1>2. CASE Pending # <<>>
  <2>1. Len(Pending) \in 1..Len(Pending)
    BY <1>2 DEF Storage!TypeOK
  <2> QED
    BY <1>2, <2>1 DEF Storage!TypeOK, Storage!ToldSurvives, Storage!Current
<1> QED
  BY <1>1, <1>2

StorageInv == Storage!TypeOK /\ Storage!ToldSurvives

\* Nothing written so far and nothing told: the promise is about state 0.
LEMMA StorageBegins == Storage!Init => StorageInv
<1> SUFFICES ASSUME Storage!Init PROVE StorageInv
  OBVIOUS
<1>1. Disk \in Storage!State /\ Disk.commit <= Len(Disk.log)
  BY DEF Storage!Init, Storage!State
<1>2. Storage!Extends(Disk, Disk) /\ Storage!KeepsVote(Disk, Disk)
  BY <1>1, StateExtendsItself
<1>3. CASE Pending = <<>>
  BY <1>1, <1>2, <1>3 DEF Storage!Init, StorageInv, Storage!TypeOK, Storage!ToldSurvives
<1>4. CASE Pending = <<Disk>>
  BY <1>1, <1>2, <1>4 DEF Storage!Init, StorageInv, Storage!TypeOK, Storage!ToldSurvives
<1> QED
  BY <1>3, <1>4 DEF Storage!Init

\* A state that may be written is one that the promise covers.
LEMMA WritableIsCovered ==
    ASSUME StorageInv, NEW v, Storage!Writable(v)
    PROVE  v \in Storage!State /\ Storage!Extends(told, v) /\ Storage!KeepsVote(told, v)
<1>1. v \in Storage!State /\ Storage!Extends(Storage!Current, v) /\ Storage!KeepsVote(told, v)
  BY DEF Storage!Writable
<1>2. Storage!Current \in Storage!State /\ Storage!Extends(told, Storage!Current)
  BY CurrentIsCovered DEF StorageInv
<1>3. told \in Storage!State
  BY DEF StorageInv, Storage!TypeOK
<1> QED
  BY <1>1, <1>2, <1>3, StateExtendsOn

LEMMA StorageWriteKeepsInv == StorageInv /\ Storage!Write => StorageInv'
<1> SUFFICES ASSUME StorageInv, Storage!Write PROVE StorageInv'
  OBVIOUS
<1> DEFINE v == Pending'[Len(Pending')]
<1>1. v \in Storage!State /\ Storage!Extends(told, v) /\ Storage!KeepsVote(told, v)
  BY WritableIsCovered DEF Storage!Write
<1>2. Pending' = Append(Pending, v) /\ Disk' = Disk /\ told' = told
  BY DEF Storage!Write
<1>3. Storage!TypeOK'
  BY <1>1, <1>2 DEF StorageInv, Storage!TypeOK
<1>4. \A k \in 1..Len(Pending') : Pending'[k] = v \/ \E j \in 1..Len(Pending) : Pending'[k] = Pending[j]
  BY <1>2 DEF StorageInv, Storage!TypeOK
<1>5. Storage!ToldSurvives'
  BY <1>1, <1>2, <1>4 DEF StorageInv, Storage!ToldSurvives, Storage!Extends, Storage!KeepsVote
<1> QED
  BY <1>3, <1>5 DEF StorageInv

LEMMA StorageSyncKeepsInv == StorageInv /\ Storage!SyncAndTell => StorageInv'
<1> SUFFICES ASSUME StorageInv, Storage!SyncAndTell PROVE StorageInv'
  OBVIOUS
<1>1. Storage!Current \in Storage!State /\ Storage!Extends(told, Storage!Current)
  BY CurrentIsCovered DEF StorageInv
<1>2. Storage!Current.commit <= Len(Storage!Current.log)
  BY <1>1 DEF Storage!Extends
<1>3. Storage!Extends(Storage!Current, Storage!Current) /\ Storage!KeepsVote(Storage!Current, Storage!Current)
  BY <1>1, <1>2, StateExtendsItself
<1>4. Disk' = Storage!Current /\ Pending' = <<>> /\ told' = Storage!Current
  BY DEF Storage!SyncAndTell
<1> QED
  BY <1>1, <1>3, <1>4 DEF StorageInv, Storage!TypeOK, Storage!ToldSurvives

LEMMA StorageRewriteKeepsInv == StorageInv /\ Storage!Rewrite => StorageInv'
<1> SUFFICES ASSUME StorageInv, Storage!Rewrite PROVE StorageInv'
  OBVIOUS
<1>1. Disk' \in Storage!State /\ Storage!Extends(told, Disk') /\ Storage!KeepsVote(told, Disk')
  BY WritableIsCovered DEF Storage!Rewrite
<1>2. Pending' = <<>> /\ told' = told
  BY DEF Storage!Rewrite
<1> QED
  BY <1>1, <1>2 DEF StorageInv, Storage!TypeOK, Storage!ToldSurvives

LEMMA StorageCrashKeepsInv == StorageInv /\ Storage!Crash => StorageInv'
<1> SUFFICES ASSUME StorageInv, Storage!Crash PROVE StorageInv'
  OBVIOUS
<1>1. Disk' \in {Disk} \cup {Pending[k] : k \in 1..Len(Pending)}
  BY DEF Storage!Crash
<1>2. Disk' \in Storage!State /\ Storage!Extends(told, Disk') /\ Storage!KeepsVote(told, Disk')
  BY <1>1 DEF StorageInv, Storage!TypeOK, Storage!ToldSurvives
<1>3. Pending' = <<>> /\ told' = told
  BY DEF Storage!Crash
<1> QED
  BY <1>2, <1>3 DEF StorageInv, Storage!TypeOK, Storage!ToldSurvives

\* Whatever is told survives every sequence of writes, rewrites and crashes.
LEMMA StorageKeepsWhatIsTold == Storage!Spec => []Storage!ToldSurvives
<1>1. StorageInv /\ UNCHANGED Storage!vars => StorageInv'
  BY DEF StorageInv, Storage!TypeOK, Storage!ToldSurvives, Storage!Extends, Storage!KeepsVote, Storage!vars
<1>2. StorageInv /\ [Storage!Next]_Storage!vars => StorageInv'
  BY <1>1, StorageWriteKeepsInv, StorageSyncKeepsInv, StorageRewriteKeepsInv, StorageCrashKeepsInv DEF Storage!Next
<1>3. StorageInv => Storage!ToldSurvives
  BY DEF StorageInv
<1> QED
  BY StorageBegins, <1>2, <1>3, PTL DEF Storage!Spec

\* Nothing a node has told anyone can be forgotten: whatever its files may come
\* back with has the terms, the vote and the committed entries told.
THEOREM NothingToldIsLost ==
  ASSUME Faults \subseteq {"power"}, TornForms \subseteq {"torn"}, MaxOrphans < Keep
  PROVE  Spec => []Storage!ToldSurvives
<1> QED BY ImplementsStorage, StorageKeepsWhatIsTold, PTL

-----------------------------------------------------------------------------
(***************************************************************************)
(* The loop that merges a batch (AppendLoop).                              *)
(***************************************************************************)
MergeEntry == [term : Nat]
Kept == KeptLength(initial, prev, batch)
Differ == Disagreements(initial, prev, batch)

LoopTyped ==
    /\ initial \in Seq(MergeEntry) /\ batch \in Seq(MergeEntry) /\ merging \in Seq(MergeEntry)
    /\ prev \in 0..Len(initial) /\ next \in 1..Len(batch) + 1

\* Before the first disagreement nothing has changed.
StillEqual == merging = initial /\ \A j \in Differ : next <= j

\* From there on the log is what the merge makes of it, up to the entry before the
\* next of the batch.
AsMerged ==
    /\ Differ # {} /\ Len(merging) = prev + next - 1
    /\ Len(merging) \in Kept..Len(Merged) /\ merging = SubSeq(Merged, 1, Len(merging))

LoopInv == LoopTyped /\ (StillEqual \/ AsMerged)

\* What the closed form is, entry by entry.
LEMMA MergedParts ==
  ASSUME LoopTyped
  PROVE  /\ Kept \in prev..Len(initial) /\ Merged \in Seq(MergeEntry)
         /\ Differ = {} => Merged = initial /\ Kept = Len(initial)
         /\ Differ # {} =>
              /\ Len(Merged) = prev + Len(batch) /\ Kept < Len(Merged)
              /\ \A i \in 1..Kept : Merged[i] = initial[i]
              /\ \A i \in Kept + 1..Len(Merged) : Merged[i] = batch[i - prev]
              /\ Kept + 1 - prev \in Differ
              /\ \A j \in Differ : Kept + 1 - prev <= j
<1>1. /\ initial \in Seq(MergeEntry) /\ batch \in Seq(MergeEntry) /\ prev \in 0..Len(initial)
      /\ Len(initial) \in Nat /\ Len(batch) \in Nat /\ Differ \subseteq 1..Len(batch)
  BY LenProperties DEF LoopTyped, Differ, Disagreements
<1>2. Kept \in prev..Len(initial) /\ (Differ # {} => Kept - prev < Len(batch))
  BY <1>1, KeptLengthBounds DEF Kept, Differ
<1>3. CASE Differ = {}
  BY <1>1, <1>2, <1>3 DEF Merged, AppendNewEntries, Kept, KeptLength, Differ
<1>4. CASE Differ # {}
  <2> DEFINE m == Min(Differ)
             head == SubSeq(initial, 1, Kept)
             tail == SubSeq(batch, Kept - prev + 1, Len(batch))
  <2>1. m \in Differ /\ \A j \in Differ : m <= j
    <3>1. Differ \in SUBSET Nat
      BY <1>1
    <3> QED BY <1>4, <3>1, MinIsLeast
  <2>2. Kept = prev + m - 1
    BY <1>4 DEF Kept, KeptLength, Differ
  <2>3. Kept + 1 - prev = m
    <3>1. \A j \in Differ : j \in Nat
      BY <1>1
    <3> HIDE DEF m
    <3>2. m \in Nat /\ prev \in Nat
      BY <1>1, <2>1, <3>1
    <3> QED BY <2>2, <3>2
  <2>4. Merged = head \o tail
    BY <1>4 DEF Merged, AppendNewEntries, Differ, Kept
  <2>5. /\ head \in Seq(MergeEntry) /\ Len(head) = Kept
        /\ \A i \in 1..Kept : head[i] = initial[i]
    BY <1>1, <1>2, SubSeqProperties
  <2> DEFINE from == Kept - prev + 1
  <2>6. /\ tail \in Seq(MergeEntry) /\ Len(tail) = prev + Len(batch) - Kept
        /\ \A i \in 1..Len(tail) : tail[i] = batch[Kept - prev + i]
    <3>1. from \in 1..Len(batch) /\ \A i \in from..Len(batch) : batch[i] \in MergeEntry
      BY <1>1, <1>2, <1>4
    <3> HIDE DEF from
    <3>2. LET t == SubSeq(batch, from, Len(batch)) IN
             /\ t \in Seq(MergeEntry) /\ Len(t) = Len(batch) - from + 1
             /\ \A i \in 1..Len(batch) - from + 1 : t[i] = batch[from + i - 1]
      BY <1>1, <3>1, SubSeqProperties
    <3>3. from = Kept - prev + 1
      BY DEF from
    <3> QED BY <1>1, <1>2, <3>2, <3>3
  <2> HIDE DEF head, tail, m, from
  <2>7. /\ head \o tail \in Seq(MergeEntry) /\ Len(head \o tail) = Len(head) + Len(tail)
        /\ \A i \in 1..Len(head) + Len(tail) :
              (head \o tail)[i] = IF i <= Len(head) THEN head[i] ELSE tail[i - Len(head)]
    BY <2>5, <2>6, ConcatProperties, Zenon
  <2>8. Merged \in Seq(MergeEntry) /\ Len(Merged) = prev + Len(batch) /\ Kept < Len(Merged)
    <3>1. Kept \in Nat /\ prev \in Nat /\ Len(batch) \in Nat /\ Kept - prev < Len(batch)
      BY <1>1, <1>2, <1>4
    <3>2. Len(Merged) = Len(head) + Len(tail) /\ Merged \in Seq(MergeEntry)
      BY <2>4, <2>7
    <3>3. Len(Merged) = prev + Len(batch)
      BY <2>5, <2>6, <3>1, <3>2
    <3> QED BY <3>1, <3>2, <3>3
  <2>9. ASSUME NEW i \in 1..Kept PROVE Merged[i] = initial[i]
    BY <1>1, <1>2, <2>4, <2>5, <2>6, <2>7, <2>8
  <2>10. ASSUME NEW i \in Kept + 1..Len(Merged) PROVE Merged[i] = batch[i - prev]
    <3>1. i - Kept \in 1..Len(tail) /\ Kept - prev + (i - Kept) = i - prev
      BY <1>1, <1>2, <2>6, <2>8
    <3>2. Merged[i] = tail[i - Kept]
      BY <1>1, <1>2, <2>4, <2>5, <2>6, <2>7, <2>8
    <3> QED BY <2>6, <3>1, <3>2
  <2> QED BY <1>2, <1>4, <2>1, <2>3, <2>8, <2>9, <2>10
<1> QED BY <1>3, <1>4

\* Who has the same entries is the beginning.
LEMMA BeginningIs ==
  ASSUME NEW E, NEW s \in Seq(E), NEW t \in Seq(E), Len(s) <= Len(t),
         \A i \in 1..Len(s) : s[i] = t[i]
  PROVE  s = SubSeq(t, 1, Len(s))
<1>1. Len(s) \in 0..Len(t)
  BY LenProperties
<1> QED BY <1>1, Beginning, SeqEqual

LEMMA InitLoop == LoopInit => LoopInv
<1> SUFFICES ASSUME LoopInit PROVE LoopInv
  OBVIOUS
<1>1. \A lg \in Logs : lg \in Seq(MergeEntry) /\ Len(lg) \in Nat
  <2> SUFFICES ASSUME NEW lg \in Logs PROVE lg \in Seq(MergeEntry) /\ Len(lg) \in Nat
    OBVIOUS
  <2>1. PICK k \in 0..MaxMergeLen : lg \in [1..k -> [term : 1..MaxMergeTerm]]
    BY DEF Logs
  <2>2. k \in Nat /\ \A i \in 1..k : lg[i] \in MergeEntry
    BY <2>1 DEF MergeEntry
  <2>3. lg \in [1..k -> MergeEntry]
    BY <2>1, <2>2
  <2>4. lg \in Seq(MergeEntry)
    BY <2>2, <2>3, SeqDef
  <2> QED BY <2>4, LenProperties
<1>2. LoopTyped
  BY <1>1 DEF LoopInit, LoopTyped
<1>3. StillEqual
  BY <1>1 DEF LoopInit, StillEqual, Differ, Disagreements
<1> QED BY <1>2, <1>3 DEF LoopInv

\* The loop meets the first disagreement where the merge cuts the log.
LEMMA FirstDiffers ==
  ASSUME LoopTyped, next \in Differ, \A j \in Differ : next <= j
  PROVE  next = Kept + 1 - prev /\ Kept = prev + next - 1 /\ Kept \in Nat /\ prev \in Nat
<1> DEFINE m == Kept + 1 - prev
<1>1. m \in Differ /\ \A j \in Differ : m <= j
  BY MergedParts
<1>2. next <= m /\ m <= next /\ next \in Nat /\ prev \in Nat /\ Kept \in Nat
  <2>1. Len(initial) \in Nat
    BY LenProperties DEF LoopTyped
  <2>2. next \in Nat /\ prev \in Nat
    BY DEF LoopTyped
  <2>3. Kept \in Nat
    BY <2>1, <2>2, MergedParts
  <2> HIDE DEF m
  <2> QED BY <1>1, <2>2, <2>3
<1> QED BY <1>2

\* The step at the first disagreement, or after it, appends what the merge has there.
LEMMA AppendMissingKeeps ==
  ASSUME LoopInv, AppendMissing
  PROVE  LoopInv'
<1>1. /\ LoopTyped /\ next \in 1..Len(batch) /\ Len(merging) \in Nat /\ Len(batch) \in Nat
      /\ Len(initial) \in Nat /\ batch[next] \in MergeEntry /\ prev + next > Len(merging)
      /\ UNCHANGED <<initial, prev, batch>> /\ next' = next + 1
      /\ merging' = Append(merging, batch[next])
  BY LenProperties DEF LoopInv, LoopTyped, AppendMissing, Index
<1>2. /\ merging' \in Seq(MergeEntry) /\ Len(merging') = Len(merging) + 1
      /\ \A i \in 1..Len(merging) : merging'[i] = merging[i]
      /\ merging'[Len(merging) + 1] = batch[next]
  BY <1>1, AppendProperties DEF LoopTyped
<1>3. LoopTyped'
  BY <1>1, <1>2 DEF LoopTyped
<1>4. /\ Merged' = Merged /\ Kept' = Kept /\ Differ' = Differ
  BY <1>1 DEF Merged, Kept, Differ
<1>5. /\ Differ # {} /\ Len(merging) = prev + next - 1 /\ Kept <= Len(merging)
      /\ \A i \in 1..Len(merging) : merging[i] = Merged[i]
  <2>1. CASE StillEqual
    <3>1. next \in Differ
      BY <1>1, <2>1 DEF StillEqual, Differ, Disagreements, HasEntry
    <3>2. next = Kept + 1 - prev /\ Kept \in Nat /\ prev \in Nat
      BY <1>1, <2>1, <3>1, FirstDiffers DEF StillEqual
    <3>3. Len(merging) = Kept
      <4>1. Kept <= Len(merging)
        BY <1>1, <2>1, MergedParts DEF StillEqual
      <4> QED BY <1>1, <3>2, <4>1
    <3>4. \A i \in 1..Kept : Merged[i] = initial[i]
      BY <1>1, <3>1, MergedParts
    <3> QED BY <1>1, <2>1, <3>1, <3>2, <3>3, <3>4 DEF StillEqual
  <2>2. CASE AsMerged
    <3>1. Len(merging) <= Len(Merged) /\ Kept <= Len(merging)
      BY <1>1, <2>2, MergedParts DEF AsMerged
    <3>2. Merged \in Seq(MergeEntry) /\ Len(merging) \in 0..Len(Merged)
      BY <1>1, <3>1, MergedParts, LenProperties
    <3>3. \A i \in 1..Len(merging) : SubSeq(Merged, 1, Len(merging))[i] = Merged[i]
      BY <3>2, Beginning
    <3> QED BY <2>2, <3>1, <3>3 DEF AsMerged
  <2> QED BY <2>1, <2>2 DEF LoopInv
<1>m. /\ Merged \in Seq(MergeEntry) /\ Len(Merged) \in Nat /\ Len(Merged) = prev + Len(batch)
      /\ Kept \in Nat /\ prev \in Nat
      /\ \A i \in Kept + 1..Len(Merged) : Merged[i] = batch[i - prev]
  <2>1. prev \in Nat
    BY <1>1 DEF LoopTyped
  <2>2. Kept \in Nat
    BY <1>1, <2>1, MergedParts
  <2> QED BY <1>1, <1>5, <2>1, <2>2, MergedParts
<1>6. /\ Len(merging') = prev + next /\ Len(merging') \in Nat
      /\ Kept <= Len(merging') /\ Len(merging') <= Len(Merged)
  BY <1>1, <1>2, <1>5, <1>m
<1>7. ASSUME NEW i \in 1..Len(merging') PROVE merging'[i] = Merged[i]
  <2>1. CASE i <= Len(merging)
    <3>1. i \in 1..Len(merging)
      BY <1>1, <1>2, <2>1
    <3> QED BY <1>2, <1>5, <3>1
  <2>2. CASE ~ (i <= Len(merging))
    <3>1. i = Len(merging) + 1 /\ i - prev = next /\ i \in Kept + 1..Len(Merged)
      BY <1>1, <1>2, <1>5, <1>6, <1>m, <2>2
    <3> QED BY <1>2, <1>m, <3>1
  <2> QED BY <2>1, <2>2
<1>8. merging' = SubSeq(Merged, 1, Len(merging'))
  BY <1>2, <1>6, <1>7, <1>m, BeginningIs
<1>9. AsMerged'
  <2>1. Len(merging') = prev + next' - 1 /\ Len(merging') \in Kept..Len(Merged)
    BY <1>1, <1>6, <1>m
  <2> QED BY <1>1, <1>4, <1>5, <1>8, <2>1 DEF AsMerged
<1> QED BY <1>3, <1>9 DEF LoopInv

\* The log is cut at the first disagreement, once.
LEMMA TruncateConflictKeeps ==
  ASSUME LoopInv, TruncateConflict
  PROVE  LoopInv'
<1>1. /\ LoopTyped /\ next \in 1..Len(batch) /\ Len(merging) \in Nat /\ Len(batch) \in Nat
      /\ Len(initial) \in Nat /\ prev + next <= Len(merging)
      /\ TermAt(merging, prev + next) # batch[next].term
      /\ UNCHANGED <<initial, prev, batch, next>>
      /\ merging' = SubSeq(merging, 1, prev + next - 1)
  BY LenProperties DEF LoopInv, LoopTyped, TruncateConflict, Index
<1>2. /\ Merged' = Merged /\ Kept' = Kept /\ Differ' = Differ
  BY <1>1 DEF Merged, Kept, Differ
<1>3. StillEqual
  <2>1. ~ AsMerged
    BY <1>1 DEF AsMerged, LoopTyped
  <2> QED BY <2>1 DEF LoopInv
<1>4. next \in Differ /\ next = Kept + 1 - prev /\ Kept = prev + next - 1
  <2>1. next \in Differ
    BY <1>1, <1>3 DEF StillEqual, Differ, Disagreements, HasEntry
  <2> QED BY <1>1, <1>3, <2>1, FirstDiffers DEF StillEqual
<1>5. /\ merging' \in Seq(MergeEntry) /\ Len(merging') = Kept
      /\ \A i \in 1..Kept : merging'[i] = initial[i]
  <2>1. Kept \in Nat /\ Kept <= Len(initial) /\ merging' = SubSeq(initial, 1, Kept)
    <3>1. Kept \in prev..Len(initial) /\ Kept \in Nat
      BY <1>1, <1>3, <1>4, MergedParts, FirstDiffers DEF StillEqual
    <3> QED BY <1>1, <1>3, <1>4, <3>1 DEF StillEqual
  <2>2. initial \in Seq(MergeEntry)
    BY <1>1 DEF LoopTyped
  <2> HIDE DEF Kept
  <2> QED BY <2>1, <2>2, <1>1, SubSeqProperties
<1>m. /\ Kept \in Nat /\ Len(Merged) \in Nat /\ Kept < Len(Merged)
      /\ Merged \in Seq(MergeEntry) /\ \A i \in 1..Kept : Merged[i] = initial[i]
  <2>1. Kept \in Nat
    BY <1>1, <1>3, <1>4, FirstDiffers DEF StillEqual
  <2>2. Merged \in Seq(MergeEntry) /\ Kept < Len(Merged) /\ \A i \in 1..Kept : Merged[i] = initial[i]
    BY <1>1, <1>4, MergedParts
  <2> QED BY <2>1, <2>2, LenProperties
<1>6. merging' = SubSeq(Merged, 1, Len(merging'))
  <2>1. Len(merging') <= Len(Merged) /\ \A i \in 1..Len(merging') : merging'[i] = Merged[i]
    BY <1>5, <1>m
  <2> QED BY <1>5, <1>m, <2>1, BeginningIs
<1>7. LoopTyped'
  BY <1>1, <1>5 DEF LoopTyped
<1>8. AsMerged'
  <2>1. Len(merging') = prev + next' - 1 /\ Len(merging') \in Kept..Len(Merged)
    BY <1>1, <1>4, <1>5, <1>m
  <2> QED BY <1>1, <1>2, <1>4, <1>6, <2>1 DEF AsMerged
<1> QED BY <1>7, <1>8 DEF LoopInv

\* What the log holds already is no disagreement.
LEMMA SkipPresentKeeps ==
  ASSUME LoopInv, SkipPresent
  PROVE  LoopInv'
<1>1. /\ LoopTyped /\ next \in 1..Len(batch) /\ Len(merging) \in Nat /\ Len(batch) \in Nat
      /\ Len(initial) \in Nat /\ prev + next <= Len(merging)
      /\ TermAt(merging, prev + next) = batch[next].term
      /\ UNCHANGED <<initial, prev, batch, merging>> /\ next' = next + 1
  BY LenProperties DEF LoopInv, LoopTyped, SkipPresent, Index
<1>2. Differ' = Differ
  BY <1>1 DEF Differ
<1>3. StillEqual
  <2>1. ~ AsMerged
    BY <1>1 DEF AsMerged, LoopTyped
  <2> QED BY <2>1 DEF LoopInv
<1>4. next \notin Differ
  BY <1>1, <1>3 DEF StillEqual, Differ, Disagreements, HasEntry, LoopTyped
<1>5. Differ \subseteq Nat
  BY DEF Differ, Disagreements
<1>6. StillEqual'
  BY <1>1, <1>2, <1>3, <1>4, <1>5 DEF StillEqual
<1>7. LoopTyped'
  BY <1>1 DEF LoopTyped
<1> QED BY <1>6, <1>7 DEF LoopInv

LEMMA NextLoop == LoopInv /\ [LoopNext]_loopVars => LoopInv'
<1> SUFFICES ASSUME LoopInv, [LoopNext]_loopVars PROVE LoopInv'
  OBVIOUS
<1>1. CASE UNCHANGED loopVars
  BY <1>1 DEF loopVars, LoopInv, LoopTyped, StillEqual, AsMerged, Differ, Kept, Merged
<1> QED
  BY <1>1, AppendMissingKeeps, TruncateConflictKeeps, SkipPresentKeeps DEF LoopNext, Done

LEMMA LoopInvIsPrefix == LoopInv => TornLogIsPrefix
<1> SUFFICES ASSUME LoopInv, ~ StillEqual PROVE TornLogIsPrefix
  BY DEF StillEqual, TornLogIsPrefix
<1>1. AsMerged
  BY DEF LoopInv
<1> QED BY <1>1 DEF AsMerged, TornLogIsPrefix, Kept

\* A loop that has gone through its batch has made the merged log.
LEMMA LoopInvEnds == LoopInv => (next > Len(batch) => merging = Merged)
<1> SUFFICES ASSUME LoopInv, next > Len(batch) PROVE merging = Merged
  OBVIOUS
<1>1. LoopTyped /\ Len(batch) \in Nat /\ next = Len(batch) + 1
  BY LenProperties DEF LoopInv, LoopTyped
<1>2. CASE StillEqual
  <2>1. Differ = {}
    BY <1>1, <1>2 DEF StillEqual, Differ, Disagreements
  <2> QED BY <1>1, <1>2, <2>1, MergedParts DEF StillEqual
<1>3. CASE AsMerged
  <2>1. Len(merging) = Len(Merged) /\ Merged \in Seq(MergeEntry)
    BY <1>1, <1>3, MergedParts DEF AsMerged, LoopTyped
  <2> QED BY <1>3, <2>1, SubSeqFull DEF AsMerged
<1> QED BY <1>2, <1>3 DEF LoopInv

\* Whatever the log and the batch, a crash anywhere in the loop leaves the log as it
\* was or a prefix of the merged one with all that the merge keeps, which is what
\* TornAppend takes a crash to leave (raft/log.py append_new_entries).
THEOREM TornMergesArePrefixes == LoopSpec => []TornLogIsPrefix
BY InitLoop, NextLoop, LoopInvIsPrefix, PTL DEF LoopSpec

\* And a loop that is not torn makes what AppendNewEntries says.
THEOREM LoopIsTheMerge == LoopSpec => [](next > Len(batch) => merging = Merged)
BY InitLoop, NextLoop, LoopInvEnds, PTL DEF LoopSpec
=============================================================================
