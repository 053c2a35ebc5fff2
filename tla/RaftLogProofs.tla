---------------------------- MODULE RaftLogProofs ----------------------------
(***************************************************************************)
(* What the operators on logs return, whatever the log and whatever its    *)
(* entries are.                                                            *)
(***************************************************************************)
EXTENDS RaftLog, SequenceTheorems, FiniteSetTheorems, WellFoundedInduction, TLAPS

\* A non-empty set of naturals has a least element, and Min is it.
LEMMA MinIsLeast ==
  ASSUME NEW S \in SUBSET Nat, S # {}
  PROVE  Min(S) \in S /\ \A x \in S : Min(S) <= x
<1>1. PICK y \in S : \A x \in S : ~ (<<x, y>> \in OpToRel(<, Nat))
  BY WFMin, NatLessThanWellFounded
<1>2. \A x \in S : y <= x
  <2> TAKE x \in S
  <2>1. <<x, y>> \in Nat \X Nat
    OBVIOUS
  <2>2. <<x, y>>[1] = x /\ <<x, y>>[2] = y
    OBVIOUS
  <2>3. ~ (x < y)
    BY <1>1, <2>1, <2>2 DEF OpToRel
  <2> QED BY <2>3
<1> QED BY <1>2 DEF Min

\* A non-empty set of naturals with a bound has a greatest element.
LEMMA MaxIsGreatest ==
  ASSUME NEW S \in SUBSET Nat, S # {}, NEW b \in Nat, \A x \in S : x <= b
  PROVE  Max(S) \in S /\ \A x \in S : x <= Max(S)
<1> DEFINE U == {k \in Nat : \A x \in S : x <= k}
<1>1. U \in SUBSET Nat /\ U # {}
  OBVIOUS
<1>2. Min(U) \in U /\ \A k \in U : Min(U) <= k
  BY <1>1, MinIsLeast
<1>3. Min(U) \in S
  <2> SUFFICES ASSUME Min(U) \notin S PROVE FALSE
    OBVIOUS
  <2>1. \A x \in S : x < Min(U)
    BY <1>2
  <2>2. PICK x \in S : TRUE
    OBVIOUS
  <2>3. Min(U) - 1 \in U
    BY <1>2, <2>1, <2>2
  <2> QED BY <1>2, <2>3
<1> QED BY <1>2, <1>3 DEF Max

\* A set with 0 and the successor of each of its numbers has every number.
LEMMA CountingUp ==
  ASSUME NEW S \in SUBSET Nat, 0 \in S, \A n \in S : n + 1 \in S
  PROVE  S = Nat
<1> SUFFICES ASSUME Nat \ S # {} PROVE FALSE
  OBVIOUS
<1>1. PICK y \in Nat \ S : \A x \in Nat \ S : ~ (<<x, y>> \in OpToRel(<, Nat))
  BY WFMin, NatLessThanWellFounded
<1>2. y # 0 /\ y - 1 \in Nat
  OBVIOUS
<1>3. y - 1 \in Nat \ S
  <2>1. y - 1 \in S => (y - 1) + 1 \in S
    OBVIOUS
  <2>2. (y - 1) + 1 = y
    OBVIOUS
  <2> QED BY <1>2, <2>1, <2>2
<1>4. <<y - 1, y>> \in Nat \X Nat
  BY <1>2
<1>5. <<y - 1, y>>[1] = y - 1 /\ <<y - 1, y>>[2] = y
  OBVIOUS
<1>6. y - 1 < y
  OBVIOUS
<1>7. <<y - 1, y>> \in OpToRel(<, Nat)
  BY <1>4, <1>5, <1>6 DEF OpToRel
<1> QED BY <1>1, <1>3, <1>7

\* The least of two numbers.
LEMMA MinOfTwo ==
  ASSUME NEW a \in Nat, NEW b \in Nat
  PROVE  Min({a, b}) = IF a <= b THEN a ELSE b
BY MinIsLeast, {a, b} \in SUBSET Nat, {a, b} # {}

\* The greatest of two numbers.
LEMMA MaxOfTwo ==
  ASSUME NEW a \in Nat, NEW b \in Nat
  PROVE  Max({a, b}) = IF a >= b THEN a ELSE b
<1> DEFINE top == IF a >= b THEN a ELSE b
<1>1. top \in Nat /\ \A x \in {a, b} : x <= top
  OBVIOUS
<1>2. Max({a, b}) \in {a, b} /\ \A x \in {a, b} : x <= Max({a, b})
  BY <1>1, MaxIsGreatest, {a, b} \in SUBSET Nat, {a, b} # {}
<1> QED BY <1>2


\* A merge keeps everything up to prev, and nothing that the log did not have.
LEMMA KeptLengthBounds ==
  ASSUME NEW E, NEW lg \in Seq(E), NEW prev \in 0..Len(lg), NEW batch \in Seq(E)
  PROVE  /\ KeptLength(lg, prev, batch) \in prev..Len(lg)
         /\ Disagreements(lg, prev, batch) # {} =>
              KeptLength(lg, prev, batch) - prev < Len(batch)
<1> DEFINE D == Disagreements(lg, prev, batch)
<1>1. CASE D = {}
  BY <1>1 DEF KeptLength
<1>2. CASE D # {}
  <2>1. D \in SUBSET Nat /\ D \subseteq 1..Len(batch)
    BY DEF Disagreements
  <2>2. Min(D) \in D /\ \A j \in D : Min(D) <= j
    BY <1>2, <2>1, MinIsLeast
  <2>3. prev + Min(D) - 1 <= Len(lg)
    <3>1. CASE Min(D) = 1
      BY <3>1
    <3>2. CASE Min(D) # 1
      <4>1. Min(D) - 1 \in 1..Len(batch) /\ Min(D) - 1 \notin D
        BY <3>2, <2>1, <2>2
      <4>2. HasEntry(lg, prev + (Min(D) - 1), batch[Min(D) - 1].term)
        BY <4>1 DEF Disagreements
      <4> QED BY <4>1, <4>2 DEF HasEntry
    <3> QED BY <3>1, <3>2
  <2> QED BY <1>2, <2>1, <2>2, <2>3 DEF KeptLength
<1> QED BY <1>1, <1>2

\* The merged log: the log as it was up to the kept length, the batch beyond.
LEMMA MergeProperties ==
  ASSUME NEW E, NEW lg \in Seq(E), NEW prev \in 0..Len(lg), NEW batch \in Seq(E)
  PROVE  LET kept == KeptLength(lg, prev, batch)
             merged == AppendNewEntries(lg, prev, batch)
         IN  /\ merged \in Seq(E)
             /\ kept <= Len(merged)
             /\ \A i \in 1..kept : merged[i] = lg[i]
<1> DEFINE kept == KeptLength(lg, prev, batch)
           merged == AppendNewEntries(lg, prev, batch)
<1>1. kept \in prev..Len(lg)
  BY KeptLengthBounds
<1>2. CASE Disagreements(lg, prev, batch) = {}
  BY <1>1, <1>2 DEF AppendNewEntries
<1>3. CASE Disagreements(lg, prev, batch) # {}
  <2> DEFINE head == SubSeq(lg, 1, kept)
             tail == SubSeq(batch, kept - prev + 1, Len(batch))
  <2>1. kept - prev < Len(batch)
    BY <1>3, KeptLengthBounds
  <2>2. head \in Seq(E) /\ Len(head) = kept /\ \A i \in 1..kept : head[i] = lg[i]
    BY <1>1, SubSeqProperties
  <2>3. tail \in Seq(E)
    BY <1>1, <2>1, SubSeqProperties
  <2>4. merged = head \o tail
    BY <1>3 DEF AppendNewEntries
  <2>5. /\ head \o tail \in Seq(E)
        /\ Len(head \o tail) = kept + Len(tail)
        /\ \A i \in 1..kept : (head \o tail)[i] = head[i]
    <3> HIDE DEF head, tail
    <3>1. Len(tail) \in Nat
      BY <2>3, LenProperties
    <3>2. head \in Seq(E) /\ tail \in Seq(E)
      BY <2>2, <2>3
    <3>3. /\ head \o tail \in Seq(E)
          /\ Len(head \o tail) = Len(head) + Len(tail)
          /\ \A i \in 1..Len(head) + Len(tail) :
                (head \o tail)[i] = IF i <= Len(head) THEN head[i]
                                                       ELSE tail[i - Len(head)]
      BY <3>2, ConcatProperties, Zenon
    <3>4. kept \in Nat /\ Len(head) = kept
      BY <1>1, <2>2
    <3> HIDE DEF kept
    <3> QED BY <3>1, <3>3, <3>4
  <2>6. Len(tail) \in Nat
    BY <2>3, LenProperties
  <2> HIDE DEF head, tail, merged, kept
  <2>7. merged \in Seq(E) /\ kept <= Len(merged) /\ \A i \in 1..kept : merged[i] = lg[i]
    BY <1>1, <2>2, <2>4, <2>5, <2>6
  <2> QED BY <2>7 DEF kept, merged
<1> QED BY <1>2, <1>3

\* A batch is a piece of the log.
LEMMA BatchType ==
  ASSUME NEW E, NEW lg \in Seq(E), NEW prev \in 0..Len(lg), NEW b \in Nat
  PROVE  Batch(lg, prev, b) \in Seq(E)
<1>1. Min({Len(lg), prev + b}) \in prev..Len(lg)
  BY MinOfTwo
<1>2. \A i \in prev + 1..Min({Len(lg), prev + b}) : lg[i] \in E
  BY <1>1
<1> DEFINE last == Min({Len(lg), prev + b})
<1>3. last \in Int /\ prev + 1 \in Int
  BY <1>1
<1> HIDE DEF last
<1>4. SubSeq(lg, prev + 1, last) \in Seq(E)
  BY <1>2, <1>3, SubSeqProperties DEF last
<1> QED BY <1>4 DEF Batch, last
==============================================================================
