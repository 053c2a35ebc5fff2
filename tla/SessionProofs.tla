---------------------------- MODULE SessionProofs ----------------------------
(***************************************************************************)
(* What the sessions and the waiters promise, for any number of nodes,     *)
(* clients, calls, elections and restarts.                                 *)
(*                                                                         *)
(* A replica that was never restarted from a snapshot is a function of the *)
(* chosen log and of how much of it it has applied (At), so what is true   *)
(* of every store on that path is true of every replica.                   *)
(***************************************************************************)
EXTENDS ClientSessions, RaftLogProofs

-----------------------------------------------------------------------------
(***************************************************************************)
(* What apply_committed computes.                                          *)
(***************************************************************************)
\* Where it starts.
Start(s) == [store |-> s, result |-> Result(TRUE, Absent)]

\* What the log makes of a store, one index after another.
Steps(f, s, lg, from, to) ==
    f = [i \in from..to |-> IF i = from THEN Start(s) ELSE ApplyOne(f[i - 1].store, lg[i])]

\* There is such a function.
LEMMA StepsExist ==
  ASSUME NEW s, NEW lg, NEW from \in Nat, NEW n \in Nat
  PROVE  \E f : Steps(f, s, lg, from, from + n)
<1> DEFINE S == {k \in Nat : \E f : Steps(f, s, lg, from, from + k)}
<1>1. 0 \in S
  <2> DEFINE f == [i \in from..from |-> Start(s)]
  <2>1. \A i \in from..from : i = from
    OBVIOUS
  <2>2. f = [i \in from..from |-> IF i = from THEN Start(s) ELSE ApplyOne(f[i - 1].store, lg[i])]
    BY <2>1
  <2>3. from + 0 = from
    OBVIOUS
  <2> HIDE DEF f
  <2>4. Steps(f, s, lg, from, from + 0)
    BY <2>2, <2>3 DEF Steps
  <2> QED BY <2>4
<1>2. ASSUME NEW k \in S PROVE k + 1 \in S
  <2>1. PICK f : Steps(f, s, lg, from, from + k)
    OBVIOUS
  <2>2. k \in Nat
    BY <1>2
  <2> DEFINE up == from + k
             g == [i \in from..(up + 1) |->
                     IF i <= up THEN f[i] ELSE ApplyOne(f[up].store, lg[up + 1])]
  <2>3. \A i \in from..(up + 1) :
          g[i] = IF i = from THEN Start(s) ELSE ApplyOne(g[i - 1].store, lg[i])
    <3> TAKE i \in from..(up + 1)
    <3>1. CASE i = from
      <4>1. i \in from..up /\ i <= up
        BY <2>2, <3>1
      <4>2. g[i] = f[i]
        BY <4>1
      <4>3. f[i] = Start(s)
        BY <2>1, <3>1, <4>1 DEF Steps
      <4> QED BY <3>1, <4>2, <4>3
    <3>2. CASE i # from /\ i <= up
      <4>1. i \in from..up /\ i - 1 \in from..(up + 1) /\ i - 1 <= up
        BY <2>2, <3>2
      <4>2. g[i] = f[i] /\ g[i - 1] = f[i - 1]
        BY <3>2, <4>1
      <4>3. f[i] = ApplyOne(f[i - 1].store, lg[i])
        BY <2>1, <3>2, <4>1 DEF Steps
      <4> QED BY <3>2, <4>2, <4>3
    <3>3. CASE i = up + 1
      <4>1. up \in from..(up + 1) /\ up <= up /\ ~ (up + 1 <= up) /\ i - 1 = up /\ i # from
        BY <2>2, <3>3
      <4>2. g[up] = f[up]
        BY <4>1
      <4>3. g[i] = ApplyOne(f[up].store, lg[up + 1])
        BY <3>3, <4>1
      <4> QED BY <3>3, <4>1, <4>2, <4>3
    <3> QED BY <2>2, <3>1, <3>2, <3>3
  <2>4. g = [i \in from..(up + 1) |-> g[i]]
    OBVIOUS
  <2>5. up + 1 = from + (k + 1)
    BY <2>2
  <2> HIDE DEF g, up
  <2>6. g = [i \in from..(up + 1) |->
               IF i = from THEN Start(s) ELSE ApplyOne(g[i - 1].store, lg[i])]
    BY <2>3, <2>4
  <2>7. Steps(g, s, lg, from, from + (k + 1))
    BY <2>5, <2>6 DEF Steps
  <2> QED BY <2>2, <2>7
<1> HIDE DEF S
<1>3. S = Nat
  <2>1. S \in SUBSET Nat
    BY DEF S
  <2> QED BY <1>1, <1>2, <2>1, CountingUp
<1> QED BY <1>3 DEF S

\* apply_committed is that function.
LEMMA AppliedIs ==
  ASSUME NEW s, s.last_applied \in Nat, NEW lg, NEW to \in Nat, s.last_applied <= to
  PROVE  Steps(Applied(s, lg, to), s, lg, s.last_applied, to)
<1> DEFINE from == s.last_applied
<1>1. to - from \in Nat /\ from + (to - from) = to
  OBVIOUS
<1>2. \E f : Steps(f, s, lg, from, to)
  BY <1>1, StepsExist
<1>3. Applied(s, lg, to) = CHOOSE f : Steps(f, s, lg, from, to)
  BY DEF Applied, Steps, Start
<1> QED BY <1>2, <1>3

\* It starts with the store it was given, and applies one entry at each index.
LEMMA AppliedFirst ==
  ASSUME NEW s, s.last_applied \in Nat, NEW lg, NEW to \in Nat, s.last_applied <= to
  PROVE  Applied(s, lg, to)[s.last_applied] = Start(s)
<1>1. s.last_applied \in s.last_applied..to
  OBVIOUS
<1> QED BY <1>1, AppliedIs DEF Steps

LEMMA AppliedNext ==
  ASSUME NEW s, s.last_applied \in Nat, NEW lg, NEW to \in Nat, s.last_applied <= to,
         NEW i \in (s.last_applied + 1)..to
  PROVE  Applied(s, lg, to)[i] = ApplyOne(Applied(s, lg, to)[i - 1].store, lg[i])
<1>1. i \in s.last_applied..to /\ i # s.last_applied
  OBVIOUS
<1> QED BY <1>1, AppliedIs DEF Steps

\* What is computed up to an index depends on nothing after that index.
LEMMA AppliedAgrees ==
  ASSUME NEW s, s.last_applied \in Nat, NEW lg, NEW other,
         NEW to \in Nat, NEW upto \in Nat, s.last_applied <= to, s.last_applied <= upto,
         NEW c \in Nat, c <= to, c <= upto,
         \A i \in (s.last_applied + 1)..c : lg[i] = other[i]
  PROVE  \A i \in s.last_applied..c : Applied(s, lg, to)[i] = Applied(s, other, upto)[i]
<1> DEFINE from == s.last_applied
           f == Applied(s, lg, to)
           g == Applied(s, other, upto)
           S == {k \in Nat : from + k <= c => f[from + k] = g[from + k]}
<1>1. 0 \in S
  <2>1. from + 0 = from
    OBVIOUS
  <2>2. f[from] = Start(s) /\ g[from] = Start(s)
    BY AppliedFirst
  <2> HIDE DEF f, g
  <2> QED BY <2>1, <2>2
<1>2. ASSUME NEW k \in S PROVE k + 1 \in S
  <2> SUFFICES ASSUME from + (k + 1) <= c PROVE f[from + (k + 1)] = g[from + (k + 1)]
    OBVIOUS
  <2> DEFINE i == from + (k + 1)
  <2>1. k \in Nat /\ from + k <= c /\ i - 1 = from + k
    BY <1>2
  <2>2. f[i - 1] = g[i - 1]
    BY <2>1
  <2>3. i \in (from + 1)..to /\ i \in (from + 1)..upto /\ i \in (from + 1)..c
    BY <2>1
  <2>4. f[i] = ApplyOne(f[i - 1].store, lg[i])
    BY <2>3, AppliedNext
  <2>5. g[i] = ApplyOne(g[i - 1].store, other[i])
    BY <2>3, AppliedNext
  <2> HIDE DEF f, g
  <2> QED BY <2>2, <2>3, <2>4, <2>5
<1> HIDE DEF S
<1>3. S = Nat
  <2>1. S \in SUBSET Nat
    BY DEF S
  <2> QED BY <1>1, <1>2, <2>1, CountingUp
<1> HIDE DEF f, g
<1>4. ASSUME NEW i \in from..c PROVE f[i] = g[i]
  <2>1. i - from \in Nat /\ from + (i - from) = i /\ i <= c
    BY <1>4
  <2> QED BY <1>3, <2>1 DEF S
<1> QED BY <1>4 DEF f, g

-----------------------------------------------------------------------------
(***************************************************************************)
(* A store applies one entry.                                              *)
(***************************************************************************)
\* The fields a store has.
IsStore(s) ==
    /\ s = [data |-> s.data, sessions |-> s.sessions,
            last_applied |-> s.last_applied, effects |-> s.effects]
    /\ s.last_applied \in Nat

LEMMA EmptyIsStore == IsStore(EmptyStore) /\ EmptyStore.last_applied = 0
BY DEF IsStore, EmptyStore

\* Whatever the entry is, the index moves by one.
LEMMA OneIndexAtATime ==
  ASSUME NEW s, IsStore(s), NEW cmd
  PROVE  /\ IsStore(ApplyOne(s, cmd).store)
         /\ ApplyOne(s, cmd).store.last_applied = s.last_applied + 1
<1> DEFINE more == [s EXCEPT !.last_applied = @ + 1]
<1>1. more = [data |-> s.data, sessions |-> s.sessions,
              last_applied |-> s.last_applied + 1, effects |-> s.effects]
  <2>1. s = [data |-> s.data, sessions |-> s.sessions,
             last_applied |-> s.last_applied, effects |-> s.effects]
    BY DEF IsStore
  <2> DEFINE a == s.data  b == s.sessions  d == s.last_applied  e == s.effects
  <2> HIDE DEF a, b, d, e
  <2>2. [[data |-> a, sessions |-> b, last_applied |-> d, effects |-> e]
           EXCEPT !.last_applied = @ + 1]
        = [data |-> a, sessions |-> b, last_applied |-> d + 1, effects |-> e]
    OBVIOUS
  <2> QED BY <2>1, <2>2 DEF a, b, d, e
<1>2. s.last_applied + 1 \in Nat
  BY DEF IsStore
<1>3. CASE cmd.kind = "noop"
  <2>1. ApplyOne(s, cmd).store = more
    BY <1>3 DEF ApplyOne, ApplyNoOp
  <2> QED BY <1>1, <1>2, <2>1 DEF IsStore
<1>4. CASE cmd.kind # "noop" /\ AlreadyApplied(s, cmd)
  <2>1. ApplyOne(s, cmd).store = more
    BY <1>4 DEF ApplyOne, AnswerAgain
  <2> QED BY <1>1, <1>2, <2>1 DEF IsStore
<1>5. CASE cmd.kind # "noop" /\ ~ AlreadyApplied(s, cmd)
  <2>1. ApplyOne(s, cmd) = ApplyNew(s, cmd)
    BY <1>5 DEF ApplyOne
  <2> DEFINE a == Written(s.data, cmd)
             b == Session(s, cmd, Answer(s.data, cmd))
             e == Append(s.effects, <<cmd.client, cmd.serial>>)
  <2> HIDE DEF a, b, e
  <2>2. ApplyNew(s, cmd).store = [data |-> a, sessions |-> b,
                                  last_applied |-> s.last_applied + 1, effects |-> e]
    BY DEF ApplyNew, a, b, e
  <2> QED BY <1>2, <2>1, <2>2 DEF IsStore
<1> QED BY <1>3, <1>4, <1>5

\* So apply_committed stops at the index it is told.
LEMMA AppliedIsStore ==
  ASSUME NEW s, IsStore(s), NEW lg, NEW to \in Nat, s.last_applied <= to
  PROVE  \A i \in s.last_applied..to :
            /\ IsStore(Applied(s, lg, to)[i].store)
            /\ Applied(s, lg, to)[i].store.last_applied = i
<1> DEFINE from == s.last_applied
           f == Applied(s, lg, to)
           S == {k \in Nat : from + k <= to =>
                    /\ IsStore(f[from + k].store)
                    /\ f[from + k].store.last_applied = from + k}
<1>0. from \in Nat
  BY DEF IsStore
<1>1. 0 \in S
  <2>1. from + 0 = from
    BY <1>0
  <2>2. f[from] = Start(s)
    BY <1>0, AppliedFirst
  <2>3. Start(s).store = s
    BY DEF Start
  <2> HIDE DEF f
  <2> QED BY <2>1, <2>2, <2>3
<1>2. ASSUME NEW k \in S PROVE k + 1 \in S
  <2> SUFFICES ASSUME from + (k + 1) <= to
               PROVE  /\ IsStore(f[from + (k + 1)].store)
                      /\ f[from + (k + 1)].store.last_applied = from + (k + 1)
    BY <1>2
  <2> DEFINE i == from + (k + 1)
  <2>1. k \in Nat /\ from + k <= to /\ i - 1 = from + k /\ (i - 1) + 1 = i
    BY <1>0, <1>2
  <2>2. IsStore(f[i - 1].store) /\ f[i - 1].store.last_applied = i - 1
    BY <2>1
  <2>3. i \in (from + 1)..to
    BY <1>0, <2>1
  <2>4. f[i] = ApplyOne(f[i - 1].store, lg[i])
    BY <1>0, <2>3, AppliedNext
  <2> HIDE DEF f, i
  <2>5. /\ IsStore(f[i].store)
        /\ f[i].store.last_applied = (i - 1) + 1
    BY <2>2, <2>4, OneIndexAtATime
  <2> QED BY <2>1, <2>5 DEF i
<1> HIDE DEF S
<1>3. S = Nat
  <2>1. S \in SUBSET Nat
    BY DEF S
  <2> QED BY <1>1, <1>2, <2>1, CountingUp
<1> HIDE DEF f
<1>4. ASSUME NEW i \in from..to
      PROVE  IsStore(f[i].store) /\ f[i].store.last_applied = i
  <2>1. i - from \in Nat /\ from + (i - from) = i /\ i <= to
    BY <1>0, <1>4
  <2> QED BY <1>3, <2>1 DEF S
<1> QED BY <1>4 DEF f
-----------------------------------------------------------------------------
(***************************************************************************)
(* A store as a function of the log.                                       *)
(***************************************************************************)
\* What a store that begins empty holds and answers at index i of the log.
At(lg, i) == Applied(EmptyStore, lg, i)[i]

LEMMA AtIsStore ==
  ASSUME NEW lg, NEW i \in Nat
  PROVE  IsStore(At(lg, i).store) /\ At(lg, i).store.last_applied = i
<1>1. i \in EmptyStore.last_applied..i /\ EmptyStore.last_applied <= i
  BY EmptyIsStore
<1> QED BY <1>1, EmptyIsStore, AppliedIsStore DEF At

LEMMA AtZero ==
  ASSUME NEW lg
  PROVE  At(lg, 0) = Start(EmptyStore)
<1>1. EmptyStore.last_applied \in Nat /\ EmptyStore.last_applied = 0
  BY EmptyIsStore
<1>2. Applied(EmptyStore, lg, 0)[EmptyStore.last_applied] = Start(EmptyStore)
  BY <1>1, AppliedFirst
<1> QED BY <1>1, <1>2 DEF At

\* The log after the index makes no difference.
LEMMA AtAgrees ==
  ASSUME NEW lg, NEW other, NEW i \in Nat, \A k \in 1..i : lg[k] = other[k]
  PROVE  At(lg, i) = At(other, i)
<1>1. EmptyStore.last_applied \in Nat /\ EmptyStore.last_applied = 0
  BY EmptyIsStore
<1>2. \A k \in (EmptyStore.last_applied + 1)..i : lg[k] = other[k]
  BY <1>1
<1>3. i \in EmptyStore.last_applied..i /\ EmptyStore.last_applied <= i /\ i <= i
  BY <1>1
<1>4. \A k \in EmptyStore.last_applied..i :
        Applied(EmptyStore, lg, i)[k] = Applied(EmptyStore, other, i)[k]
  BY <1>1, <1>2, <1>3, AppliedAgrees
<1> QED BY <1>3, <1>4 DEF At

LEMMA AtNext ==
  ASSUME NEW lg, NEW i \in Nat
  PROVE  At(lg, i + 1) = ApplyOne(At(lg, i).store, lg[i + 1])
<1>1. EmptyStore.last_applied \in Nat /\ EmptyStore.last_applied = 0
  BY EmptyIsStore
<1>2. /\ i + 1 \in Nat /\ i + 1 \in (EmptyStore.last_applied + 1)..(i + 1)
      /\ i \in EmptyStore.last_applied..i /\ (i + 1) - 1 = i
      /\ EmptyStore.last_applied <= i + 1 /\ EmptyStore.last_applied <= i
      /\ i <= i + 1 /\ i <= i
  BY <1>1
<1>3. Applied(EmptyStore, lg, i + 1)[i + 1]
        = ApplyOne(Applied(EmptyStore, lg, i + 1)[(i + 1) - 1].store, lg[i + 1])
  BY <1>1, <1>2, AppliedNext
<1>4. \A k \in EmptyStore.last_applied..i :
        Applied(EmptyStore, lg, i + 1)[k] = Applied(EmptyStore, lg, i)[k]
  <2>1. ASSUME NEW other, NEW to \in Nat, EmptyStore.last_applied <= to, i <= to,
               \A k \in (EmptyStore.last_applied + 1)..i : other[k] = lg[k]
        PROVE  \A k \in EmptyStore.last_applied..i :
                 Applied(EmptyStore, other, to)[k] = Applied(EmptyStore, lg, i)[k]
    <3>1. EmptyStore.last_applied \in Nat /\ EmptyStore.last_applied <= i /\ i <= i
      BY <1>1
    <3> QED BY ONLY <2>1, <3>1, i \in Nat, AppliedAgrees
  <2> QED BY <1>2, <2>1
<1>5. Applied(EmptyStore, lg, i + 1)[i] = Applied(EmptyStore, lg, i)[i]
  BY <1>2, <1>4
<1> QED BY <1>2, <1>3, <1>5 DEF At

\* A store that is what the log makes of the first indexes stays so, whatever
\* the batches it applies the rest in.
LEMMA AtContinues ==
  ASSUME NEW lg, NEW from \in Nat, NEW to \in Nat, from <= to,
         NEW s, s = At(lg, from).store
  PROVE  /\ \A i \in (from + 1)..to : Applied(s, lg, to)[i] = At(lg, i)
         /\ Applied(s, lg, to)[to].store = At(lg, to).store
<1>1. s.last_applied = from /\ s.last_applied \in Nat /\ s.last_applied <= to
  BY AtIsStore
<1> DEFINE f == Applied(s, lg, to)
           S == {k \in Nat : from + k <= to =>
                    /\ f[from + k].store = At(lg, from + k).store
                    /\ k # 0 => f[from + k] = At(lg, from + k)}
<1>2. 0 \in S
  <2>1. f[from] = Start(s)
    BY <1>1, AppliedFirst
  <2>2. Start(s).store = s /\ from + 0 = from
    BY DEF Start
  <2> HIDE DEF f
  <2> QED BY <2>1, <2>2
<1>3. ASSUME NEW k \in S PROVE k + 1 \in S
  <2> SUFFICES ASSUME from + (k + 1) <= to
               PROVE  f[from + (k + 1)] = At(lg, from + (k + 1))
    BY <1>3
  <2> DEFINE j == from + k
  <2>1. /\ k \in Nat /\ j \in Nat /\ j <= to /\ from + (k + 1) = j + 1 /\ (j + 1) - 1 = j
        /\ j + 1 \in (from + 1)..to
    BY <1>3
  <2>2. f[j].store = At(lg, j).store
    BY <2>1
  <2> HIDE DEF j
  <2>3. f[j + 1] = ApplyOne(f[(j + 1) - 1].store, lg[j + 1])
    BY <1>1, <2>1, AppliedNext
  <2>4. At(lg, j + 1) = ApplyOne(At(lg, j).store, lg[j + 1])
    BY <2>1, AtNext
  <2> HIDE DEF f
  <2> QED BY <2>1, <2>2, <2>3, <2>4
<1> HIDE DEF S
<1>4. S = Nat
  <2>1. S \in SUBSET Nat
    BY DEF S
  <2> QED BY <1>2, <1>3, <2>1, CountingUp
<1> HIDE DEF f
<1>5. ASSUME NEW i \in (from + 1)..to PROVE f[i] = At(lg, i)
  <2>1. i - from \in Nat /\ from + (i - from) = i /\ i <= to /\ i - from # 0
    BY <1>5
  <2> QED BY <1>4, <2>1 DEF S
<1>6. f[to].store = At(lg, to).store
  <2>1. to - from \in Nat /\ from + (to - from) = to /\ to <= to
    OBVIOUS
  <2> QED BY <1>4, <2>1 DEF S
<1> QED BY <1>5, <1>6 DEF f

-----------------------------------------------------------------------------
(***************************************************************************)
(* The sessions of a store know what took effect in it.                    *)
(***************************************************************************)
\* What is in the log: no-ops, and the commands of calls.
Entry == {NoOp} \cup {Command(c, serial, kind) : c \in Client, serial \in Nat, kind \in Kinds}

LEMMA EntryIs ==
  ASSUME NEW e \in Entry, e.kind # "noop"
  PROVE  e.client \in Client /\ e.serial \in Nat
<1>1. e # NoOp
  BY DEF NoOp
<1>2. PICK c \in Client, serial \in Nat, kind \in Kinds : e = Command(c, serial, kind)
  BY <1>1 DEF Entry
<1> QED BY <1>2 DEF Command

\* Each client's requests take effect in the order it issued them.
InOrder(effects) ==
    \A i, j \in DOMAIN effects :
        i < j /\ effects[i][1] = effects[j][1] => effects[i][2] < effects[j][2]

\* A session is of a request that took effect, and none after it did.
Sound(s) ==
    /\ DOMAIN s.sessions \subseteq Client
    /\ s.effects \in Seq(Client \X Nat)
    /\ \A c \in DOMAIN s.sessions :
        /\ s.sessions[c].serial \in Nat
        /\ \E i \in DOMAIN s.effects : s.effects[i] = <<c, s.sessions[c].serial>>
    /\ \A i \in DOMAIN s.effects :
        /\ s.effects[i][1] \in DOMAIN s.sessions
        /\ s.effects[i][2] <= s.sessions[s.effects[i][1]].serial
    /\ InOrder(s.effects)

LEMMA EmptyIsSound == Sound(EmptyStore)
BY DEF Sound, EmptyStore, InOrder

\* Entries that leave the sessions and the data alone.
LEMMA NothingNew ==
  ASSUME NEW s, IsStore(s), NEW e, e.kind = "noop" \/ AlreadyApplied(s, e)
  PROVE  /\ ApplyOne(s, e).store.sessions = s.sessions
         /\ ApplyOne(s, e).store.effects = s.effects
<1> DEFINE more == [s EXCEPT !.last_applied = @ + 1]
<1>1. ApplyOne(s, e).store = more
  BY DEF ApplyOne, ApplyNoOp, AnswerAgain
<1>2. more.sessions = s.sessions /\ more.effects = s.effects
  <2>1. s = [data |-> s.data, sessions |-> s.sessions,
             last_applied |-> s.last_applied, effects |-> s.effects]
    BY DEF IsStore
  <2> DEFINE a == s.data  b == s.sessions  d == s.last_applied  x == s.effects
  <2> HIDE DEF a, b, d, x
  <2>2. [[data |-> a, sessions |-> b, last_applied |-> d, effects |-> x]
           EXCEPT !.last_applied = @ + 1]
        = [data |-> a, sessions |-> b, last_applied |-> d + 1, effects |-> x]
    OBVIOUS
  <2> QED BY <2>1, <2>2 DEF a, b, d, x
<1> QED BY <1>1, <1>2

\* A command that is new is remembered, and takes effect.
LEMMA SomethingNew ==
  ASSUME NEW s, NEW e, e.kind # "noop", ~ AlreadyApplied(s, e)
  PROVE  /\ ApplyOne(s, e).store.effects = Append(s.effects, <<e.client, e.serial>>)
         /\ DOMAIN ApplyOne(s, e).store.sessions = DOMAIN s.sessions \cup {e.client}
         /\ ApplyOne(s, e).store.sessions[e.client]
                = [serial |-> e.serial, result |-> ApplyOne(s, e).result]
         /\ \A c \in DOMAIN s.sessions :
                c # e.client => ApplyOne(s, e).store.sessions[c] = s.sessions[c]
<1>1. ApplyOne(s, e) = ApplyNew(s, e)
  BY DEF ApplyOne
<1> DEFINE r == Answer(s.data, e)
           d == Written(s.data, e)
           x == Append(s.effects, <<e.client, e.serial>>)
           t == Session(s, e, r)
<1>2. ApplyNew(s, e) = [store |-> [data |-> d, sessions |-> t,
                                   last_applied |-> s.last_applied + 1, effects |-> x],
                        result |-> r]
  BY DEF ApplyNew
<1>3. /\ DOMAIN t = DOMAIN s.sessions \cup {e.client}
      /\ t[e.client] = [serial |-> e.serial, result |-> r]
      /\ \A c \in DOMAIN s.sessions : c # e.client => t[c] = s.sessions[c]
  BY DEF Session
<1> HIDE DEF r, d, x, t
<1>4. ApplyOne(s, e).store.effects = x /\ ApplyOne(s, e).store.sessions = t
      /\ ApplyOne(s, e).result = r
  BY <1>1, <1>2
<1> QED BY <1>3, <1>4 DEF x

LEMMA ApplyKeepsSound ==
  ASSUME NEW s, IsStore(s), Sound(s), NEW e \in Entry
  PROVE  Sound(ApplyOne(s, e).store)
<1> DEFINE t == ApplyOne(s, e).store
<1>1. CASE e.kind = "noop" \/ AlreadyApplied(s, e)
  <2>1. t.sessions = s.sessions /\ t.effects = s.effects
    BY <1>1, NothingNew
  <2> HIDE DEF t
  <2>2. Sound(t)
    BY <2>1 DEF Sound
  <2> QED BY <2>2 DEF t
<1>2. CASE e.kind # "noop" /\ ~ AlreadyApplied(s, e)
  <2> DEFINE c == e.client
             n == Len(s.effects)
  <2>1. c \in Client /\ e.serial \in Nat
    BY <1>2, EntryIs
  <2>2. /\ t.effects = Append(s.effects, <<c, e.serial>>)
        /\ DOMAIN t.sessions = DOMAIN s.sessions \cup {c}
        /\ t.sessions[c].serial = e.serial
        /\ \A d \in DOMAIN s.sessions : d # c => t.sessions[d] = s.sessions[d]
    <3>1. t.sessions[c] = [serial |-> e.serial, result |-> ApplyOne(s, e).result]
      BY <1>2, SomethingNew
    <3>2. /\ t.effects = Append(s.effects, <<c, e.serial>>)
          /\ DOMAIN t.sessions = DOMAIN s.sessions \cup {c}
      BY <1>2, SomethingNew
    <3>3. \A d \in DOMAIN s.sessions : d # c => t.sessions[d] = s.sessions[d]
      BY <1>2, SomethingNew
    <3> HIDE DEF t, c
    <3> QED BY <3>1, <3>2, <3>3
  <2>3. s.effects \in Seq(Client \X Nat) /\ n \in Nat /\ DOMAIN s.effects = 1..n
    BY DEF Sound
  <2>4. c \in DOMAIN s.sessions => s.sessions[c].serial < e.serial
    BY <1>2, <2>1 DEF AlreadyApplied, Sound
  <2>5. <<c, e.serial>> \in Client \X Nat
    BY <2>1
  <2> HIDE DEF t, c, n
  <2>6. /\ t.effects \in Seq(Client \X Nat)
        /\ DOMAIN t.effects = 1..(n + 1)
        /\ t.effects[n + 1] = <<c, e.serial>>
        /\ \A i \in 1..n : t.effects[i] = s.effects[i] /\ i \in DOMAIN s.effects
    BY <2>2, <2>3, <2>5 DEF n
  <2>7. DOMAIN t.sessions \subseteq Client
    BY <2>1, <2>2 DEF Sound, c
  <2>8. ASSUME NEW d \in DOMAIN t.sessions
        PROVE  /\ t.sessions[d].serial \in Nat
               /\ \E i \in DOMAIN t.effects : t.effects[i] = <<d, t.sessions[d].serial>>
    <3>1. CASE d = c
      <4>1. n + 1 \in DOMAIN t.effects /\ t.effects[n + 1] = <<d, t.sessions[d].serial>>
        BY <2>2, <2>3, <2>6, <3>1
      <4> QED BY <2>1, <2>2, <3>1, <4>1
    <3>2. CASE d # c
      <4>1. d \in DOMAIN s.sessions /\ t.sessions[d] = s.sessions[d]
        BY <2>2, <2>8, <3>2
      <4>2. PICK i \in DOMAIN s.effects : s.effects[i] = <<d, s.sessions[d].serial>>
        BY <4>1 DEF Sound
      <4>3. i \in 1..n /\ i \in 1..(n + 1)
        BY <2>3
      <4>4. i \in DOMAIN t.effects /\ t.effects[i] = s.effects[i]
        BY <2>6, <4>3
      <4>5. s.sessions[d].serial \in Nat
        BY <4>1 DEF Sound
      <4> QED BY <4>1, <4>2, <4>4, <4>5
    <3> QED BY <3>1, <3>2
  <2>9. ASSUME NEW i \in 1..n
        PROVE  /\ s.effects[i] \in Client \X Nat
               /\ s.effects[i][1] \in DOMAIN s.sessions
               /\ s.effects[i][2] <= s.sessions[s.effects[i][1]].serial
               /\ s.sessions[s.effects[i][1]].serial \in Nat
    <3>1. i \in DOMAIN s.effects /\ s.effects[i] \in Client \X Nat
      BY <2>3 DEF Sound
    <3>2. /\ s.effects[i][1] \in DOMAIN s.sessions
          /\ s.effects[i][2] <= s.sessions[s.effects[i][1]].serial
      BY <3>1 DEF Sound
    <3>3. s.sessions[s.effects[i][1]].serial \in Nat
      BY <3>2 DEF Sound
    <3> QED BY <3>1, <3>2, <3>3
  <2>10. ASSUME NEW i \in DOMAIN t.effects
         PROVE  /\ t.effects[i][1] \in DOMAIN t.sessions
                /\ t.effects[i][2] <= t.sessions[t.effects[i][1]].serial
    <3>1. CASE i = n + 1
      BY <2>1, <2>2, <2>6, <3>1
    <3>2. CASE i # n + 1
      <4>1. i \in 1..n
        BY <2>3, <2>6, <2>10, <3>2
      <4>2. /\ t.effects[i] = s.effects[i] /\ s.effects[i] \in Client \X Nat
            /\ s.effects[i][1] \in DOMAIN s.sessions
            /\ s.effects[i][2] <= s.sessions[s.effects[i][1]].serial
            /\ s.sessions[s.effects[i][1]].serial \in Nat
        BY <2>6, <2>9, <4>1
      <4>3. CASE s.effects[i][1] = c
        <5>1. s.sessions[c].serial < e.serial /\ s.effects[i][2] \in Nat
          BY <2>4, <4>2, <4>3
        <5>2. t.sessions[c].serial = e.serial
          BY <2>2
        <5>3. t.effects[i][1] = c /\ c \in DOMAIN t.sessions
          BY <2>2, <4>2, <4>3
        <5>4. t.effects[i][2] <= e.serial
          BY <2>1, <4>2, <4>3, <5>1
        <5> QED BY <5>2, <5>3, <5>4
      <4>4. CASE s.effects[i][1] # c
        BY <2>2, <4>2, <4>4
      <4> QED BY <4>3, <4>4
    <3> QED BY <3>1, <3>2
  <2>11. ASSUME NEW i \in DOMAIN t.effects, NEW j \in DOMAIN t.effects,
                i < j, t.effects[i][1] = t.effects[j][1]
         PROVE  t.effects[i][2] < t.effects[j][2]
    <3>1. i \in 1..n
      BY <2>3, <2>6, <2>11
    <3>2. t.effects[i] = s.effects[i]
      BY <2>6, <3>1
    <3>3. CASE j = n + 1
      <4>1. s.effects[i][1] = c /\ t.effects[j][2] = e.serial
        BY <2>6, <2>11, <3>2, <3>3
      <4>2. s.effects[i][2] <= s.sessions[c].serial /\ s.sessions[c].serial < e.serial
        BY <2>4, <2>9, <3>1, <4>1
      <4>3. s.effects[i][2] \in Nat /\ s.sessions[c].serial \in Nat
        BY <2>9, <3>1, <4>1
      <4> QED BY <2>1, <3>2, <4>1, <4>2, <4>3
    <3>4. CASE j # n + 1
      <4>1. j \in 1..n
        BY <2>3, <2>6, <2>11, <3>4
      <4> QED BY <2>3, <2>6, <2>11, <3>1, <3>2, <4>1 DEF Sound, InOrder
    <3> QED BY <3>3, <3>4
  <2>12. Sound(t)
    BY <2>6, <2>7, <2>8, <2>10, <2>11 DEF Sound, InOrder
  <2> QED BY <2>12 DEF t
<1> QED BY <1>1, <1>2

LEMMA AtSound ==
  ASSUME NEW lg, NEW to \in Nat, \A k \in 1..to : lg[k] \in Entry
  PROVE  \A i \in 0..to : Sound(At(lg, i).store)
<1> DEFINE S == {i \in Nat : i <= to => Sound(At(lg, i).store)}
<1>1. 0 \in S
  <2>1. At(lg, 0).store = EmptyStore
    <3>1. At(lg, 0) = Start(EmptyStore)
      BY AtZero
    <3>2. Start(EmptyStore).store = EmptyStore
      BY DEF Start
    <3> QED BY <3>1, <3>2
  <2> QED BY <2>1, EmptyIsSound
<1>2. ASSUME NEW i \in S PROVE i + 1 \in S
  <2> SUFFICES ASSUME i + 1 <= to PROVE Sound(At(lg, i + 1).store)
    BY <1>2
  <2>1. i \in Nat /\ i <= to /\ i + 1 \in 1..to
    BY <1>2
  <2>2. Sound(At(lg, i).store) /\ IsStore(At(lg, i).store) /\ lg[i + 1] \in Entry
    BY <1>2, <2>1, AtIsStore
  <2>3. Sound(ApplyOne(At(lg, i).store, lg[i + 1]).store)
    BY <2>2, ApplyKeepsSound
  <2> QED BY <2>1, <2>3, AtNext
<1> HIDE DEF S
<1>3. S = Nat
  <2>1. S \in SUBSET Nat
    BY DEF S
  <2> QED BY <1>1, <1>2, <2>1, CountingUp
<1> QED BY <1>3 DEF S
-----------------------------------------------------------------------------
(***************************************************************************)
(* The invariant: what holds whatever the constants are.                   *)
(***************************************************************************)
\* q is a sequence.
IsSequence(q) == q \in Seq({q[k] : k \in DOMAIN q})

CommandsOf(c, serial) == {Command(c, serial, kind) : kind \in Kinds}

Shapes ==
    /\ chosen \in Seq(Entry) /\ log \in [Node -> Seq(Entry)] /\ commit \in [Node -> Nat]
    /\ leads \in [Node -> BOOLEAN] /\ latest \in Node
    /\ leader_id \in [Node -> Node \cup {NoNode}]
    /\ hint \in [Client -> Node \cup {NoNode}]
    /\ store = [n \in Node |-> store[n]]
    /\ snapshot = [n \in Node |-> snapshot[n]]
    /\ pending = [n \in Node |-> pending[n]]
    /\ calls = [c \in Client |-> calls[c]]
    /\ \A c \in Client : IsSequence(calls[c])

\* A call that has not returned has no result; every call keeps its command.
CallIsSound(call, c, serial) ==
    /\ call.pc \in {"waiting", "backoff", "failed", "returned"}
    /\ call.pc # "returned" =>
        call = [pc |-> call.pc, attempt |-> call.attempt, target |-> call.target,
                command |-> call.command, asked |-> call.asked]
    /\ call.attempt \in Nat /\ call.target \in Node
    /\ call.command \in CommandsOf(c, serial)

CallsAreSound ==
    \A c \in Client : \A k \in DOMAIN calls[c] : CallIsSound(calls[c][k], c, k - 1)

\* A request is of a call that was issued; a reply, of a call of some client.
MessageIsSound(msg, cs) ==
    /\ msg.client \in Client /\ msg.serial \in Nat
    /\ msg.type = "request" =>
        /\ msg.serial < Len(cs[msg.client])
        /\ msg.node \in Node /\ msg.command \in CommandsOf(msg.client, msg.serial)
    /\ msg.type = "reply" /\ msg.not_leader => msg.leader_hint \in Node \cup {NoNode}

MessagesAreSound == \A msg \in network : MessageIsSound(msg, calls)

\* Every log holds what was issued, and what is committed of it is chosen.
LogsAreSound ==
    /\ Len(chosen) <= Len(log[latest])
    /\ \A i \in 1..Len(chosen) : log[latest][i] = chosen[i]
    /\ \A n \in Node :
        /\ commit[n] <= Len(log[n]) /\ commit[n] <= Len(chosen)
        /\ \A i \in 1..commit[n] : log[n][i] = chosen[i]
        /\ \A i \in 1..Len(log[n]) :
            log[n][i].kind # "noop" => log[n][i].serial < Len(calls[log[n][i].client])

StoresAreSound ==
    \A n \in Node :
        /\ IsStore(store[n]) /\ store[n].last_applied = commit[n]
        /\ snapshot[n].last_applied \in Nat /\ snapshot[n].last_applied <= commit[n]

WaitInv ==
    /\ Shapes /\ CallsAreSound /\ MessagesAreSound /\ LogsAreSound /\ StoresAreSound
    /\ WaitersMatchLog

(***************************************************************************)
(* Without snapshots a store is a function of the chosen log.              *)
(***************************************************************************)
StoresAreReplays ==
    \A n \in Node :
        /\ store[n] = At(chosen, commit[n]).store
        /\ snapshot[n] = Snapshot(EmptyStore)

(***************************************************************************)
(* An answer is of the request's own command, or too late to be taken for  *)
(* one by the call issued last: with one call at a time, by any.           *)
(***************************************************************************)
\* The log answers the request with this result, and it took effect.
AnsweredWith(lg, c, serial, result) ==
    \E i \in DOMAIN lg :
        /\ lg[i].kind # "noop"
        /\ Id(lg[i].client, lg[i].serial) = Id(c, serial)
        /\ At(lg, i).result = result
        /\ Id(c, serial) \in Range(At(lg, i).store.effects)

\* An answer is the log's, or too late for the call issued last.
Own(msg, lg, cs) ==
    msg.type = "reply" /\ ~ msg.not_leader =>
        \/ AnsweredWith(lg, msg.client, msg.serial, msg.result)
        \/ msg.serial + 1 < Len(cs[msg.client])

OnlyTheLastIsInProgress ==
    Burst = 1 => \A c \in Client : \A k \in DOMAIN calls[c] :
        calls[c][k].pc \in {"waiting", "backoff"} => k = Len(calls[c])

RepliesAreOwn == \A msg \in network : Own(msg, chosen, calls)

\* The answers promised: to the k-th of q calls.
Promised(k, q) == Burst = 1 \/ k = Len(q)

PromisedAnswersAreOwn ==
    \A c \in Client : \A k \in DOMAIN calls[c] :
        calls[c][k].pc = "returned" /\ Promised(k, calls[c])
            => AnsweredWith(chosen, c, k - 1, calls[c][k].result)

AnswerInv == OnlyTheLastIsInProgress /\ RepliesAreOwn /\ PromisedAnswersAreOwn
-----------------------------------------------------------------------------
(***************************************************************************)
(* Calls and targets.                                                      *)
(***************************************************************************)
LEMMA SequenceIs ==
  ASSUME NEW q, IsSequence(q)
  PROVE  /\ Len(q) \in Nat /\ DOMAIN q = 1..Len(q)
         /\ q = [k \in 1..Len(q) |-> q[k]]
BY DEF IsSequence

LEMMA IsThenSequence ==
  ASSUME NEW q, NEW n \in Nat, q = [k \in 1..n |-> q[k]]
  PROVE  IsSequence(q) /\ Len(q) = n
<1>1. DOMAIN q = 1..n
  OBVIOUS
<1> DEFINE T == {q[k] : k \in DOMAIN q}
<1>2. \A k \in 1..n : q[k] \in T
  BY <1>1
<1> HIDE DEF T
<1>3. q \in [1..n -> T]
  BY <1>2
<1>4. q \in Seq(T)
  BY <1>3, IsASeq
<1>5. Len(q) = n
  BY <1>1, <1>4
<1> QED BY <1>4, <1>5 DEF IsSequence, T

LEMMA AppendedIs ==
  ASSUME NEW q, IsSequence(q), NEW x
  PROVE  /\ IsSequence(Append(q, x))
         /\ Len(Append(q, x)) = Len(q) + 1
         /\ Append(q, x)[Len(q) + 1] = x
         /\ \A k \in 1..Len(q) : Append(q, x)[k] = q[k]
<1> DEFINE p == Append(q, x)
           T == {q[k] : k \in DOMAIN q} \cup {x}
<1>1. Len(q) \in Nat /\ DOMAIN q = 1..Len(q) /\ q = [k \in 1..Len(q) |-> q[k]]
  BY SequenceIs
<1>2. \A k \in 1..Len(q) : q[k] \in T
  BY <1>1
<1>3. x \in T
  OBVIOUS
<1> HIDE DEF T
<1>4. q \in [1..Len(q) -> T]
  BY <1>1, <1>2
<1>5. q \in Seq(T)
  BY <1>1, <1>4, IsASeq
<1>6. /\ p \in Seq(T) /\ Len(p) = Len(q) + 1 /\ p[Len(q) + 1] = x
      /\ \A k \in 1..Len(q) : p[k] = q[k]
  BY <1>3, <1>5, AppendProperties
<1> HIDE DEF p
<1>7. p = [k \in 1..Len(p) |-> p[k]] /\ Len(p) \in Nat
  BY <1>6
<1>8. IsSequence(p)
  BY <1>7, IsThenSequence
<1> QED BY <1>6, <1>8 DEF p

LEMMA ReplacedIs ==
  ASSUME NEW q, IsSequence(q), NEW k \in DOMAIN q, NEW x,
         NEW p, p = [q EXCEPT ![k] = x]
  PROVE  /\ IsSequence(p) /\ Len(p) = Len(q)
         /\ p[k] = x
         /\ \A j \in DOMAIN q : j # k => p[j] = q[j]
<1>1. Len(q) \in Nat /\ DOMAIN q = 1..Len(q) /\ q = [j \in 1..Len(q) |-> q[j]]
  BY SequenceIs
<1>2. p = [j \in 1..Len(q) |-> p[j]] /\ p[k] = x /\ \A j \in DOMAIN q : j # k => p[j] = q[j]
  BY <1>1
<1>3. IsSequence(p) /\ Len(p) = Len(q)
  BY <1>1, <1>2, IsThenSequence
<1> QED BY <1>2, <1>3

\* What a leader stamps on a command is there already.
LEMMA StampedIs ==
  ASSUME NEW c, NEW serial, NEW cmd \in CommandsOf(c, serial)
  PROVE  Stamped(cmd, c, serial) = cmd
<1>1. PICK kind \in Kinds : cmd = Command(c, serial, kind)
  BY DEF CommandsOf
<1> DEFINE key == CHOOSE k \in Key : TRUE
           value == Id(c, serial)
<1>2. cmd = [kind |-> kind, key |-> key, value |-> value, expected |-> Absent,
             client |-> c, serial |-> serial]
  BY <1>1 DEF Command
<1> HIDE DEF key, value
<1> DEFINE r == [kind |-> kind, key |-> key, value |-> value, expected |-> Absent,
                 client |-> c, serial |-> serial]
<1>3. [r EXCEPT !.client = c, !.serial = serial] = r
  <2>1. r.client = c /\ r.serial = serial
    OBVIOUS
  <2>2. r = [x \in DOMAIN r |-> r[x]]
    OBVIOUS
  <2> HIDE DEF r
  <2>3. [r EXCEPT !.client = c] = r
    BY <2>1, <2>2
  <2>4. [r EXCEPT !.serial = serial] = r
    BY <2>1, <2>2
  <2> QED BY <2>3, <2>4
<1> HIDE DEF r
<1>4. cmd = r
  BY <1>2 DEF r
<1> QED BY <1>3, <1>4 DEF Stamped

LEMMA CommandIsEntry ==
  ASSUME NEW c \in Client, NEW serial \in Nat, NEW cmd \in CommandsOf(c, serial)
  PROVE  /\ cmd \in Entry /\ cmd.kind # "noop"
         /\ cmd.client = c /\ cmd.serial = serial
<1>1. PICK kind \in Kinds : cmd = Command(c, serial, kind)
  BY DEF CommandsOf
<1>2. kind # "noop"
  BY KindsAssumption
<1>3. cmd \in Entry
  BY <1>1 DEF Entry
<1> DEFINE key == CHOOSE k \in Key : TRUE
           value == Id(c, serial)
<1>4. cmd = [kind |-> kind, key |-> key, value |-> value, expected |-> Absent,
             client |-> c, serial |-> serial]
  BY <1>1 DEF Command
<1> HIDE DEF key, value
<1> QED BY <1>2, <1>3, <1>4

LEMMA TargetIsNode ==
  ASSUME Shapes, NEW c \in Client, NEW attempt \in Nat
  PROVE  PickTarget(c, attempt) \in Node
<1> DEFINE n == Len(Members)
           i == (attempt % n) + 1
<1>1. Members \in Seq(Range(Members)) /\ Members # <<>>
  BY MembersAssumption
<1>2. n \in Nat /\ n > 0 /\ DOMAIN Members = 1..n
  BY <1>1
<1> HIDE DEF n
<1>3. i \in 1..n
  <2>1. attempt % n \in 0..(n - 1)
    BY <1>2
  <2> QED BY <1>2, <2>1
<1> HIDE DEF i
<1>4. Members[i] \in Node
  BY <1>2, <1>3 DEF Node, Range
<1>5. hint[c] \in Node \cup {NoNode}
  BY DEF Shapes
<1> QED BY <1>4, <1>5 DEF PickTarget, i, n
-----------------------------------------------------------------------------
(***************************************************************************)
(* The first state, and the steps of the clients.                          *)
(***************************************************************************)
LEMMA FirstMember == Members[1] \in Node
<1>1. 1 \in DOMAIN Members
  BY MembersAssumption
<1> QED BY <1>1 DEF Node, Range

LEMMA EmptySnapshot ==
  /\ Snapshot(EmptyStore).last_applied = 0
  /\ RestoreFrom(Snapshot(EmptyStore)) = EmptyStore
BY DEF Snapshot, RestoreFrom, EmptyStore

LEMMA InitWait == Init => WaitInv
<1> SUFFICES ASSUME Init PROVE WaitInv
  OBVIOUS
<1>1. Shapes
  <2>1. log \in [Node -> Seq(Entry)] /\ chosen \in Seq(Entry) /\ commit \in [Node -> Nat]
    BY DEF Init
  <2>2. leads \in [Node -> BOOLEAN] /\ latest \in Node
        /\ leader_id \in [Node -> Node \cup {NoNode}] /\ hint \in [Client -> Node \cup {NoNode}]
    BY FirstMember DEF Init
  <2>3. /\ store = [n \in Node |-> store[n]] /\ snapshot = [n \in Node |-> snapshot[n]]
        /\ pending = [n \in Node |-> pending[n]] /\ calls = [c \in Client |-> calls[c]]
    BY DEF Init
  <2>4. \A c \in Client : IsSequence(calls[c])
    BY DEF Init, IsSequence
  <2> QED BY <2>1, <2>2, <2>3, <2>4 DEF Shapes
<1>2. CallsAreSound /\ MessagesAreSound
  BY DEF Init, CallsAreSound, MessagesAreSound
<1>3. LogsAreSound
  <2>1. chosen = <<>> /\ \A n \in Node : log[n] = <<>> /\ commit[n] = 0
    BY DEF Init
  <2>2. latest \in Node
    BY FirstMember DEF Init
  <2> QED BY <2>1, <2>2 DEF LogsAreSound
<1>4. StoresAreSound
  <2> SUFFICES ASSUME NEW n \in Node
               PROVE  /\ IsStore(store[n]) /\ store[n].last_applied = commit[n]
                      /\ snapshot[n].last_applied \in Nat /\ snapshot[n].last_applied <= commit[n]
    BY DEF StoresAreSound
  <2>1. store[n] = EmptyStore /\ commit[n] = 0 /\ snapshot[n] = Snapshot(EmptyStore)
    BY DEF Init
  <2> QED BY <2>1, EmptyIsStore, EmptySnapshot
<1>5. WaitersMatchLog
  <2>1. \A n \in Node : DOMAIN pending[n] = {}
    BY DEF Init
  <2> QED BY <2>1 DEF WaitersMatchLog
<1> QED BY <1>1, <1>2, <1>3, <1>4, <1>5 DEF WaitInv

\* The nodes stay as they are while calls are made and answered.
LEMMA NodesStay ==
  ASSUME WaitInv, UNCHANGED nodeVars,
         \A d \in Client : Len(calls'[d]) \in Nat /\ Len(calls[d]) <= Len(calls'[d])
  PROVE  LogsAreSound' /\ StoresAreSound' /\ WaitersMatchLog'
<1>1. /\ chosen' = chosen /\ log' = log /\ commit' = commit /\ store' = store /\ leads' = leads
      /\ pending' = pending /\ snapshot' = snapshot /\ latest' = latest
  BY DEF nodeVars
<1>2. LogsAreSound /\ StoresAreSound /\ WaitersMatchLog
  BY DEF WaitInv
<1>3. ASSUME NEW n \in Node, NEW i \in 1..Len(log[n]), log[n][i].kind # "noop"
      PROVE  log[n][i].serial < Len(calls'[log[n][i].client])
  <2>1. log[n] \in Seq(Entry)
    BY DEF WaitInv, Shapes
  <2>2. log[n][i] \in Entry
    BY <2>1
  <2>3. log[n][i].client \in Client /\ log[n][i].serial \in Nat
    BY <1>3, <2>2, EntryIs
  <2>4. IsSequence(calls[log[n][i].client])
    BY <2>3 DEF WaitInv, Shapes
  <2>5. Len(calls[log[n][i].client]) \in Nat
    BY <2>4, SequenceIs
  <2>6. log[n][i].serial < Len(calls[log[n][i].client])
    BY <1>2, <1>3 DEF LogsAreSound
  <2> QED BY <2>3, <2>5, <2>6
<1>4. LogsAreSound'
  BY <1>1, <1>2, <1>3 DEF LogsAreSound
<1>5. StoresAreSound'
  BY <1>1, <1>2 DEF StoresAreSound
<1>6. WaitersMatchLog'
  BY <1>1, <1>2 DEF WaitersMatchLog
<1> QED BY <1>4, <1>5, <1>6

\* Nor does a message in flight become unsound.
LEMMA MessagesStay ==
  ASSUME WaitInv, NEW msg \in network,
         \A d \in Client : Len(calls'[d]) \in Nat /\ Len(calls[d]) <= Len(calls'[d])
  PROVE  MessageIsSound(msg, calls')
<1>1. MessageIsSound(msg, calls)
  BY DEF WaitInv, MessagesAreSound
<1>2. msg.client \in Client /\ msg.serial \in Nat
  BY <1>1 DEF MessageIsSound
<1>3. IsSequence(calls[msg.client])
  BY <1>2 DEF WaitInv, Shapes
<1>4. Len(calls[msg.client]) \in Nat
  BY <1>3, SequenceIs
<1> QED BY <1>1, <1>2, <1>4 DEF MessageIsSound

LEMMA CallKeepsWait ==
  ASSUME WaitInv, NEW c \in Client, NEW kind \in Kinds, Call(c, kind)
  PROVE  WaitInv'
<1> DEFINE serial == Len(calls[c])
           target == PickTarget(c, 0)
           cmd == Command(c, serial, kind)
           call == [pc |-> "waiting", attempt |-> 0, target |-> target, command |-> cmd,
                    asked |-> {target}]
           request == ClientRequest(c, serial, 0, target, cmd)
<1>1. /\ calls' = [calls EXCEPT ![c] = Append(@, call)]
      /\ network' = network \cup {request}
      /\ UNCHANGED nodeVars /\ hint' = hint
  BY DEF Call
<1>2. Shapes /\ CallsAreSound
  BY DEF WaitInv
<1>3. IsSequence(calls[c]) /\ serial \in Nat
  <2>1. IsSequence(calls[c])
    BY <1>2 DEF Shapes
  <2> QED BY <2>1, SequenceIs
<1>4. target \in Node
  BY <1>2, TargetIsNode
<1>5. cmd \in CommandsOf(c, serial)
  BY DEF CommandsOf
<1>6. CallIsSound(call, c, serial)
  <2> HIDE DEF cmd, target, serial
  <2> QED BY <1>4, <1>5 DEF CallIsSound
<1>7. /\ request.client = c /\ request.serial = serial /\ request.node = target
      /\ request.command = cmd /\ request.type = "request"
  BY DEF ClientRequest
<1> HIDE DEF serial, target, cmd, call, request
<1>8. calls = [d \in Client |-> calls[d]] /\ \A d \in Client : IsSequence(calls[d])
  BY <1>2 DEF Shapes
<1>9. /\ calls' = [d \in Client |-> calls'[d]]
      /\ \A d \in Client : IsSequence(calls'[d])
      /\ \A d \in Client : d # c => calls'[d] = calls[d]
      /\ Len(calls'[c]) = Len(calls[c]) + 1
      /\ calls'[c][Len(calls[c]) + 1] = call
      /\ \A k \in 1..Len(calls[c]) : calls'[c][k] = calls[c][k]
  <2>1. calls'[c] = Append(calls[c], call)
    BY <1>1, <1>8
  <2>2. calls' = [d \in Client |-> calls'[d]] /\ \A d \in Client : d # c => calls'[d] = calls[d]
    BY <1>1, <1>8
  <2>3. /\ IsSequence(Append(calls[c], call))
        /\ Len(Append(calls[c], call)) = Len(calls[c]) + 1
        /\ Append(calls[c], call)[Len(calls[c]) + 1] = call
        /\ \A k \in 1..Len(calls[c]) : Append(calls[c], call)[k] = calls[c][k]
    BY <1>3, AppendedIs
  <2> QED BY <1>8, <2>1, <2>2, <2>3
<1>10. \A d \in Client : Len(calls'[d]) \in Nat /\ Len(calls[d]) <= Len(calls'[d])
  <2> SUFFICES ASSUME NEW d \in Client
               PROVE  Len(calls'[d]) \in Nat /\ Len(calls[d]) <= Len(calls'[d])
    OBVIOUS
  <2>1. Len(calls'[d]) \in Nat /\ Len(calls[d]) \in Nat
    BY <1>8, <1>9, SequenceIs
  <2> QED BY <1>9, <2>1
<1>11. Shapes'
  BY <1>1, <1>2, <1>9 DEF Shapes, nodeVars
<1>12. CallsAreSound'
  <2> SUFFICES ASSUME NEW d \in Client, NEW k \in DOMAIN calls'[d]
               PROVE  CallIsSound(calls'[d][k], d, k - 1)
    BY DEF CallsAreSound, CallIsSound
  <2>1. DOMAIN calls'[d] = 1..Len(calls'[d]) /\ DOMAIN calls[d] = 1..Len(calls[d])
    BY <1>8, <1>9, SequenceIs
  <2>2. CASE d # c \/ k \in 1..Len(calls[c])
    <3>1. k \in DOMAIN calls[d] /\ calls'[d][k] = calls[d][k]
      BY <1>9, <2>1, <2>2
    <3> QED BY <1>2, <3>1 DEF CallsAreSound
  <2>3. CASE d = c /\ k \notin 1..Len(calls[c])
    <3>1. serial = Len(calls[c]) /\ k \in 1..(serial + 1) /\ k \notin 1..serial
      BY <1>9, <2>1, <2>3 DEF serial
    <3>2. k = serial + 1 /\ k - 1 = serial
      BY <1>3, <3>1
    <3>3. calls'[d][k] = call
      BY <1>9, <2>3, <3>1, <3>2
    <3> QED BY <1>6, <2>3, <3>2, <3>3
  <2> QED BY <2>2, <2>3
<1>13. MessagesAreSound'
  <2>1. MessageIsSound(request, calls')
    <3>1. serial < Len(calls'[c])
      BY <1>3, <1>9 DEF serial
    <3> QED BY <1>3, <1>4, <1>5, <1>7, <3>1 DEF MessageIsSound
  <2>2. \A msg \in network : MessageIsSound(msg, calls')
    BY <1>10, MessagesStay
  <2> QED BY <1>1, <2>1, <2>2 DEF MessagesAreSound
<1>14. LogsAreSound' /\ StoresAreSound' /\ WaitersMatchLog'
  BY <1>1, <1>10, NodesStay
<1> QED BY <1>11, <1>12, <1>13, <1>14 DEF WaitInv

\* A step that replaces one call, and adds at most a request for it.
LEMMA ReplacingKeepsWait ==
  ASSUME WaitInv, NEW c \in Client, NEW k \in DOMAIN calls[c], NEW call,
         CallIsSound(call, c, k - 1),
         calls' = [calls EXCEPT ![c][k] = call],
         hint' \in [Client -> Node \cup {NoNode}],
         UNCHANGED nodeVars,
         \A msg \in network' : msg \in network \/ MessageIsSound(msg, calls)
  PROVE  WaitInv'
<1>1. Shapes /\ CallsAreSound
  BY DEF WaitInv
<1>2. calls = [d \in Client |-> calls[d]] /\ \A d \in Client : IsSequence(calls[d])
  BY <1>1 DEF Shapes
<1>3. /\ calls' = [d \in Client |-> calls'[d]]
      /\ \A d \in Client : IsSequence(calls'[d]) /\ Len(calls'[d]) = Len(calls[d])
      /\ \A d \in Client : d # c => calls'[d] = calls[d]
      /\ calls'[c][k] = call
      /\ \A j \in DOMAIN calls[c] : j # k => calls'[c][j] = calls[c][j]
  <2> DEFINE p == [calls[c] EXCEPT ![k] = call]
  <2>1. calls'[c] = p
    BY <1>2
  <2>2. calls' = [d \in Client |-> calls'[d]] /\ \A d \in Client : d # c => calls'[d] = calls[d]
    BY <1>2
  <2>3. IsSequence(calls[c])
    BY <1>2
  <2>4. /\ IsSequence(p) /\ Len(p) = Len(calls[c])
        /\ p[k] = call
        /\ \A j \in DOMAIN calls[c] : j # k => p[j] = calls[c][j]
    BY <2>3, ReplacedIs
  <2> HIDE DEF p
  <2> QED BY <1>2, <2>1, <2>2, <2>4
<1>4. \A d \in Client : Len(calls'[d]) \in Nat /\ Len(calls[d]) <= Len(calls'[d])
  <2> SUFFICES ASSUME NEW d \in Client
               PROVE  Len(calls'[d]) \in Nat /\ Len(calls[d]) <= Len(calls'[d])
    OBVIOUS
  <2>1. Len(calls'[d]) \in Nat /\ Len(calls[d]) \in Nat
    BY <1>2, <1>3, SequenceIs
  <2> QED BY <1>3, <2>1
<1>5. Shapes'
  BY <1>1, <1>3 DEF Shapes, nodeVars
<1>6. CallsAreSound'
  <2> SUFFICES ASSUME NEW d \in Client, NEW j \in DOMAIN calls'[d]
               PROVE  CallIsSound(calls'[d][j], d, j - 1)
    BY DEF CallsAreSound, CallIsSound
  <2>1. DOMAIN calls'[d] = DOMAIN calls[d]
    BY <1>2, <1>3, SequenceIs
  <2>2. CASE d = c /\ j = k
    BY <1>3, <2>2
  <2>3. CASE d # c \/ j # k
    <3>1. j \in DOMAIN calls[d] /\ calls'[d][j] = calls[d][j]
      BY <1>3, <2>1, <2>3
    <3> QED BY <1>1, <3>1 DEF CallsAreSound
  <2> QED BY <2>2, <2>3
<1>7. MessagesAreSound'
  <2> SUFFICES ASSUME NEW msg \in network' PROVE MessageIsSound(msg, calls')
    BY DEF MessagesAreSound
  <2>1. CASE msg \in network
    BY <1>4, <2>1, MessagesStay
  <2>2. CASE MessageIsSound(msg, calls)
    <3>1. msg.client \in Client
      BY <2>2 DEF MessageIsSound
    <3>2. Len(calls'[msg.client]) = Len(calls[msg.client])
      BY <1>3, <3>1
    <3> QED BY <2>2, <3>2 DEF MessageIsSound
  <2> QED BY <2>1, <2>2
<1>8. LogsAreSound' /\ StoresAreSound' /\ WaitersMatchLog'
  BY <1>4, NodesStay
<1> QED BY <1>5, <1>6, <1>7, <1>8 DEF WaitInv
\* A retry sets three fields of call k of client c.
AskedAgain(c, k, target) ==
    [calls EXCEPT ![c][k].pc = "waiting", ![c][k].target = target,
                  ![c][k].asked = @ \cup {target}]

LEMMA ThreeFieldsSet ==
  ASSUME calls = [d \in Client |-> calls[d]], NEW c \in Client, IsSequence(calls[c]),
         NEW k \in DOMAIN calls[c], NEW target,
         calls[c][k] = [pc |-> calls[c][k].pc, attempt |-> calls[c][k].attempt,
                        target |-> calls[c][k].target, command |-> calls[c][k].command,
                        asked |-> calls[c][k].asked]
  PROVE  AskedAgain(c, k, target)
           = [calls EXCEPT ![c][k] =
                [pc |-> "waiting", attempt |-> calls[c][k].attempt, target |-> target,
                 command |-> calls[c][k].command, asked |-> calls[c][k].asked \cup {target}]]
<1> DEFINE q == calls[c]
           r == q[k]
           r1 == [r EXCEPT !.pc = "waiting"]
           r2 == [r1 EXCEPT !.target = target]
           r3 == [r2 EXCEPT !.asked = @ \cup {target}]
<1>1. q = [j \in DOMAIN q |-> q[j]] /\ k \in DOMAIN q
  <2>1. IsSequence(q)
    OBVIOUS
  <2> HIDE DEF q
  <2> QED BY <2>1, SequenceIs DEF q
<1>2. r3 = [pc |-> "waiting", attempt |-> r.attempt, target |-> target, command |-> r.command,
            asked |-> r.asked \cup {target}]
  <2> DEFINE x1 == r.pc  x2 == r.attempt  x3 == r.target  x4 == r.command  x5 == r.asked
  <2>1. r = [pc |-> x1, attempt |-> x2, target |-> x3, command |-> x4, asked |-> x5]
    OBVIOUS
  <2> HIDE DEF q, r, x1, x2, x3, x4, x5
  <2>2. r1 = [pc |-> "waiting", attempt |-> x2, target |-> x3, command |-> x4, asked |-> x5]
    BY <2>1
  <2> HIDE DEF r1
  <2>3. r2 = [pc |-> "waiting", attempt |-> x2, target |-> target, command |-> x4, asked |-> x5]
    BY <2>2
  <2> HIDE DEF r2
  <2>4. r3 = [pc |-> "waiting", attempt |-> x2, target |-> target, command |-> x4,
              asked |-> x5 \cup {target}]
    <3>1. r2.asked = x5
      BY <2>3
    <3> DEFINE y == x5 \cup {target}
    <3> HIDE DEF y
    <3>2. [r2 EXCEPT !.asked = y]
            = [pc |-> "waiting", attempt |-> x2, target |-> target, command |-> x4, asked |-> y]
      BY <2>3
    <3> QED BY <3>1, <3>2 DEF y
  <2> HIDE DEF r3
  <2> QED BY <2>4 DEF x2, x4, x5
<1> DEFINE q1 == [q EXCEPT ![k] = r1]
           q2 == [q1 EXCEPT ![k] = r2]
           q3 == [q2 EXCEPT ![k] = r3]
           p == [q EXCEPT ![k] = r3]
           c1 == [calls EXCEPT ![c] = q1]
           c2 == [c1 EXCEPT ![c] = q2]
           c3 == [c2 EXCEPT ![c] = q3]
<1>3. q1[k] = r1 /\ q2[k] = r2
  <2> HIDE DEF q, r1, r2
  <2> QED BY <1>1
<1>4. q3 = p
  <2> HIDE DEF q, r1, r2, r3
  <2> QED BY <1>1
<1>5. c1[c] = q1 /\ c2[c] = q2
  <2> HIDE DEF q1, q2
  <2> QED OBVIOUS
<1>6. c3 = [calls EXCEPT ![c] = q3]
  <2> HIDE DEF q1, q2, q3
  <2> QED OBVIOUS
<1>7. [calls EXCEPT ![c][k].pc = "waiting"] = c1
  OBVIOUS
<1>8. [c1 EXCEPT ![c][k].target = target] = c2
  <2>1. c1[c] = q1 /\ q1[k] = r1
    BY <1>3, <1>5
  <2> HIDE DEF c1, q1, r1
  <2> QED BY <2>1
<1>9. [c2 EXCEPT ![c][k].asked = @ \cup {target}] = c3
  <2>1. c2[c] = q2 /\ q2[k] = r2
    BY <1>3, <1>5
  <2> HIDE DEF c2, q2, r2
  <2> QED BY <2>1
<1>10. AskedAgain(c, k, target) = c3
  <2> HIDE DEF c1, c2, c3
  <2> QED BY <1>7, <1>8, <1>9 DEF AskedAgain
<1> HIDE DEF c3, q3, p, r3
<1>11. c3 = [calls EXCEPT ![c] = [q EXCEPT ![k] = r3]]
  BY <1>4, <1>6 DEF p
<1> QED BY <1>2, <1>10, <1>11
LEMMA CallIs ==
  ASSUME WaitInv, NEW c \in Client, NEW k \in DOMAIN calls[c]
  PROVE  /\ CallIsSound(calls[c][k], c, k - 1)
         /\ k \in 1..Len(calls[c]) /\ Len(calls[c]) \in Nat
         /\ IsSequence(calls[c])
<1>1. IsSequence(calls[c])
  BY DEF WaitInv, Shapes
<1>2. CallIsSound(calls[c][k], c, k - 1)
  BY DEF WaitInv, CallsAreSound
<1> QED BY <1>1, <1>2, SequenceIs

LEMMA NextAttemptIsSound ==
  ASSUME NEW call, NEW c, NEW serial, CallIsSound(call, c, serial), call.pc # "returned"
  PROVE  /\ CallIsSound(NextAttempt(call), c, serial)
         /\ NextAttempt(call).pc \in {"backoff", "failed"}
<1> DEFINE a == call.attempt
           b == call.target
           d == call.command
           e == call.asked
           pc == IF a + 1 < MaxAttempts THEN "backoff" ELSE "failed"
<1>1. call = [pc |-> call.pc, attempt |-> a, target |-> b, command |-> d, asked |-> e]
  BY DEF CallIsSound
<1>2. a \in Nat /\ b \in Node /\ d \in CommandsOf(c, serial)
  BY DEF CallIsSound
<1> DEFINE next == [pc |-> pc, attempt |-> a + 1, target |-> b, command |-> d, asked |-> e]
<1>3. NextAttempt(call) = next
  <2>1. NextAttempt(call) = [[call EXCEPT !.attempt = a + 1] EXCEPT !.pc = pc]
    BY DEF NextAttempt
  <2> DEFINE old == call.pc  more == a + 1
  <2> HIDE DEF old, pc, more, a, b, d, e
  <2>2. call = [pc |-> old, attempt |-> a, target |-> b, command |-> d, asked |-> e]
    BY <1>1 DEF old
  <2> DEFINE r == [call EXCEPT !.attempt = more]
  <2>3. r = [pc |-> old, attempt |-> more, target |-> b, command |-> d, asked |-> e]
    BY <2>2
  <2> HIDE DEF r
  <2>4. [r EXCEPT !.pc = pc]
          = [pc |-> pc, attempt |-> more, target |-> b, command |-> d, asked |-> e]
    BY <2>3
  <2> QED BY <2>1, <2>4 DEF r, more
<1>4. pc \in {"backoff", "failed"}
  OBVIOUS
<1> HIDE DEF a, b, d, e, pc
<1>5. CallIsSound(next, c, serial) /\ next.pc = pc
  BY <1>2, <1>4 DEF CallIsSound
<1> QED BY <1>3, <1>4, <1>5

LEMMA RetryKeepsWait ==
  ASSUME WaitInv, NEW c \in Client, NEW k \in DOMAIN calls[c], Retry(c, k)
  PROVE  WaitInv'
<1> DEFINE call == calls[c][k]
           target == PickTarget(c, call.attempt)
           new == [pc |-> "waiting", attempt |-> call.attempt, target |-> target,
                   command |-> call.command, asked |-> call.asked \cup {target}]
           request == ClientRequest(c, k - 1, call.attempt, target, call.command)
<1>1. /\ call.pc = "backoff"
      /\ calls' = [calls EXCEPT ![c][k].pc = "waiting", ![c][k].target = target,
                                ![c][k].asked = @ \cup {target}]
      /\ network' = network \cup {request}
      /\ UNCHANGED nodeVars /\ hint' = hint
  BY DEF Retry
<1>2. CallIsSound(call, c, k - 1) /\ k \in 1..Len(calls[c]) /\ Len(calls[c]) \in Nat
      /\ IsSequence(calls[c])
  BY CallIs
<1>3. target \in Node
  <2>1. call.attempt \in Nat
    BY <1>2 DEF CallIsSound
  <2>2. Shapes
    BY DEF WaitInv
  <2> QED BY <2>1, <2>2, TargetIsNode
<1>4. call = [pc |-> call.pc, attempt |-> call.attempt, target |-> call.target,
              command |-> call.command, asked |-> call.asked]
  BY <1>1, <1>2 DEF CallIsSound
<1>5. calls = [d \in Client |-> calls[d]]
  BY DEF WaitInv, Shapes
<1>6. calls' = [calls EXCEPT ![c][k] = new]
  <2> HIDE DEF target
  <2>1. AskedAgain(c, k, target) = [calls EXCEPT ![c][k] = new]
    BY <1>2, <1>4, <1>5, ThreeFieldsSet
  <2>2. calls' = AskedAgain(c, k, target)
    BY <1>1 DEF AskedAgain
  <2> QED BY <2>1, <2>2
<1>7. CallIsSound(new, c, k - 1)
  <2>1. call.attempt \in Nat /\ call.command \in CommandsOf(c, k - 1)
    BY <1>2 DEF CallIsSound
  <2> HIDE DEF call, target
  <2> QED BY <1>3, <2>1 DEF CallIsSound
<1>8. MessageIsSound(request, calls)
  <2>1. call.command \in CommandsOf(c, k - 1)
    BY <1>2 DEF CallIsSound
  <2>2. /\ request.client = c /\ request.serial = k - 1 /\ request.node = target
        /\ request.command = call.command /\ request.type = "request"
    BY DEF ClientRequest
  <2>3. k - 1 \in Nat /\ k - 1 < Len(calls[c])
    BY <1>2
  <2> HIDE DEF request, call, target
  <2> QED BY <1>3, <2>1, <2>2, <2>3 DEF MessageIsSound
<1>9. hint' \in [Client -> Node \cup {NoNode}]
  BY <1>1 DEF WaitInv, Shapes
<1>10. \A msg \in network' : msg \in network \/ MessageIsSound(msg, calls)
  BY <1>1, <1>8
<1> HIDE DEF new
<1> QED BY <1>1, <1>6, <1>7, <1>9, <1>10, ReplacingKeepsWait

LEMMA TimeoutKeepsWait ==
  ASSUME WaitInv, NEW c \in Client, NEW k \in DOMAIN calls[c], Timeout(c, k)
  PROVE  WaitInv'
<1> DEFINE new == NextAttempt(calls[c][k])
<1>1. /\ calls[c][k].pc = "waiting"
      /\ calls' = [calls EXCEPT ![c][k] = new]
      /\ hint' = [hint EXCEPT ![c] = IF @ = calls[c][k].target THEN NoNode ELSE @]
      /\ UNCHANGED nodeVars /\ network' = network
  BY DEF Timeout
<1>2. CallIsSound(calls[c][k], c, k - 1)
  BY CallIs
<1>3. CallIsSound(new, c, k - 1)
  BY <1>1, <1>2, NextAttemptIsSound
<1>4. hint' \in [Client -> Node \cup {NoNode}]
  <2>1. hint \in [Client -> Node \cup {NoNode}]
    BY DEF WaitInv, Shapes
  <2> QED BY <1>1, <2>1
<1> HIDE DEF new
<1> QED BY <1>1, <1>3, <1>4, ReplacingKeepsWait

\* A call returns with what the message says.
ReturnedWith(call, msg) ==
    [pc |-> "returned", attempt |-> call.attempt, target |-> call.target,
     command |-> call.command, asked |-> call.asked,
     result |-> msg.result, of |-> msg.attempt]

LEMMA ReturnedIsSound ==
  ASSUME NEW call, NEW c, NEW serial, CallIsSound(call, c, serial), NEW msg
  PROVE  CallIsSound(ReturnedWith(call, msg), c, serial)
<1> DEFINE r == ReturnedWith(call, msg)
<1>1. /\ r.pc = "returned" /\ r.attempt = call.attempt /\ r.target = call.target
      /\ r.command = call.command
  BY DEF ReturnedWith
<1> HIDE DEF r
<1>2. CallIsSound(r, c, serial)
  BY <1>1 DEF CallIsSound
<1> QED BY <1>2 DEF r

LEMMA NothingMovesKeepsWait ==
  ASSUME WaitInv, UNCHANGED nodeVars, UNCHANGED clientVars, network' \subseteq network
  PROVE  WaitInv'
<1>1. calls' = calls /\ hint' = hint
  BY DEF clientVars
<1>2. Shapes' /\ CallsAreSound'
  BY <1>1 DEF WaitInv, Shapes, CallsAreSound, nodeVars
<1>3. MessagesAreSound'
  BY <1>1 DEF WaitInv, MessagesAreSound
<1>4. \A d \in Client : Len(calls'[d]) \in Nat /\ Len(calls[d]) <= Len(calls'[d])
  <2> SUFFICES ASSUME NEW d \in Client PROVE Len(calls[d]) \in Nat
    BY <1>1
  <2>1. IsSequence(calls[d])
    BY DEF WaitInv, Shapes
  <2> QED BY <2>1, SequenceIs
<1>5. LogsAreSound' /\ StoresAreSound' /\ WaitersMatchLog'
  BY <1>4, NodesStay
<1> QED BY <1>2, <1>3, <1>5 DEF WaitInv

LEMMA ReceiveReplyKeepsWait ==
  ASSUME WaitInv, NEW c \in Client, NEW k \in DOMAIN calls[c], NEW msg \in network,
         msg.type = "reply", msg.client = c, ReceiveReply(c, k, msg)
  PROVE  WaitInv'
<1>1. /\ calls[c][k].pc = "waiting" /\ network' = network \ {msg} /\ UNCHANGED nodeVars
  BY DEF ReceiveReply
<1>2. CallIsSound(calls[c][k], c, k - 1)
  BY CallIs
<1>3. MessageIsSound(msg, calls)
  BY DEF WaitInv, MessagesAreSound
<1>4. \A m \in network' : m \in network \/ MessageIsSound(m, calls)
  BY <1>1
<1>5. hint \in [Client -> Node \cup {NoNode}]
  BY DEF WaitInv, Shapes
<1>6. CASE UNCHANGED clientVars
  BY <1>1, <1>6, NothingMovesKeepsWait
<1>7. CASE msg.not_leader /\ Redirected(c, k, msg)
  <2> DEFINE new == NextAttempt(calls[c][k])
  <2>1. calls' = [calls EXCEPT ![c][k] = new] /\ hint' = [hint EXCEPT ![c] = msg.leader_hint]
    BY <1>7 DEF Redirected
  <2>2. CallIsSound(new, c, k - 1)
    BY <1>1, <1>2, NextAttemptIsSound
  <2>3. hint' \in [Client -> Node \cup {NoNode}]
    BY <1>3, <1>5, <1>7, <2>1 DEF MessageIsSound
  <2> HIDE DEF new
  <2> QED BY <1>1, <1>4, <2>1, <2>2, <2>3, ReplacingKeepsWait
<1>8. CASE ~ msg.not_leader /\ Returned(c, k, msg)
  <2> DEFINE new == ReturnedWith(calls[c][k], msg)
  <2>1. calls' = [calls EXCEPT ![c][k] = new] /\ hint' = [hint EXCEPT ![c] = calls[c][k].target]
    BY <1>8 DEF Returned, ReturnedWith
  <2>2. CallIsSound(new, c, k - 1)
    BY <1>2, ReturnedIsSound
  <2>3. hint' \in [Client -> Node \cup {NoNode}]
    <3>1. calls[c][k].target \in Node
      BY <1>2 DEF CallIsSound
    <3> QED BY <1>5, <2>1, <3>1
  <2> HIDE DEF new
  <2> QED BY <1>1, <1>4, <2>1, <2>2, <2>3, ReplacingKeepsWait
<1> QED BY <1>6, <1>7, <1>8 DEF ReceiveReply

LEMMA LoseKeepsWait ==
  ASSUME WaitInv, NEW msg \in network, Lose(msg)
  PROVE  WaitInv'
<1>1. network' \subseteq network /\ UNCHANGED nodeVars /\ UNCHANGED clientVars
  BY DEF Lose
<1> QED BY <1>1, NothingMovesKeepsWait
-----------------------------------------------------------------------------
(***************************************************************************)
(* The steps of the nodes.                                                 *)
(***************************************************************************)
\* The calls stay as they are while the nodes work.
LEMMA CallsStay ==
  ASSUME WaitInv, UNCHANGED clientVars
  PROVE  /\ calls' = calls /\ hint' = hint /\ CallsAreSound'
         /\ hint' \in [Client -> Node \cup {NoNode}]
         /\ calls' = [c \in Client |-> calls'[c]]
         /\ \A c \in Client : IsSequence(calls'[c])
<1>1. calls' = calls /\ hint' = hint
  BY DEF clientVars
<1> QED BY <1>1 DEF WaitInv, Shapes, CallsAreSound

\* Node n appends an entry.
LEMMA OneEntryMore ==
  ASSUME WaitInv, NEW n \in Node, NEW e \in Entry,
         log' = [log EXCEPT ![n] = Append(@, e)]
  PROVE  /\ log' \in [Node -> Seq(Entry)]
         /\ Len(log[n]) \in Nat /\ Len(log'[n]) = Len(log[n]) + 1
         /\ log'[n][Len(log[n]) + 1] = e
         /\ \A i \in 1..Len(log[n]) : log'[n][i] = log[n][i]
         /\ \A m \in Node : m # n => log'[m] = log[m]
<1>1. log \in [Node -> Seq(Entry)]
  BY DEF WaitInv, Shapes
<1>2. log[n] \in Seq(Entry) /\ log'[n] = Append(log[n], e)
  BY <1>1
<1>3. log' \in [Node -> Seq(Entry)] /\ \A m \in Node : m # n => log'[m] = log[m]
  BY <1>1, <1>2
<1> QED BY <1>2, <1>3, AppendProperties, LenProperties

LEMMA LogIs ==
  ASSUME WaitInv, NEW n \in Node
  PROVE  /\ log[n] \in Seq(Entry) /\ Len(log[n]) \in Nat
         /\ commit[n] \in Nat /\ commit[n] <= Len(log[n]) /\ commit[n] <= Len(chosen)
         /\ chosen \in Seq(Entry) /\ Len(chosen) \in Nat
         /\ Len(chosen) <= Len(log[latest])
         /\ latest \in Node /\ Len(log[latest]) \in Nat
BY DEF WaitInv, Shapes, LogsAreSound

LEMMA OneEntryMoreIsSound ==
  ASSUME WaitInv, NEW n \in Node, NEW e \in Entry,
         log' = [log EXCEPT ![n] = Append(@, e)],
         e.kind # "noop" => e.serial < Len(calls[e.client]),
         UNCHANGED <<chosen, commit, calls>>,
         latest' = latest \/ (latest' = n /\ IsPrefix(chosen, log[n]))
  PROVE  LogsAreSound'
<1>1. /\ Len(log[n]) \in Nat /\ Len(log'[n]) = Len(log[n]) + 1
      /\ log'[n][Len(log[n]) + 1] = e
      /\ \A i \in 1..Len(log[n]) : log'[n][i] = log[n][i]
      /\ \A m \in Node : m # n => log'[m] = log[m]
  BY OneEntryMore
<1>2. LogsAreSound
  BY DEF WaitInv
<1>3. latest \in Node /\ Len(log[latest]) \in Nat /\ Len(chosen) \in Nat
      /\ Len(chosen) <= Len(log[latest])
  BY LogIs
<1>4. Len(chosen) <= Len(log'[latest']) /\ \A i \in 1..Len(chosen) : log'[latest'][i] = chosen[i]
  <2>1. CASE latest' = latest /\ latest # n
    BY <1>1, <1>2, <1>3, <2>1 DEF LogsAreSound
  <2>2. CASE latest' = latest /\ latest = n
    <3>1. Len(chosen) <= Len(log[n]) /\ \A i \in 1..Len(chosen) : log[n][i] = chosen[i]
      BY <1>2, <2>2 DEF LogsAreSound
    <3> QED BY <1>1, <1>3, <2>2, <3>1
  <2>3. CASE latest' = n /\ IsPrefix(chosen, log[n])
    <3>1. Len(chosen) <= Len(log[n]) /\ \A i \in 1..Len(chosen) : log[n][i] = chosen[i]
      <4>1. chosen \in Seq(Entry) /\ log[n] \in Seq(Entry)
        BY LogIs
      <4>2. /\ Len(chosen) <= Len(log[n])
            /\ SubSeq(chosen, 1, Len(chosen)) = SubSeq(log[n], 1, Len(chosen))
        BY <2>3 DEF IsPrefix
      <4>3. Len(chosen) \in Nat /\ Len(log[n]) \in Nat
        BY <4>1
      <4>4. ASSUME NEW i \in 1..Len(chosen) PROVE log[n][i] = chosen[i]
        <5>1. SubSeq(chosen, 1, Len(chosen))[i] = chosen[i]
          BY <4>1
        <5>2. SubSeq(log[n], 1, Len(chosen))[i] = log[n][i]
          BY <4>1, <4>2, <4>3
        <5> QED BY <4>2, <5>1, <5>2
      <4> QED BY <4>2, <4>4
    <3> QED BY <1>1, <1>3, <2>3, <3>1
  <2> QED BY <2>1, <2>2, <2>3
<1>5. ASSUME NEW m \in Node
      PROVE  /\ commit[m] <= Len(log'[m]) /\ commit[m] <= Len(chosen)
             /\ \A i \in 1..commit[m] : log'[m][i] = chosen[i]
             /\ \A i \in 1..Len(log'[m]) :
                  log'[m][i].kind # "noop" => log'[m][i].serial < Len(calls[log'[m][i].client])
  <2>1. /\ commit[m] <= Len(log[m]) /\ commit[m] <= Len(chosen) /\ commit[m] \in Nat
        /\ \A i \in 1..commit[m] : log[m][i] = chosen[i]
        /\ \A i \in 1..Len(log[m]) :
             log[m][i].kind # "noop" => log[m][i].serial < Len(calls[log[m][i].client])
    BY <1>2, LogIs DEF LogsAreSound
  <2>2. CASE m # n
    BY <1>1, <2>1, <2>2
  <2>3. CASE m = n
    <3>1. commit[m] <= Len(log'[m]) /\ \A i \in 1..commit[m] : log'[m][i] = chosen[i]
      BY <1>1, <2>1, <2>3
    <3>2. ASSUME NEW i \in 1..Len(log'[m]), log'[m][i].kind # "noop"
          PROVE  log'[m][i].serial < Len(calls[log'[m][i].client])
      <4>1. CASE i \in 1..Len(log[n])
        BY <1>1, <2>1, <2>3, <3>2, <4>1
      <4>2. CASE i = Len(log[n]) + 1
        BY <1>1, <2>3, <3>2, <4>2
      <4> QED BY <1>1, <2>3, <3>2, <4>1, <4>2
    <3> QED BY <2>1, <3>1, <3>2
  <2> QED BY <2>2, <2>3
<1>6. chosen' = chosen /\ commit' = commit /\ calls' = calls
  OBVIOUS
<1> QED BY ONLY <1>4, <1>5, <1>6 DEF LogsAreSound

\* Who waits is a client, and waits for a place that is in the log already.
LEMMA WaiterIs ==
  ASSUME WaitInv, NEW n \in Node, NEW i \in DOMAIN pending[n]
  PROVE  /\ leads[n] /\ i \in (commit[n] + 1)..Len(log[n]) /\ i \in 1..Len(log[n])
         /\ i \in Nat /\ i > commit[n]
         /\ log[n][i].kind # "noop" /\ log[n][i] \in Entry
         /\ pending[n][i].client = log[n][i].client
         /\ pending[n][i].serial = log[n][i].serial
         /\ pending[n][i].client \in Client /\ pending[n][i].serial \in Nat
<1>1. store[n].last_applied = commit[n]
  BY DEF WaitInv, StoresAreSound
<1>2. /\ leads[n] /\ i \in (commit[n] + 1)..Len(log[n])
      /\ log[n][i].kind # "noop"
      /\ Id(log[n][i].client, log[n][i].serial) = Id(pending[n][i].client, pending[n][i].serial)
  BY <1>1 DEF WaitInv, WaitersMatchLog
<1>3. log[n] \in Seq(Entry) /\ Len(log[n]) \in Nat /\ commit[n] \in Nat
  BY LogIs
<1>4. i \in 1..Len(log[n]) /\ i \in Nat /\ i > commit[n]
  BY <1>2, <1>3
<1>5. log[n][i] \in Entry
  BY <1>3, <1>4
<1>6. pending[n][i].client = log[n][i].client /\ pending[n][i].serial = log[n][i].serial
  BY <1>2 DEF Id
<1>7. log[n][i].client \in Client /\ log[n][i].serial \in Nat
  BY <1>2, <1>5, EntryIs
<1> QED BY <1>2, <1>4, <1>5, <1>6, <1>7

LEMMA ReceiveRequestKeepsWait ==
  ASSUME WaitInv, NEW msg \in network, msg.type = "request", ReceiveRequest(msg)
  PROVE  WaitInv'
<1> DEFINE n == msg.node
           e == Stamped(msg.command, msg.client, msg.serial)
           waiter == [client |-> msg.client, serial |-> msg.serial, attempt |-> msg.attempt]
<1>1. MessageIsSound(msg, calls)
  BY DEF WaitInv, MessagesAreSound
<1>2. /\ msg.client \in Client /\ msg.serial \in Nat /\ n \in Node
      /\ msg.command \in CommandsOf(msg.client, msg.serial)
      /\ msg.serial < Len(calls[msg.client])
  BY <1>1 DEF MessageIsSound
<1>3. /\ UNCHANGED <<chosen, commit, store, leads, leader_id, snapshot, latest>>
      /\ UNCHANGED clientVars
  BY DEF ReceiveRequest
<1>4. Shapes /\ WaitersMatchLog
  BY DEF WaitInv
<1>5. /\ calls' = calls /\ hint' = hint /\ CallsAreSound'
      /\ hint' \in [Client -> Node \cup {NoNode}]
      /\ calls' = [c \in Client |-> calls'[c]]
      /\ \A c \in Client : IsSequence(calls'[c])
  BY <1>3, CallsStay
<1>6. StoresAreSound'
  BY <1>3 DEF WaitInv, StoresAreSound
<1>7. MessagesAreSound'
  <2> DEFINE reply == Redirect(msg, leader_id[n])
  <2>1. \A m \in network' : m \in network \/ m = reply
    BY DEF ReceiveRequest
  <2>2. MessageIsSound(reply, calls)
    <3>1. leader_id[n] \in Node \cup {NoNode}
      BY <1>2, <1>4 DEF Shapes
    <3>2. /\ reply.type = "reply" /\ reply.client = msg.client /\ reply.serial = msg.serial
          /\ reply.leader_hint = leader_id[n]
      BY DEF Redirect
    <3> HIDE DEF reply, n
    <3> QED BY <1>2, <3>1, <3>2 DEF MessageIsSound
  <2> HIDE DEF reply
  <2> QED BY <1>5, <2>1, <2>2 DEF WaitInv, MessagesAreSound
<1>8. CASE ~ leads[n]
  <2>1. log' = log /\ pending' = pending
    BY <1>8 DEF ReceiveRequest
  <2>2. Shapes'
    BY <1>3, <1>4, <1>5, <2>1 DEF Shapes
  <2>3. LogsAreSound'
    BY <1>3, <1>5, <2>1 DEF WaitInv, LogsAreSound
  <2>4. WaitersMatchLog'
    BY <1>3, <1>4, <2>1 DEF WaitersMatchLog
  <2> QED BY <1>5, <1>6, <1>7, <2>2, <2>3, <2>4 DEF WaitInv
<1>9. CASE leads[n]
  <2> DEFINE last == Len(log[n]) + 1
  <2>1. /\ log' = [log EXCEPT ![n] = Append(@, e)]
        /\ pending' = [pending EXCEPT ![n] =
                [i \in DOMAIN @ \cup {last} |-> IF i = last THEN waiter ELSE @[i]]]
    BY <1>9 DEF ReceiveRequest
  <2>2. e = msg.command
    BY <1>2, StampedIs
  <2>3. e \in Entry /\ e.kind # "noop" /\ e.client = msg.client /\ e.serial = msg.serial
    BY <1>2, <2>2, CommandIsEntry
  <2>4. pending = [m \in Node |-> pending[m]]
    BY <1>4 DEF Shapes
  <2>5. /\ pending' = [m \in Node |-> pending'[m]]
        /\ \A m \in Node : m # n => pending'[m] = pending[m]
        /\ DOMAIN pending'[n] = DOMAIN pending[n] \cup {last}
        /\ pending'[n][last] = waiter
        /\ \A i \in DOMAIN pending[n] : i # last => pending'[n][i] = pending[n][i]
    <3> DEFINE p == [i \in DOMAIN pending[n] \cup {last} |->
                        IF i = last THEN waiter ELSE pending[n][i]]
    <3>1. /\ DOMAIN p = DOMAIN pending[n] \cup {last} /\ p[last] = waiter
          /\ \A i \in DOMAIN pending[n] : i # last => p[i] = pending[n][i]
      OBVIOUS
    <3>2. pending' = [pending EXCEPT ![n] = p]
      BY <2>1
    <3> HIDE DEF p, last, waiter
    <3>3. pending'[n] = p
      BY <1>2, <2>4, <3>2
    <3>4. pending' = [m \in Node |-> pending'[m]]
          /\ \A m \in Node : m # n => pending'[m] = pending[m]
      BY <1>2, <2>4, <3>2
    <3> QED BY <3>1, <3>3, <3>4
  <2> HIDE DEF e
  <2>6. /\ log' \in [Node -> Seq(Entry)]
        /\ Len(log[n]) \in Nat /\ Len(log'[n]) = Len(log[n]) + 1
        /\ log'[n][Len(log[n]) + 1] = e
        /\ \A i \in 1..Len(log[n]) : log'[n][i] = log[n][i]
        /\ \A m \in Node : m # n => log'[m] = log[m]
    BY <1>2, <2>1, <2>3, OneEntryMore
  <2>7. LogsAreSound'
    <3>1. UNCHANGED <<chosen, commit, calls>> /\ latest' = latest
      BY <1>3, <1>5
    <3>2. e.serial < Len(calls[e.client])
      BY <1>2, <2>3
    <3> QED BY <1>2, <2>1, <2>3, <3>1, <3>2, OneEntryMoreIsSound
  <2>8. Shapes'
    BY <1>3, <1>4, <1>5, <2>5, <2>6 DEF Shapes
  <2>9. ASSUME NEW m \in Node, NEW i \in DOMAIN pending'[m]
        PROVE  /\ leads[m] /\ i \in (store[m].last_applied + 1)..Len(log'[m])
               /\ log'[m][i].kind # "noop"
               /\ Id(log'[m][i].client, log'[m][i].serial)
                    = Id(pending'[m][i].client, pending'[m][i].serial)
    <3>1. CASE m # n
      BY <1>4, <2>5, <2>6, <2>9, <3>1 DEF WaitersMatchLog
    <3>2. CASE m = n /\ i = last
      <4>1. store[n].last_applied = commit[n] /\ commit[n] \in Nat /\ commit[n] <= Len(log[n])
        BY <1>2, LogIs DEF WaitInv, StoresAreSound
      <4>2. log'[n][last] = e /\ pending'[n][last] = waiter
        BY <2>5, <2>6
      <4>3. waiter.client = msg.client /\ waiter.serial = msg.serial
        OBVIOUS
      <4>4. last \in (store[n].last_applied + 1)..Len(log'[n])
        BY <2>6, <4>1
      <4> QED BY <1>9, <2>3, <3>2, <4>2, <4>3, <4>4
    <3>3. CASE m = n /\ i # last
      <4>1. i \in DOMAIN pending[n] /\ pending'[n][i] = pending[n][i]
        BY <2>5, <2>9, <3>3
      <4>2. i \in 1..Len(log[n]) /\ i \in (commit[n] + 1)..Len(log[n]) /\ commit[n] \in Nat
        BY <1>2, <4>1, WaiterIs, LogIs
      <4>3. log'[n][i] = log[n][i] /\ store[n].last_applied = commit[n]
        BY <1>2, <2>6, <4>2 DEF WaitInv, StoresAreSound
      <4>4. i \in (commit[n] + 1)..Len(log'[n])
        BY <2>6, <4>2
      <4>5. /\ log[n][i].kind # "noop"
            /\ Id(log[n][i].client, log[n][i].serial)
                 = Id(pending[n][i].client, pending[n][i].serial)
        BY <1>2, <1>4, <4>1 DEF WaitersMatchLog
      <4> QED BY <1>9, <3>3, <4>1, <4>3, <4>4, <4>5
    <3> QED BY <3>1, <3>2, <3>3
  <2>10. WaitersMatchLog'
    BY <1>3, <2>9 DEF WaitersMatchLog
  <2> QED BY <1>5, <1>6, <1>7, <2>7, <2>8, <2>10 DEF WaitInv
<1> QED BY <1>8, <1>9
\* A node that does not lead has nobody waiting.
LEMMA NobodyWaits ==
  ASSUME WaitInv, NEW n \in Node, ~ leads[n]
  PROVE  DOMAIN pending[n] = {}
<1> SUFFICES ASSUME NEW i \in DOMAIN pending[n] PROVE FALSE
  OBVIOUS
<1> QED BY WaiterIs

LEMMA ElectKeepsWait ==
  ASSUME WaitInv, NEW n \in Node, Elect(n)
  PROVE  WaitInv'
<1>1. /\ ~ leads[n] /\ IsPrefix(chosen, log[n]) /\ latest' = n
      /\ leads' = [leads EXCEPT ![n] = TRUE]
      /\ leader_id' = [leader_id EXCEPT ![n] = n]
      /\ log' = [log EXCEPT ![n] = Append(@, NoOp)]
      /\ UNCHANGED <<chosen, commit, store, pending, snapshot>>
      /\ UNCHANGED clientVars /\ network' = network
  BY DEF Elect
<1>2. NoOp \in Entry /\ NoOp.kind = "noop"
  BY DEF Entry, NoOp
<1>3. Shapes
  BY DEF WaitInv
<1>4. /\ calls' = calls /\ hint' = hint /\ CallsAreSound'
      /\ hint' \in [Client -> Node \cup {NoNode}]
      /\ calls' = [c \in Client |-> calls'[c]]
      /\ \A c \in Client : IsSequence(calls'[c])
  BY <1>1, CallsStay
<1>5. MessagesAreSound' /\ StoresAreSound'
  BY <1>1, <1>4 DEF WaitInv, MessagesAreSound, StoresAreSound
<1> DEFINE e == NoOp
<1> HIDE DEF e
<1>6. e \in Entry /\ e.kind = "noop" /\ log' = [log EXCEPT ![n] = Append(@, e)]
  BY <1>1, <1>2 DEF e
<1>7. /\ log' \in [Node -> Seq(Entry)]
      /\ Len(log[n]) \in Nat /\ Len(log'[n]) = Len(log[n]) + 1
      /\ \A i \in 1..Len(log[n]) : log'[n][i] = log[n][i]
      /\ \A m \in Node : m # n => log'[m] = log[m]
  BY <1>6, OneEntryMore
<1>8. LogsAreSound'
  BY <1>1, <1>4, <1>6, OneEntryMoreIsSound
<1>9. Shapes'
  <2>1. leads' \in [Node -> BOOLEAN] /\ leader_id' \in [Node -> Node \cup {NoNode}]
    BY <1>1, <1>3 DEF Shapes
  <2>2. latest' \in Node
    BY <1>1
  <2>3. /\ chosen' = chosen /\ commit' = commit /\ store' = store /\ pending' = pending
        /\ snapshot' = snapshot
    BY <1>1
  <2> QED BY <1>3, <1>4, <1>7, <2>1, <2>2, <2>3 DEF Shapes
<1>10. WaitersMatchLog'
  <2>1. DOMAIN pending[n] = {}
    BY <1>1, NobodyWaits
  <2>2. \A m \in Node : m # n => leads'[m] = leads[m]
    BY <1>1, <1>3 DEF Shapes
  <2>3. store' = store /\ pending' = pending
    BY <1>1
  <2> QED BY <1>7, <2>1, <2>2, <2>3 DEF WaitInv, WaitersMatchLog
<1> QED BY <1>4, <1>5, <1>8, <1>9, <1>10 DEF WaitInv

LEMMA CampaignKeepsWait ==
  ASSUME WaitInv, NEW n \in Node, Campaign(n)
  PROVE  WaitInv'
<1>1. /\ leader_id' = [leader_id EXCEPT ![n] = NoNode]
      /\ UNCHANGED <<chosen, log, commit, store, leads, pending, snapshot, latest>>
      /\ UNCHANGED clientVars /\ network' = network
  BY DEF Campaign
<1>2. /\ calls' = calls /\ hint' = hint /\ CallsAreSound'
  BY <1>1, CallsStay
<1>3. Shapes'
  BY <1>1, <1>2 DEF WaitInv, Shapes
<1>4. MessagesAreSound' /\ StoresAreSound' /\ LogsAreSound' /\ WaitersMatchLog'
  BY <1>1, <1>2 DEF WaitInv, MessagesAreSound, StoresAreSound, LogsAreSound, WaitersMatchLog
<1> QED BY <1>2, <1>3, <1>4 DEF WaitInv

\* A node forgets who waits and follows; the logs stay.
LEMMA ForgettingKeepsWaiters ==
  ASSUME WaitInv, NEW n \in Node,
         pending' = [pending EXCEPT ![n] = Nobody],
         leads' = [leads EXCEPT ![n] = FALSE],
         \A m \in Node : m # n =>
            log'[m] = log[m] /\ store'[m] = store[m]
  PROVE  /\ WaitersMatchLog'
         /\ pending' = [m \in Node |-> pending'[m]]
         /\ leads' \in [Node -> BOOLEAN]
<1>1. pending = [m \in Node |-> pending[m]] /\ leads \in [Node -> BOOLEAN]
  BY DEF WaitInv, Shapes
<1>2. DOMAIN Nobody = {}
  BY DEF Nobody
<1>3. /\ pending' = [m \in Node |-> pending'[m]] /\ pending'[n] = Nobody
      /\ \A m \in Node : m # n => pending'[m] = pending[m] /\ leads'[m] = leads[m]
      /\ leads' \in [Node -> BOOLEAN]
  BY <1>1
<1>4. ASSUME NEW m \in Node, NEW i \in DOMAIN pending'[m]
      PROVE  m # n
  BY <1>2, <1>3, <1>4
<1> QED BY <1>3, <1>4 DEF WaitInv, WaitersMatchLog

LEMMA StepDownKeepsWait ==
  ASSUME WaitInv, NEW n \in Node, StepDown(n)
  PROVE  WaitInv'
<1>1. /\ leads' = [leads EXCEPT ![n] = FALSE]
      /\ pending' = [pending EXCEPT ![n] = Nobody]
      /\ UNCHANGED <<chosen, log, commit, store, leader_id, snapshot, latest>>
      /\ UNCHANGED clientVars /\ network' = network
  BY DEF StepDown
<1>2. /\ calls' = calls /\ hint' = hint /\ CallsAreSound'
  BY <1>1, CallsStay
<1>3. /\ WaitersMatchLog'
      /\ pending' = [m \in Node |-> pending'[m]]
      /\ leads' \in [Node -> BOOLEAN]
  BY <1>1, ForgettingKeepsWaiters
<1>4. Shapes'
  BY <1>1, <1>2, <1>3 DEF WaitInv, Shapes
<1>5. MessagesAreSound' /\ StoresAreSound' /\ LogsAreSound'
  BY <1>1, <1>2 DEF WaitInv, MessagesAreSound, StoresAreSound, LogsAreSound
<1> QED BY <1>2, <1>3, <1>4, <1>5 DEF WaitInv

\* A store rebuilt from a snapshot and the log is one at the commit index.
LEMMA RestartedIs ==
  ASSUME WaitInv, NEW n \in Node
  PROVE  IsStore(RestartedStore(n)) /\ RestartedStore(n).last_applied = commit[n]
<1> DEFINE s == RestoreFrom(snapshot[n])
<1>1. snapshot[n].last_applied \in Nat /\ snapshot[n].last_applied <= commit[n]
  BY DEF WaitInv, StoresAreSound
<1>2. commit[n] \in Nat
  BY LogIs
<1>3. IsStore(s) /\ s.last_applied = snapshot[n].last_applied
  BY <1>1 DEF RestoreFrom, IsStore
<1> HIDE DEF s
<1>4. commit[n] \in s.last_applied..commit[n] /\ s.last_applied <= commit[n]
  BY <1>1, <1>2, <1>3
<1>5. /\ IsStore(Applied(s, log[n], commit[n])[commit[n]].store)
      /\ Applied(s, log[n], commit[n])[commit[n]].store.last_applied = commit[n]
  BY <1>2, <1>3, <1>4, AppliedIsStore
<1> QED BY <1>5 DEF RestartedStore, s

LEMMA RestartKeepsWait ==
  ASSUME WaitInv, NEW n \in Node, Restart(n)
  PROVE  WaitInv'
<1>1. /\ store' = [store EXCEPT ![n] = RestartedStore(n)]
      /\ leads' = [leads EXCEPT ![n] = FALSE]
      /\ leader_id' = [leader_id EXCEPT ![n] = NoNode]
      /\ pending' = [pending EXCEPT ![n] = Nobody]
      /\ UNCHANGED <<chosen, log, commit, snapshot, latest>>
      /\ UNCHANGED clientVars /\ network' = network
  BY DEF Restart
<1>2. /\ calls' = calls /\ hint' = hint /\ CallsAreSound'
  BY <1>1, CallsStay
<1>3. /\ store' = [m \in Node |-> store'[m]] /\ store'[n] = RestartedStore(n)
      /\ \A m \in Node : m # n => store'[m] = store[m]
  <2>1. store = [m \in Node |-> store[m]]
    BY DEF WaitInv, Shapes
  <2> QED BY <1>1, <2>1
<1>4. /\ WaitersMatchLog'
      /\ pending' = [m \in Node |-> pending'[m]]
      /\ leads' \in [Node -> BOOLEAN]
  BY <1>1, <1>3, ForgettingKeepsWaiters
<1>5. Shapes'
  BY <1>1, <1>2, <1>3, <1>4 DEF WaitInv, Shapes
<1>6. MessagesAreSound' /\ LogsAreSound'
  BY <1>1, <1>2 DEF WaitInv, MessagesAreSound, LogsAreSound
<1>7. StoresAreSound'
  <2>1. IsStore(RestartedStore(n)) /\ RestartedStore(n).last_applied = commit[n]
    BY RestartedIs
  <2>2. commit' = commit /\ snapshot' = snapshot
    BY <1>1
  <2>3. \A m \in Node : IsStore(store'[m]) /\ store'[m].last_applied = commit[m]
    BY <1>3, <2>1 DEF WaitInv, StoresAreSound
  <2> QED BY <2>2, <2>3 DEF WaitInv, StoresAreSound
<1> QED BY <1>2, <1>4, <1>5, <1>6, <1>7 DEF WaitInv

\* What apply_committed does at a node.
LEMMA ApplyAtIs ==
  ASSUME WaitInv, NEW n \in Node, NEW lg, NEW to \in Nat, commit[n] <= to,
         ApplyAt(n, lg, to)
  PROVE  /\ store' = [m \in Node |-> store'[m]]
         /\ store'[n] = Applied(store[n], lg, to)[to].store
         /\ IsStore(store'[n]) /\ store'[n].last_applied = to
         /\ \A m \in Node : m # n => store'[m] = store[m] /\ snapshot'[m] = snapshot[m]
         /\ snapshot' = [m \in Node |-> snapshot'[m]]
         /\ snapshot'[n] = snapshot[n] \/ (Snapshots /\ snapshot'[n].last_applied = to)
         /\ \A msg \in network' :
              \/ msg \in network
              \/ \E i \in DOMAIN pending[n] :
                    /\ i \in (commit[n] + 1)..to
                    /\ msg = ClientReply(pending[n][i], Applied(store[n], lg, to)[i].result)
<1> DEFINE after == Applied(store[n], lg, to)
<1>1. IsStore(store[n]) /\ store[n].last_applied = commit[n] /\ commit[n] \in Nat
  BY LogIs DEF WaitInv, StoresAreSound
<1>2. IsStore(after[to].store) /\ after[to].store.last_applied = to
  <2>1. to \in store[n].last_applied..to /\ store[n].last_applied <= to
    BY <1>1
  <2> QED BY <1>1, <2>1, AppliedIsStore
<1>3. store = [m \in Node |-> store[m]] /\ snapshot = [m \in Node |-> snapshot[m]]
  BY DEF WaitInv, Shapes
<1>4. store' = [store EXCEPT ![n] = after[to].store]
  BY DEF ApplyAt
<1>5. snapshot' = snapshot
      \/ (Snapshots /\ snapshot' = [snapshot EXCEPT ![n] = Snapshot(after[to].store)])
  BY DEF ApplyAt
<1>6. \A msg \in network' :
        \/ msg \in network
        \/ \E i \in DOMAIN pending[n] :
              /\ i \in (commit[n] + 1)..to
              /\ msg = ClientReply(pending[n][i], after[i].result)
  BY <1>1 DEF ApplyAt
<1> DEFINE t == after[to].store
<1> HIDE DEF after, t
<1>7. /\ store' = [m \in Node |-> store'[m]] /\ store'[n] = t
      /\ \A m \in Node : m # n => store'[m] = store[m]
  BY <1>3, <1>4 DEF t
<1>8. /\ snapshot' = [m \in Node |-> snapshot'[m]]
      /\ \A m \in Node : m # n => snapshot'[m] = snapshot[m]
      /\ snapshot'[n] = snapshot[n] \/ (Snapshots /\ snapshot'[n].last_applied = to)
  <2>1. CASE snapshot' = snapshot
    BY <1>3, <2>1
  <2>2. CASE Snapshots /\ snapshot' = [snapshot EXCEPT ![n] = Snapshot(t)]
    <3>1. Snapshot(t).last_applied = to
      BY <1>2 DEF Snapshot, t
    <3> QED BY <1>3, <2>2, <3>1
  <2> QED BY <1>5, <2>1, <2>2 DEF t
<1> QED BY <1>2, <1>6, <1>7, <1>8 DEF after, t

\* Whose place comes to be applied is answered with what it made.
LEMMA AnswersAreSound ==
  ASSUME WaitInv, NEW n \in Node, NEW i \in DOMAIN pending[n], NEW result
  PROVE  MessageIsSound(ClientReply(pending[n][i], result), calls)
<1> DEFINE w == pending[n][i]
           r == ClientReply(w, result)
<1>1. w.client \in Client /\ w.serial \in Nat
  BY WaiterIs
<1> HIDE DEF w
<1>2. /\ r.type = "reply" /\ r.not_leader = FALSE
      /\ r.client = w.client /\ r.serial = w.serial
  BY DEF ClientReply
<1> HIDE DEF r
<1>3. MessageIsSound(r, calls)
  BY <1>1, <1>2 DEF MessageIsSound
<1> QED BY <1>3 DEF r, w

LEMMA ApplyingKeepsStores ==
  ASSUME WaitInv, NEW n \in Node, NEW lg, NEW to \in Nat, commit[n] <= to,
         ApplyAt(n, lg, to), commit' = [commit EXCEPT ![n] = to],
         calls' = calls
  PROVE  StoresAreSound' /\ MessagesAreSound'
<1>1. /\ IsStore(store'[n]) /\ store'[n].last_applied = to
      /\ \A m \in Node : m # n => store'[m] = store[m] /\ snapshot'[m] = snapshot[m]
      /\ snapshot'[n] = snapshot[n] \/ (Snapshots /\ snapshot'[n].last_applied = to)
      /\ \A msg \in network' :
              \/ msg \in network
              \/ \E i \in DOMAIN pending[n] :
                    /\ i \in (commit[n] + 1)..to
                    /\ msg = ClientReply(pending[n][i], Applied(store[n], lg, to)[i].result)
  BY ApplyAtIs
<1>2. commit \in [Node -> Nat]
  BY DEF WaitInv, Shapes
<1>3. commit'[n] = to /\ \A m \in Node : m # n => commit'[m] = commit[m]
  BY <1>2
<1>4. ASSUME NEW m \in Node
      PROVE  /\ IsStore(store'[m]) /\ store'[m].last_applied = commit'[m]
             /\ snapshot'[m].last_applied \in Nat /\ snapshot'[m].last_applied <= commit'[m]
  <2>1. /\ IsStore(store[m]) /\ store[m].last_applied = commit[m]
        /\ snapshot[m].last_applied \in Nat /\ snapshot[m].last_applied <= commit[m]
        /\ commit[m] \in Nat
    BY <1>2 DEF WaitInv, StoresAreSound
  <2>2. CASE m # n
    BY <1>1, <1>3, <2>1, <2>2
  <2>3. CASE m = n
    <3>1. IsStore(store'[n]) /\ store'[n].last_applied = commit'[n]
      BY <1>1, <1>3
    <3>2. snapshot'[n].last_applied \in Nat /\ snapshot'[n].last_applied <= to
      BY <1>1, <2>1, <2>3
    <3> QED BY <1>3, <2>3, <3>1, <3>2
  <2> QED BY <2>2, <2>3
<1>5. StoresAreSound'
  BY <1>4 DEF StoresAreSound
<1>6. MessagesAreSound'
  <2> SUFFICES ASSUME NEW msg \in network' PROVE MessageIsSound(msg, calls)
    BY DEF MessagesAreSound
  <2>1. CASE msg \in network
    BY <2>1 DEF WaitInv, MessagesAreSound
  <2>2. CASE msg \notin network
    <3>1. PICK i \in DOMAIN pending[n] :
            msg = ClientReply(pending[n][i], Applied(store[n], lg, to)[i].result)
      BY <1>1, <2>2
    <3> QED BY <3>1, AnswersAreSound
  <2> QED BY <2>1, <2>2
<1> QED BY <1>5, <1>6
LEMMA CommitKeepsWait ==
  ASSUME WaitInv, NEW n \in Node, Commit(n)
  PROVE  WaitInv'
<1> DEFINE to == Len(log[n])
<1>1. /\ n = latest /\ chosen' = log[n] /\ commit' = [commit EXCEPT ![n] = to]
      /\ ApplyAt(n, log[n], to)
      /\ pending' = [pending EXCEPT ![n] = StillPending(n, to)]
      /\ UNCHANGED <<log, leads, leader_id, latest>> /\ UNCHANGED clientVars
  BY DEF Commit
<1>2. Shapes /\ LogsAreSound /\ WaitersMatchLog
  BY DEF WaitInv
<1>3. /\ log[n] \in Seq(Entry) /\ to \in Nat /\ commit[n] \in Nat /\ commit[n] <= to
  BY LogIs
<1>4. /\ calls' = calls /\ hint' = hint /\ CallsAreSound'
      /\ hint' \in [Client -> Node \cup {NoNode}]
  BY <1>1, CallsStay
<1>5. /\ store' = [m \in Node |-> store'[m]]
      /\ snapshot' = [m \in Node |-> snapshot'[m]]
      /\ \A m \in Node : m # n => store'[m] = store[m]
  BY <1>1, <1>3, ApplyAtIs
<1>6. StoresAreSound' /\ MessagesAreSound'
  BY <1>1, <1>3, <1>4, ApplyingKeepsStores
<1>7. /\ commit' \in [Node -> Nat] /\ commit'[n] = to
      /\ \A m \in Node : m # n => commit'[m] = commit[m]
  BY <1>1, <1>2, <1>3 DEF Shapes
<1>8. /\ pending' = [m \in Node |-> pending'[m]]
      /\ \A m \in Node : m # n => pending'[m] = pending[m]
      /\ \A i \in DOMAIN pending'[n] : FALSE
  <2> DEFINE p == StillPending(n, to)
  <2>1. DOMAIN p = {j \in DOMAIN pending[n] : j > to}
    BY DEF StillPending
  <2>2. \A i \in DOMAIN p : FALSE
    <3> SUFFICES ASSUME NEW i \in DOMAIN p PROVE FALSE
      OBVIOUS
    <3>1. i \in DOMAIN pending[n] /\ i > to
      BY <2>1
    <3>2. i \in 1..to
      BY <3>1, WaiterIs
    <3> QED BY <1>3, <3>1, <3>2
  <2> HIDE DEF p
  <2>3. pending = [m \in Node |-> pending[m]]
    BY <1>2 DEF Shapes
  <2>4. pending' = [pending EXCEPT ![n] = p]
    BY <1>1 DEF p
  <2> QED BY <2>2, <2>3, <2>4
<1>9. Shapes'
  <2>1. chosen' \in Seq(Entry)
    BY <1>1, <1>3
  <2>2. log' = log /\ leads' = leads /\ leader_id' = leader_id /\ latest' = latest
    BY <1>1
  <2> QED BY <1>2, <1>4, <1>5, <1>7, <1>8, <2>1, <2>2 DEF Shapes
<1>10. LogsAreSound'
  <2>1. ASSUME NEW m \in Node
        PROVE  /\ commit'[m] <= Len(log[m]) /\ commit'[m] <= Len(log[n])
               /\ \A i \in 1..commit'[m] : log[m][i] = log[n][i]
               /\ \A i \in 1..Len(log[m]) :
                    log[m][i].kind # "noop" => log[m][i].serial < Len(calls[log[m][i].client])
    <3>1. /\ commit[m] <= Len(log[m]) /\ commit[m] <= Len(chosen) /\ commit[m] \in Nat
          /\ \A i \in 1..commit[m] : log[m][i] = chosen[i]
          /\ \A i \in 1..Len(log[m]) :
               log[m][i].kind # "noop" => log[m][i].serial < Len(calls[log[m][i].client])
          /\ Len(chosen) \in Nat /\ Len(chosen) <= Len(log[n])
          /\ \A i \in 1..Len(chosen) : log[n][i] = chosen[i]
      BY <1>1, <1>2, LogIs DEF LogsAreSound
    <3>2. CASE m = n
      BY <1>3, <1>7, <3>1, <3>2
    <3>3. CASE m # n
      BY <1>3, <1>7, <3>1, <3>3
    <3> QED BY <3>2, <3>3
  <2>2. log' = log /\ latest' = latest /\ n = latest /\ chosen' = log[n] /\ calls' = calls
    BY <1>1, <1>4
  <2>3. Len(log[n]) <= Len(log[n])
    BY <1>3
  <2> QED BY ONLY <2>1, <2>2, <2>3 DEF LogsAreSound
<1>11. WaitersMatchLog'
  <2>1. log' = log /\ leads' = leads
    BY <1>1
  <2> QED BY <1>2, <1>5, <1>8, <2>1 DEF WaitersMatchLog
<1> QED BY <1>4, <1>6, <1>9, <1>10, <1>11 DEF WaitInv

\* A follower is told of an index up to which its leader's log is chosen.
LEMMA FollowsIs ==
  ASSUME WaitInv, NEW n \in Node, Follow(n)
  PROVE  \E to \in Nat :
            /\ commit[n] <= to /\ to <= Len(chosen) /\ to <= Len(log[latest])
            /\ commit' = [commit EXCEPT ![n] = to]
            /\ ApplyAt(n, log[latest], to)
<1>1. PICK to \in {commit[n], commit[latest]} :
        to >= commit[n] /\ commit' = [commit EXCEPT ![n] = to] /\ ApplyAt(n, log[latest], to)
  BY DEF Follow, Merged
<1>2. /\ commit[n] \in Nat /\ commit[n] <= Len(chosen) /\ latest \in Node
      /\ Len(chosen) \in Nat /\ Len(log[latest]) \in Nat /\ Len(chosen) <= Len(log[latest])
  BY LogIs
<1>3. commit[latest] \in Nat /\ commit[latest] <= Len(chosen)
  BY <1>2, LogIs
<1>4. to \in Nat /\ commit[n] <= to /\ to <= Len(chosen) /\ to <= Len(log[latest])
  BY <1>1, <1>2, <1>3
<1> QED BY <1>1, <1>4

LEMMA FollowKeepsWait ==
  ASSUME WaitInv, NEW n \in Node, Follow(n)
  PROVE  WaitInv'
<1>1. /\ log' = [log EXCEPT ![n] = log[latest]]
      /\ leads' = [leads EXCEPT ![n] = FALSE]
      /\ leader_id' = [leader_id EXCEPT ![n] = latest]
      /\ pending' = [pending EXCEPT ![n] = Nobody]
      /\ UNCHANGED <<chosen, latest>> /\ UNCHANGED clientVars /\ n # latest
  BY DEF Follow, Merged
<1>2. PICK to \in Nat :
        /\ commit[n] <= to /\ to <= Len(chosen) /\ to <= Len(log[latest])
        /\ commit' = [commit EXCEPT ![n] = to]
        /\ ApplyAt(n, log[latest], to)
  BY FollowsIs
<1>3. Shapes /\ LogsAreSound
  BY DEF WaitInv
<1>4. /\ calls' = calls /\ hint' = hint /\ CallsAreSound'
      /\ hint' \in [Client -> Node \cup {NoNode}]
  BY <1>1, CallsStay
<1>5. latest \in Node /\ log[latest] \in Seq(Entry)
  <2>1. latest \in Node
    BY LogIs
  <2> QED BY <2>1, LogIs
<1>6. /\ store' = [m \in Node |-> store'[m]]
      /\ snapshot' = [m \in Node |-> snapshot'[m]]
      /\ \A m \in Node : m # n => store'[m] = store[m]
  BY <1>2, ApplyAtIs
<1>7. StoresAreSound' /\ MessagesAreSound'
  BY <1>2, <1>4, ApplyingKeepsStores
<1>8. /\ commit' \in [Node -> Nat] /\ commit'[n] = to
      /\ \A m \in Node : m # n => commit'[m] = commit[m]
  BY <1>2, <1>3 DEF Shapes
<1>9. /\ log' \in [Node -> Seq(Entry)] /\ log'[n] = log[latest]
      /\ \A m \in Node : m # n => log'[m] = log[m]
  BY <1>1, <1>3, <1>5 DEF Shapes
<1>10. /\ WaitersMatchLog'
       /\ pending' = [m \in Node |-> pending'[m]]
       /\ leads' \in [Node -> BOOLEAN]
  BY <1>1, <1>6, <1>9, ForgettingKeepsWaiters
<1>11. Shapes'
  <2>1. leader_id' \in [Node -> Node \cup {NoNode}] /\ chosen' = chosen /\ latest' = latest
    BY <1>1, <1>3, <1>5 DEF Shapes
  <2> QED BY <1>3, <1>4, <1>6, <1>8, <1>9, <1>10, <2>1 DEF Shapes
<1>12. LogsAreSound'
  <2>1. log'[latest] = log[latest] /\ chosen' = chosen /\ latest' = latest
    BY <1>1, <1>5, <1>9
  <2>2. /\ Len(chosen) <= Len(log[latest])
        /\ \A i \in 1..Len(chosen) : log[latest][i] = chosen[i]
        /\ Len(chosen) \in Nat
    BY <1>3, <1>5, LogIs DEF LogsAreSound
  <2>3. ASSUME NEW m \in Node
        PROVE  /\ commit'[m] <= Len(log'[m]) /\ commit'[m] <= Len(chosen)
               /\ \A i \in 1..commit'[m] : log'[m][i] = chosen[i]
               /\ \A i \in 1..Len(log'[m]) :
                    log'[m][i].kind # "noop"
                      => log'[m][i].serial < Len(calls[log'[m][i].client])
    <3>1. CASE m = n
      <4>1. \A i \in 1..Len(log[latest]) :
              log[latest][i].kind # "noop"
                => log[latest][i].serial < Len(calls[log[latest][i].client])
        BY <1>3, <1>5 DEF LogsAreSound
      <4>2. \A i \in 1..to : log[latest][i] = chosen[i]
        BY <1>2, <2>2
      <4> QED BY <1>2, <1>8, <1>9, <3>1, <4>1, <4>2
    <3>2. CASE m # n
      <4>1. log'[m] = log[m] /\ commit'[m] = commit[m]
        BY <1>8, <1>9, <3>2
      <4> QED BY <1>3, <4>1 DEF LogsAreSound
    <3> QED BY <3>1, <3>2
  <2> QED BY ONLY <1>4, <2>1, <2>2, <2>3 DEF LogsAreSound
<1> QED BY <1>4, <1>7, <1>10, <1>11, <1>12 DEF WaitInv

LEMMA StutterKeepsWait ==
  ASSUME WaitInv, UNCHANGED vars
  PROVE  WaitInv'
<1>1. UNCHANGED nodeVars /\ UNCHANGED clientVars /\ network' = network
  BY DEF vars
<1> QED BY <1>1, NothingMovesKeepsWait

LEMMA StepKeepsWait == WaitInv /\ [Next]_vars => WaitInv'
<1> SUFFICES ASSUME WaitInv, [Next]_vars PROVE WaitInv'
  OBVIOUS
<1>1. CASE \E c \in Client, kind \in Kinds : Call(c, kind)
  BY <1>1, CallKeepsWait
<1>2. CASE \E c \in Client : \E k \in DOMAIN calls[c] : Retry(c, k) \/ Timeout(c, k)
  BY <1>2, RetryKeepsWait, TimeoutKeepsWait
<1>3. CASE \E c \in Client : \E k \in DOMAIN calls[c] : \E msg \in network :
              msg.type = "reply" /\ msg.client = c /\ ReceiveReply(c, k, msg)
  BY <1>3, ReceiveReplyKeepsWait
<1>4. CASE \E msg \in network : (msg.type = "request" /\ ReceiveRequest(msg)) \/ Lose(msg)
  BY <1>4, ReceiveRequestKeepsWait, LoseKeepsWait
<1>5. CASE \E n \in Node :
        Elect(n) \/ Campaign(n) \/ Commit(n) \/ Follow(n) \/ StepDown(n) \/ Restart(n)
  BY <1>5, ElectKeepsWait, CampaignKeepsWait, CommitKeepsWait, FollowKeepsWait,
     StepDownKeepsWait, RestartKeepsWait
<1>6. CASE UNCHANGED vars
  BY <1>6, StutterKeepsWait
<1> QED BY <1>1, <1>2, <1>3, <1>4, <1>5, <1>6 DEF Next

\* Who waits at a leader waits for an index that is still to be applied and
\* that holds the request it sent, whatever was lost, retried, deposed or
\* restarted, with snapshots or without (raft/node.py, the pending requests).
THEOREM NobodyWaitsForAnother == Spec => []WaitersMatchLog
<1>1. WaitInv => WaitersMatchLog
  BY DEF WaitInv
<1> QED BY <1>1, InitWait, StepKeepsWait, PTL DEF Spec
-----------------------------------------------------------------------------
(***************************************************************************)
(* Every replica is a replay of the chosen log.                            *)
(***************************************************************************)
ReplayInv == WaitInv /\ StoresAreReplays

LEMMA InitReplay == Init => ReplayInv
<1> SUFFICES ASSUME Init PROVE StoresAreReplays
  BY InitWait DEF ReplayInv
<1>1. \A n \in Node : store[n] = EmptyStore /\ commit[n] = 0 /\ snapshot[n] = Snapshot(EmptyStore)
  BY DEF Init
<1>2. At(chosen, 0).store = EmptyStore
  <2>1. At(chosen, 0) = Start(EmptyStore)
    BY AtZero
  <2>2. Start(EmptyStore).store = EmptyStore
    BY DEF Start
  <2> QED BY <2>1, <2>2
<1> QED BY <1>1, <1>2 DEF StoresAreReplays

\* The store of a node, continued along a log that agrees with what it applied.
LEMMA ReplayContinues ==
  ASSUME ReplayInv, NEW n \in Node, NEW lg, NEW to \in Nat, commit[n] <= to,
         \A i \in 1..commit[n] : lg[i] = chosen[i]
  PROVE  /\ \A i \in (commit[n] + 1)..to : Applied(store[n], lg, to)[i] = At(lg, i)
         /\ Applied(store[n], lg, to)[to].store = At(lg, to).store
<1>1. commit[n] \in Nat
  BY LogIs DEF ReplayInv
<1>2. At(lg, commit[n]) = At(chosen, commit[n])
  BY <1>1, AtAgrees
<1>3. store[n] = At(lg, commit[n]).store
  BY <1>2 DEF ReplayInv, StoresAreReplays
<1> QED BY <1>1, <1>3, AtContinues

LEMMA CommitKeepsReplay ==
  ASSUME ~ Snapshots, ReplayInv, NEW n \in Node, Commit(n)
  PROVE  StoresAreReplays'
<1> DEFINE to == Len(log[n])
<1>1. /\ n = latest /\ chosen' = log[n] /\ commit' = [commit EXCEPT ![n] = to]
      /\ ApplyAt(n, log[n], to)
  BY DEF Commit
<1>2. WaitInv /\ StoresAreReplays
  BY DEF ReplayInv
<1>3. /\ to \in Nat /\ commit[n] \in Nat /\ commit[n] <= to
      /\ commit \in [Node -> Nat]
  BY <1>2, LogIs DEF WaitInv, Shapes
<1>4. /\ store'[n] = Applied(store[n], log[n], to)[to].store
      /\ \A m \in Node : m # n => store'[m] = store[m] /\ snapshot'[m] = snapshot[m]
      /\ snapshot'[n] = snapshot[n]
  BY <1>1, <1>2, <1>3, ApplyAtIs
<1>5. commit'[n] = to /\ \A m \in Node : m # n => commit'[m] = commit[m]
  BY <1>1, <1>3
<1>6. \A i \in 1..commit[n] : log[n][i] = chosen[i]
  BY <1>2 DEF WaitInv, LogsAreSound
<1>7. store'[n] = At(log[n], to).store
  BY <1>3, <1>4, <1>6, ReplayContinues
<1>8. ASSUME NEW m \in Node
      PROVE  store'[m] = At(log[n], commit'[m]).store /\ snapshot'[m] = Snapshot(EmptyStore)
  <2>1. CASE m = n
    BY <1>2, <1>4, <1>5, <1>7, <2>1 DEF StoresAreReplays
  <2>2. CASE m # n
    <3>1. commit[m] \in Nat /\ commit[m] <= Len(chosen) /\ Len(chosen) \in Nat
      BY <1>2, LogIs
    <3>2. \A i \in 1..Len(chosen) : log[n][i] = chosen[i]
      BY <1>1, <1>2 DEF WaitInv, LogsAreSound
    <3>3. \A i \in 1..commit[m] : log[n][i] = chosen[i]
      BY <3>1, <3>2
    <3>4. At(log[n], commit[m]) = At(chosen, commit[m])
      BY <3>1, <3>3, AtAgrees
    <3> QED BY <1>2, <1>4, <1>5, <2>2, <3>4 DEF StoresAreReplays
  <2> QED BY <2>1, <2>2
<1> QED BY <1>1, <1>8 DEF StoresAreReplays

LEMMA FollowKeepsReplay ==
  ASSUME ~ Snapshots, ReplayInv, NEW n \in Node, Follow(n)
  PROVE  StoresAreReplays'
<1>1. WaitInv /\ StoresAreReplays
  BY DEF ReplayInv
<1>2. PICK to \in Nat :
        /\ commit[n] <= to /\ to <= Len(chosen) /\ to <= Len(log[latest])
        /\ commit' = [commit EXCEPT ![n] = to]
        /\ ApplyAt(n, log[latest], to)
  BY <1>1, FollowsIs
<1>3. /\ commit[n] \in Nat /\ Len(chosen) \in Nat /\ commit \in [Node -> Nat]
  BY <1>1, LogIs DEF WaitInv, Shapes
<1>4. /\ store'[n] = Applied(store[n], log[latest], to)[to].store
      /\ \A m \in Node : m # n => store'[m] = store[m] /\ snapshot'[m] = snapshot[m]
      /\ snapshot'[n] = snapshot[n]
  BY <1>1, <1>2, ApplyAtIs
<1>5. commit'[n] = to /\ \A m \in Node : m # n => commit'[m] = commit[m]
  BY <1>2, <1>3
<1>6. \A i \in 1..Len(chosen) : log[latest][i] = chosen[i]
  BY <1>1 DEF WaitInv, LogsAreSound
<1>7. /\ \A i \in 1..commit[n] : log[latest][i] = chosen[i]
      /\ \A i \in 1..to : log[latest][i] = chosen[i]
  BY <1>2, <1>3, <1>6
<1>8. store'[n] = At(log[latest], to).store
  BY <1>2, <1>4, <1>7, ReplayContinues
<1>9. At(log[latest], to) = At(chosen, to)
  BY <1>7, AtAgrees
<1>10. chosen' = chosen
  BY DEF Follow
<1> QED BY <1>1, <1>4, <1>5, <1>8, <1>9, <1>10 DEF StoresAreReplays

LEMMA RestartKeepsReplay ==
  ASSUME ReplayInv, NEW n \in Node, Restart(n)
  PROVE  StoresAreReplays'
<1>1. WaitInv /\ StoresAreReplays
  BY DEF ReplayInv
<1>2. /\ store' = [store EXCEPT ![n] = RestartedStore(n)]
      /\ chosen' = chosen /\ commit' = commit /\ snapshot' = snapshot
  BY DEF Restart
<1>3. store = [m \in Node |-> store[m]]
  BY <1>1 DEF WaitInv, Shapes
<1>4. store'[n] = RestartedStore(n) /\ \A m \in Node : m # n => store'[m] = store[m]
  BY <1>2, <1>3
<1>5. RestoreFrom(snapshot[n]) = EmptyStore
  BY <1>1, EmptySnapshot DEF StoresAreReplays
<1>6. RestartedStore(n) = At(log[n], commit[n]).store
  BY <1>5 DEF RestartedStore, At
<1>7. At(log[n], commit[n]) = At(chosen, commit[n])
  <2>1. commit[n] \in Nat
    BY <1>1, LogIs
  <2>2. \A i \in 1..commit[n] : log[n][i] = chosen[i]
    BY <1>1 DEF WaitInv, LogsAreSound
  <2> QED BY <2>1, <2>2, AtAgrees
<1> QED BY <1>1, <1>2, <1>4, <1>6, <1>7 DEF StoresAreReplays

LEMMA StillReplays ==
  ASSUME ReplayInv, UNCHANGED <<chosen, commit, store, snapshot>>
  PROVE  StoresAreReplays'
<1>1. chosen' = chosen /\ commit' = commit /\ store' = store /\ snapshot' = snapshot
  OBVIOUS
<1> QED BY <1>1 DEF ReplayInv, StoresAreReplays

LEMMA StepKeepsReplay ==
  ASSUME ~ Snapshots
  PROVE  ReplayInv /\ [Next]_vars => ReplayInv'
<1> SUFFICES ASSUME ReplayInv, [Next]_vars PROVE StoresAreReplays'
  BY StepKeepsWait DEF ReplayInv
<1>1. UNCHANGED nodeVars => StoresAreReplays'
  BY StillReplays DEF nodeVars
<1>2. CASE \E c \in Client, kind \in Kinds : Call(c, kind)
  BY <1>1, <1>2 DEF Call
<1>3. CASE \E c \in Client : \E k \in DOMAIN calls[c] : Retry(c, k) \/ Timeout(c, k)
  <2>1. PICK c \in Client : \E k \in DOMAIN calls[c] : Retry(c, k) \/ Timeout(c, k)
    BY <1>3
  <2>2. PICK k \in DOMAIN calls[c] : Retry(c, k) \/ Timeout(c, k)
    BY <2>1
  <2>3. CASE Retry(c, k)
    BY <1>1, <2>3 DEF Retry
  <2>4. CASE Timeout(c, k)
    BY <1>1, <2>4 DEF Timeout
  <2> QED BY <2>2, <2>3, <2>4
<1>4. CASE \E c \in Client : \E k \in DOMAIN calls[c] : \E msg \in network :
              msg.type = "reply" /\ msg.client = c /\ ReceiveReply(c, k, msg)
  BY <1>1, <1>4 DEF ReceiveReply
<1>5. CASE \E msg \in network : (msg.type = "request" /\ ReceiveRequest(msg)) \/ Lose(msg)
  <2>1. PICK msg \in network : ReceiveRequest(msg) \/ Lose(msg)
    BY <1>5
  <2>2. UNCHANGED <<chosen, commit, store, snapshot>>
    BY <2>1 DEF ReceiveRequest, Lose, nodeVars
  <2> QED BY <2>2, StillReplays
<1>6. CASE \E n \in Node : Elect(n) \/ Campaign(n) \/ StepDown(n)
  <2>1. UNCHANGED <<chosen, commit, store, snapshot>>
    BY <1>6 DEF Elect, Campaign, StepDown
  <2> QED BY <2>1, StillReplays
<1>7. CASE \E n \in Node : Commit(n) \/ Follow(n) \/ Restart(n)
  BY <1>7, CommitKeepsReplay, FollowKeepsReplay, RestartKeepsReplay
<1>8. CASE UNCHANGED vars
  BY <1>1, <1>8 DEF vars
<1> QED BY <1>2, <1>3, <1>4, <1>5, <1>6, <1>7, <1>8 DEF Next

\* What a replica has applied is sound.
LEMMA ReplicasAreSound ==
  ASSUME ReplayInv, NEW n \in Node
  PROVE  Sound(store[n])
<1>1. commit[n] \in Nat /\ commit[n] <= Len(chosen) /\ Len(chosen) \in Nat
      /\ chosen \in Seq(Entry)
  BY LogIs DEF ReplayInv
<1>2. \A k \in 1..Len(chosen) : chosen[k] \in Entry
  BY <1>1
<1>3. commit[n] \in 0..Len(chosen)
  BY <1>1
<1>4. Sound(At(chosen, commit[n]).store)
  BY <1>1, <1>2, <1>3, AtSound
<1> QED BY <1>4 DEF ReplayInv, StoresAreReplays

\* "Applied in index order, exactly once" (kv/store.py): while no snapshot is
\* taken, a client's requests take effect at most once each at every replica,
\* in the order it issued them, through any retries, elections and restarts.
THEOREM EachRequestOnce ==
  ASSUME ~ Snapshots
  PROVE  Spec => []AppliedOnce
<1>1. ReplayInv => AppliedOnce
  BY ReplicasAreSound DEF AppliedOnce, Sound, InOrder
<1> QED BY <1>1, InitReplay, StepKeepsReplay, PTL DEF Spec

\* "Given the same committed log prefix, every replica's KVStore holds
\* byte-identical state" (kv/store.py): while no snapshot is taken, whatever
\* the batches it was applied in and whoever restarted.
THEOREM SamePrefixSameState ==
  ASSUME ~ Snapshots
  PROVE  Spec => []ReplicasAgree
<1>1. ReplayInv => ReplicasAgree
  <2> SUFFICES ASSUME ReplayInv, NEW m \in Node, NEW n \in Node,
                      store[m].last_applied = store[n].last_applied
               PROVE  store[m].data = store[n].data
    BY DEF ReplicasAgree
  <2>1. store[m].last_applied = commit[m] /\ store[n].last_applied = commit[n]
    BY DEF ReplayInv, WaitInv, StoresAreSound
  <2>2. store[m] = At(chosen, commit[m]).store /\ store[n] = At(chosen, commit[n]).store
    BY DEF ReplayInv, StoresAreReplays
  <2> QED BY <2>1, <2>2
<1> QED BY <1>1, InitReplay, StepKeepsReplay, PTL DEF Spec
-----------------------------------------------------------------------------
(***************************************************************************)
(* Answers.                                                                *)
(***************************************************************************)
OwnInv == ReplayInv /\ AnswerInv

\* What takes effect is in the log.
LEMMA EffectsAreLogged ==
  ASSUME NEW lg, NEW to \in Nat, \A k \in 1..to : lg[k] \in Entry
  PROVE  \A i \in 0..to : \A j \in DOMAIN At(lg, i).store.effects :
            \E k \in 1..i :
                /\ lg[k].kind # "noop"
                /\ At(lg, i).store.effects[j] = <<lg[k].client, lg[k].serial>>
<1> DEFINE Logged(i) ==
        \A j \in DOMAIN At(lg, i).store.effects :
            \E k \in 1..i :
                /\ lg[k].kind # "noop"
                /\ At(lg, i).store.effects[j] = <<lg[k].client, lg[k].serial>>
           S == {i \in Nat : i <= to => Logged(i)}
<1>1. 0 \in S
  <2>1. At(lg, 0) = Start(EmptyStore)
    BY AtZero
  <2>2. Start(EmptyStore).store.effects = <<>>
    BY DEF Start, EmptyStore
  <2> QED BY <2>1, <2>2
<1>2. ASSUME NEW i \in S PROVE i + 1 \in S
  <2> SUFFICES ASSUME i + 1 <= to PROVE Logged(i + 1)
    BY <1>2
  <2>1. i \in Nat /\ i <= to /\ i + 1 \in 1..to /\ i + 1 \in Nat /\ Logged(i)
    BY <1>2
  <2> DEFINE s == At(lg, i).store
             t == At(lg, i + 1).store
             e == lg[i + 1]
  <2>2. t = ApplyOne(s, e).store
    <3>1. At(lg, i + 1) = ApplyOne(At(lg, i).store, lg[i + 1])
      BY <2>1, AtNext
    <3> QED BY <3>1
  <2>3. IsStore(s)
    BY <2>1, AtIsStore
  <2>4. Sound(s)
    <3>1. i \in 0..to
      BY <2>1
    <3> QED BY <3>1, AtSound
  <2>5. ASSUME NEW j \in DOMAIN s.effects
        PROVE  \E k \in 1..(i + 1) :
                 lg[k].kind # "noop" /\ s.effects[j] = <<lg[k].client, lg[k].serial>>
    <3>1. PICK k \in 1..i : lg[k].kind # "noop" /\ s.effects[j] = <<lg[k].client, lg[k].serial>>
      BY <2>1, <2>5
    <3>2. k \in 1..(i + 1)
      BY <2>1
    <3> QED BY <3>1, <3>2
  <2>6. i + 1 \in 1..(i + 1)
    BY <2>1
  <2> HIDE DEF s, t
  <2>7. CASE e.kind = "noop" \/ AlreadyApplied(s, e)
    <3>1. t.effects = s.effects
      BY <2>2, <2>3, <2>7, NothingNew
    <3>2. \A j \in DOMAIN t.effects : \E k \in 1..(i + 1) :
             lg[k].kind # "noop" /\ t.effects[j] = <<lg[k].client, lg[k].serial>>
      BY <2>5, <3>1
    <3> QED BY <3>2 DEF t
  <2>8. CASE e.kind # "noop" /\ ~ AlreadyApplied(s, e)
    <3>1. t.effects = Append(s.effects, <<e.client, e.serial>>)
      BY <2>2, <2>8, SomethingNew
    <3>2. s.effects \in Seq(Client \X Nat)
      BY <2>4 DEF Sound
    <3>3. e \in Entry
      BY <2>1
    <3>4. <<e.client, e.serial>> \in Client \X Nat
      BY <2>8, <3>3, EntryIs
    <3>5. ASSUME NEW j \in DOMAIN t.effects
          PROVE  \E k \in 1..(i + 1) :
                   lg[k].kind # "noop" /\ t.effects[j] = <<lg[k].client, lg[k].serial>>
      <4>1. CASE j \in DOMAIN s.effects
        <5>1. t.effects[j] = s.effects[j]
          BY <3>1, <3>2, <3>4, <4>1
        <5> QED BY <2>5, <4>1, <5>1
      <4>2. CASE j \notin DOMAIN s.effects
        <5>1. t.effects[j] = <<e.client, e.serial>>
          <6> DEFINE x == <<e.client, e.serial>>
          <6> HIDE DEF x
          <6>1. t.effects = Append(s.effects, x) /\ x \in Client \X Nat
            BY <3>1, <3>4 DEF x
          <6>2. DOMAIN s.effects = 1..Len(s.effects) /\ Len(s.effects) \in Nat
            BY <3>2
          <6>3. DOMAIN t.effects = 1..(Len(s.effects) + 1)
            BY <3>2, <6>1
          <6>4. j = Len(s.effects) + 1
            BY <4>2, <6>2, <6>3
          <6>5. t.effects[j] = x
            BY <3>2, <6>1, <6>4, AppendProperties
          <6> QED BY <6>5 DEF x
        <5> QED BY <2>6, <2>8, <5>1
      <4> QED BY <4>1, <4>2
    <3> QED BY <3>5 DEF t
  <2> QED BY <2>7, <2>8
<1> HIDE DEF S
<1>3. S = Nat
  <2>1. S \in SUBSET Nat
    BY DEF S
  <2> QED BY <1>1, <1>2, <2>1, CountingUp
<1> QED BY <1>3 DEF S

\* An entry of the log is answered as what it is, unless the client has
\* issued a later request by then.
LEMMA AnswerIsOwn ==
  ASSUME NEW lg \in Seq(Entry), NEW i \in 1..Len(lg), lg[i].kind # "noop",
         NEW cs,
         \A k \in 1..Len(lg) : lg[k].kind # "noop" => lg[k].serial < Len(cs[lg[k].client]),
         Len(cs[lg[i].client]) \in Nat
  PROVE  \/ AnsweredWith(lg, lg[i].client, lg[i].serial, At(lg, i).result)
         \/ lg[i].serial + 1 < Len(cs[lg[i].client])
<1> DEFINE j == i - 1
           s == At(lg, j).store
           e == lg[i]
           c == e.client
           t == At(lg, i).store
<1>1. /\ Len(lg) \in Nat /\ DOMAIN lg = 1..Len(lg) /\ i \in Nat /\ j \in Nat /\ j + 1 = i
      /\ j \in 0..Len(lg) /\ j \in 0..i
  OBVIOUS
<1>2. \A k \in 1..Len(lg) : lg[k] \in Entry
  OBVIOUS
<1>3. e \in Entry /\ c \in Client /\ e.serial \in Nat
  BY <1>2, EntryIs
<1>4. t = ApplyOne(s, e).store
  <2> HIDE DEF j
  <2>1. At(lg, j + 1) = ApplyOne(At(lg, j).store, lg[j + 1])
    BY <1>1, AtNext
  <2> QED BY <1>1, <2>1
<1>5. IsStore(s) /\ Sound(s)
  BY <1>1, <1>2, AtIsStore, AtSound
<1>6. \A x \in DOMAIN s.effects : \E k \in 1..j :
         lg[k].kind # "noop" /\ s.effects[x] = <<lg[k].client, lg[k].serial>>
  BY <1>1, <1>2, EffectsAreLogged
<1> HIDE DEF s, t, j
<1>7. ASSUME NEW x \in DOMAIN t.effects, t.effects[x] = <<c, e.serial>>
      PROVE  AnsweredWith(lg, c, e.serial, At(lg, i).result)
  <2>1. Id(c, e.serial) \in Range(At(lg, i).store.effects)
    BY <1>7 DEF Range, Id, t
  <2> QED BY <1>1, <2>1 DEF AnsweredWith
<1>8. CASE ~ AlreadyApplied(s, e)
  <2>1. t.effects = Append(s.effects, <<c, e.serial>>)
    <3>1. e.kind # "noop"
      OBVIOUS
    <3> HIDE DEF e
    <3>2. ApplyOne(s, e).store.effects = Append(s.effects, <<e.client, e.serial>>)
      BY ONLY <1>8, <3>1, SomethingNew
    <3> QED BY <1>4, <3>2
  <2>2. s.effects \in Seq(Client \X Nat) /\ <<c, e.serial>> \in Client \X Nat
    BY <1>3, <1>5 DEF Sound
  <2>3. Len(s.effects) + 1 \in DOMAIN t.effects /\ t.effects[Len(s.effects) + 1] = <<c, e.serial>>
    <3> DEFINE x == <<c, e.serial>>
    <3> HIDE DEF x
    <3>1. t.effects = Append(s.effects, x) /\ x \in Client \X Nat
      BY <2>1, <2>2 DEF x
    <3>2. t.effects[Len(s.effects) + 1] = x /\ Len(s.effects) + 1 \in DOMAIN t.effects
      BY <2>2, <3>1, AppendProperties
    <3> QED BY <3>2 DEF x
  <2> QED BY <1>7, <2>3
<1>9. CASE AlreadyApplied(s, e)
  <2>1. t.effects = s.effects
    BY <1>4, <1>5, <1>9, NothingNew
  <2>2. c \in DOMAIN s.sessions /\ e.serial <= s.sessions[c].serial
    BY <1>9 DEF AlreadyApplied
  <2>3. PICK x \in DOMAIN s.effects : s.effects[x] = <<c, s.sessions[c].serial>>
    BY <1>5, <2>2 DEF Sound
  <2>4. s.sessions[c].serial \in Nat
    BY <1>5, <2>2 DEF Sound
  <2>5. CASE e.serial = s.sessions[c].serial
    BY <1>7, <2>1, <2>3, <2>5
  <2>6. CASE e.serial # s.sessions[c].serial
    <3>1. PICK k \in 1..j : lg[k].kind # "noop" /\ s.effects[x] = <<lg[k].client, lg[k].serial>>
      BY <1>6
    <3>2. lg[k].client = c /\ lg[k].serial = s.sessions[c].serial
      BY <2>3, <3>1
    <3>3. k \in 1..Len(lg)
      BY <1>1
    <3>4. s.sessions[c].serial < Len(cs[c])
      BY <3>1, <3>2, <3>3
    <3> QED BY <1>3, <2>2, <2>4, <2>6, <3>4
  <2> QED BY <2>5, <2>6
<1> QED BY <1>8, <1>9

\* What the log answers, a longer one answers too.
LEMMA AnsweredStays ==
  ASSUME NEW lg \in Seq(Entry), NEW more \in Seq(Entry), Len(lg) <= Len(more),
         \A i \in 1..Len(lg) : more[i] = lg[i],
         NEW c, NEW serial, NEW result, AnsweredWith(lg, c, serial, result)
  PROVE  AnsweredWith(more, c, serial, result)
<1>1. PICK i \in DOMAIN lg :
        /\ lg[i].kind # "noop"
        /\ Id(lg[i].client, lg[i].serial) = Id(c, serial)
        /\ At(lg, i).result = result
        /\ Id(c, serial) \in Range(At(lg, i).store.effects)
  BY DEF AnsweredWith
<1>2. /\ i \in Nat /\ i \in DOMAIN more /\ more[i] = lg[i]
      /\ \A k \in 1..i : more[k] = lg[k]
  <2>1. /\ DOMAIN lg = 1..Len(lg) /\ DOMAIN more = 1..Len(more)
        /\ Len(lg) \in Nat /\ Len(more) \in Nat
    OBVIOUS
  <2> QED BY <2>1
<1>3. At(more, i) = At(lg, i)
  BY <1>2, AtAgrees
<1> QED BY <1>1, <1>2, <1>3 DEF AnsweredWith

\* What is promised of answers, in the words of the specification.
LEMMA OwnMeans ==
  PromisedAnswersAreOwn => LatestAnswerIsOwn /\ (Burst = 1 => AnswersAreOwn)
<1>1. \A c \in Client : \A k \in DOMAIN calls[c] :
        AnsweredWith(chosen, c, k - 1, calls[c][k].result) => AnsweredByLog(c, k)
  BY DEF AnsweredWith, AnsweredByLog, At
<1> QED BY <1>1 DEF PromisedAnswersAreOwn, Promised, LatestAnswerIsOwn, AnswersAreOwn,
                    HasReturned, Calls

LEMMA InitOwn == Init => OwnInv
<1> SUFFICES ASSUME Init PROVE AnswerInv
  BY InitReplay DEF OwnInv
<1>1. network = {} /\ \A c \in Client : calls[c] = <<>>
  BY DEF Init
<1>2. \A c \in Client : DOMAIN calls[c] = {}
  BY <1>1
<1> QED BY <1>1, <1>2 DEF AnswerInv, OnlyTheLastIsInProgress, RepliesAreOwn,
                          PromisedAnswersAreOwn

\* A node's step leaves the calls alone, adds to the chosen log at most, and
\* sends answers that are the log's.
LEMMA NodeStepKeepsOwn ==
  ASSUME OwnInv, UNCHANGED clientVars, chosen' \in Seq(Entry), Len(chosen) <= Len(chosen'),
         \A i \in 1..Len(chosen) : chosen'[i] = chosen[i],
         \A msg \in network' : msg \in network \/ Own(msg, chosen', calls)
  PROVE  AnswerInv'
<1>1. calls' = calls
  BY DEF clientVars
<1>2. chosen \in Seq(Entry)
  BY DEF OwnInv, ReplayInv, WaitInv, Shapes
<1>3. OnlyTheLastIsInProgress'
  BY <1>1 DEF OwnInv, AnswerInv, OnlyTheLastIsInProgress
<1>4. RepliesAreOwn'
  <2> SUFFICES ASSUME NEW msg \in network', msg \in network PROVE Own(msg, chosen', calls)
    BY <1>1 DEF RepliesAreOwn
  <2>1. Own(msg, chosen, calls)
    BY DEF OwnInv, AnswerInv, RepliesAreOwn
  <2>2. ASSUME AnsweredWith(chosen, msg.client, msg.serial, msg.result)
        PROVE  AnsweredWith(chosen', msg.client, msg.serial, msg.result)
    BY <1>2, <2>2, AnsweredStays
  <2> QED BY <2>1, <2>2 DEF Own
<1>5. PromisedAnswersAreOwn'
  <2> SUFFICES ASSUME NEW c \in Client, NEW k \in DOMAIN calls[c],
                      calls[c][k].pc = "returned", Promised(k, calls[c])
               PROVE  AnsweredWith(chosen', c, k - 1, calls[c][k].result)
    BY <1>1 DEF PromisedAnswersAreOwn
  <2>1. AnsweredWith(chosen, c, k - 1, calls[c][k].result)
    BY DEF OwnInv, AnswerInv, PromisedAnswersAreOwn
  <2> QED BY <1>2, <2>1, AnsweredStays
<1> QED BY <1>3, <1>4, <1>5 DEF AnswerInv

\* What a commit answers is the log's.
LEMMA CommitKeepsOwn ==
  ASSUME OwnInv, NEW n \in Node, Commit(n)
  PROVE  AnswerInv'
<1> DEFINE to == Len(log[n])
<1>1. /\ n = latest /\ chosen' = log[n] /\ ApplyAt(n, log[n], to) /\ UNCHANGED clientVars
  BY DEF Commit
<1>2. ReplayInv /\ WaitInv
  BY DEF OwnInv, ReplayInv
<1>3. /\ log[n] \in Seq(Entry) /\ to \in Nat /\ commit[n] \in Nat /\ commit[n] <= to
      /\ Len(chosen) <= to
  BY <1>1, <1>2, LogIs
<1>4. \A i \in 1..Len(chosen) : log[n][i] = chosen[i]
  BY <1>1, <1>2 DEF WaitInv, LogsAreSound
<1>5. \A msg \in network' :
        \/ msg \in network
        \/ \E i \in DOMAIN pending[n] :
              /\ i \in (commit[n] + 1)..to
              /\ msg = ClientReply(pending[n][i], Applied(store[n], log[n], to)[i].result)
  BY <1>1, <1>2, <1>3, ApplyAtIs
<1>6. \A i \in (commit[n] + 1)..to : Applied(store[n], log[n], to)[i] = At(log[n], i)
  <2>1. \A i \in 1..commit[n] : log[n][i] = chosen[i]
    BY <1>2 DEF WaitInv, LogsAreSound
  <2> QED BY <1>2, <1>3, <2>1, ReplayContinues
<1>7. ASSUME NEW i \in DOMAIN pending[n], i \in (commit[n] + 1)..to
      PROVE  Own(ClientReply(pending[n][i], Applied(store[n], log[n], to)[i].result),
                 log[n], calls)
  <2> DEFINE w == pending[n][i]
             result == Applied(store[n], log[n], to)[i].result
             msg == ClientReply(w, result)
  <2>1. /\ log[n][i].kind # "noop" /\ i \in 1..to
        /\ w.client = log[n][i].client /\ w.serial = log[n][i].serial /\ w.client \in Client
    BY <1>2, <1>7, WaiterIs
  <2>2. result = At(log[n], i).result
    BY <1>6, <1>7
  <2>3. \A k \in 1..Len(log[n]) :
          log[n][k].kind # "noop" => log[n][k].serial < Len(calls[log[n][k].client])
    BY <1>2 DEF WaitInv, LogsAreSound
  <2>4. Len(calls[log[n][i].client]) \in Nat
    <3>1. IsSequence(calls[w.client])
      BY <1>2, <2>1 DEF WaitInv, Shapes
    <3> QED BY <2>1, <3>1, SequenceIs
  <2>5. \/ AnsweredWith(log[n], log[n][i].client, log[n][i].serial, At(log[n], i).result)
        \/ log[n][i].serial + 1 < Len(calls[log[n][i].client])
    BY <1>3, <2>1, <2>3, <2>4, AnswerIsOwn
  <2>6. msg.client = w.client /\ msg.serial = w.serial /\ msg.result = result
    BY DEF ClientReply
  <2> HIDE DEF w, result, msg
  <2>7. Own(msg, log[n], calls)
    BY <2>1, <2>2, <2>5, <2>6 DEF Own
  <2> QED BY <2>7 DEF w, result, msg
<1>8. \A msg \in network' : msg \in network \/ Own(msg, log[n], calls)
  BY <1>5, <1>7
<1> QED BY <1>1, <1>3, <1>4, <1>8, NodeStepKeepsOwn

\* A node that follows answers nobody: it did not lead, so nobody waited.
LEMMA FollowKeepsOwn ==
  ASSUME ~ SuddenDeposition, OwnInv, NEW n \in Node, Follow(n)
  PROVE  AnswerInv'
<1>1. WaitInv
  BY DEF OwnInv, ReplayInv
<1>2. ~ leads[n] /\ chosen' = chosen /\ UNCHANGED clientVars
  BY DEF Follow
<1>3. DOMAIN pending[n] = {}
  BY <1>1, <1>2, NobodyWaits
<1>4. PICK to \in Nat : commit[n] <= to /\ ApplyAt(n, log[latest], to)
  BY <1>1, FollowsIs
<1>5. \A msg \in network' : msg \in network
  BY <1>1, <1>3, <1>4, ApplyAtIs
<1>6. chosen \in Seq(Entry) /\ Len(chosen) \in Nat
  BY <1>1 DEF WaitInv, Shapes
<1>7. Len(chosen) <= Len(chosen') /\ \A i \in 1..Len(chosen) : chosen'[i] = chosen[i]
  BY <1>2, <1>6
<1> QED BY <1>2, <1>5, <1>6, <1>7, NodeStepKeepsOwn

\* Steps that commit nothing and answer nothing but a redirection.
LEMMA QuietStepKeepsOwn ==
  ASSUME OwnInv, UNCHANGED clientVars, chosen' = chosen,
         \A msg \in network' : msg \in network \/ msg.not_leader
  PROVE  AnswerInv'
<1>1. chosen \in Seq(Entry) /\ Len(chosen) \in Nat
  BY DEF OwnInv, ReplayInv, WaitInv, Shapes
<1>2. Len(chosen) <= Len(chosen') /\ \A i \in 1..Len(chosen) : chosen'[i] = chosen[i]
  BY <1>1
<1>3. \A msg \in network' : msg \in network \/ Own(msg, chosen', calls)
  BY DEF Own
<1> QED BY <1>1, <1>2, <1>3, NodeStepKeepsOwn

\* With one call at a time, a client that starts one has none in progress.
LEMMA NoneInProgress ==
  ASSUME Burst = 1, WaitInv, NEW c \in Client, Cardinality(InProgress(c)) < Burst
  PROVE  \A k \in DOMAIN calls[c] : calls[c][k].pc \notin {"waiting", "backoff"}
<1>1. IsSequence(calls[c])
  BY DEF WaitInv, Shapes
<1>2. DOMAIN calls[c] = 1..Len(calls[c]) /\ Len(calls[c]) \in Nat
  BY <1>1, SequenceIs
<1>3. IsFiniteSet(1..Len(calls[c]))
  BY <1>2, FS_Interval
<1>4. InProgress(c) \subseteq 1..Len(calls[c])
  BY <1>2 DEF InProgress
<1>5. IsFiniteSet(InProgress(c))
  BY <1>3, <1>4, FS_Subset
<1>6. Cardinality(InProgress(c)) \in Nat
  BY <1>5, FS_CardinalityType
<1>7. Cardinality(InProgress(c)) = 0
  BY <1>6
<1>8. InProgress(c) = {}
  BY <1>5, <1>7, FS_EmptySet
<1> QED BY <1>8 DEF InProgress

LEMMA CallKeepsOwn ==
  ASSUME OwnInv, NEW c \in Client, NEW kind \in Kinds, Call(c, kind)
  PROVE  AnswerInv'
<1> DEFINE serial == Len(calls[c])
           target == PickTarget(c, 0)
           cmd == Command(c, serial, kind)
           call == [pc |-> "waiting", attempt |-> 0, target |-> target, command |-> cmd,
                    asked |-> {target}]
           request == ClientRequest(c, serial, 0, target, cmd)
<1>1. /\ calls' = [calls EXCEPT ![c] = Append(@, call)]
      /\ network' = network \cup {request}
      /\ Cardinality(InProgress(c)) < Burst /\ UNCHANGED nodeVars
  BY DEF Call
<1>2. WaitInv /\ AnswerInv
  BY DEF OwnInv, ReplayInv
<1>3. calls = [d \in Client |-> calls[d]] /\ \A d \in Client : IsSequence(calls[d])
  BY <1>2 DEF WaitInv, Shapes
<1>4. request.type = "request" /\ call.pc = "waiting"
  BY DEF ClientRequest
<1> HIDE DEF target, cmd, call, request
<1>5. serial \in Nat /\ DOMAIN calls[c] = 1..serial
  BY <1>3, SequenceIs
<1>6. /\ calls'[c] = Append(calls[c], call)
      /\ \A d \in Client : d # c => calls'[d] = calls[d]
  BY <1>1, <1>3
<1>7. /\ IsSequence(calls'[c]) /\ Len(calls'[c]) = serial + 1
      /\ calls'[c][serial + 1] = call
      /\ \A k \in 1..serial : calls'[c][k] = calls[c][k]
  BY <1>3, <1>6, AppendedIs
<1>8. DOMAIN calls'[c] = 1..(serial + 1)
  BY <1>7, SequenceIs
<1>9. Burst = 1 => \A k \in 1..serial : calls[c][k].pc \notin {"waiting", "backoff"}
  BY <1>1, <1>2, <1>5, NoneInProgress
<1> HIDE DEF serial
<1>10. OnlyTheLastIsInProgress'
  <2> SUFFICES ASSUME Burst = 1, NEW d \in Client, NEW k \in DOMAIN calls'[d],
                      calls'[d][k].pc \in {"waiting", "backoff"}
               PROVE  k = Len(calls'[d])
    BY DEF OnlyTheLastIsInProgress
  <2>1. CASE d = c
    <3>1. k \in 1..(serial + 1)
      BY <1>8, <2>1
    <3>2. k \notin 1..serial
      BY <1>7, <1>9, <2>1
    <3>3. k = serial + 1
      BY <1>5, <3>1, <3>2
    <3> QED BY <1>7, <2>1, <3>3
  <2>2. CASE d # c
    BY <1>2, <1>6, <2>2 DEF AnswerInv, OnlyTheLastIsInProgress
  <2> QED BY <2>1, <2>2
<1>11. chosen' = chosen
  BY <1>1 DEF nodeVars
<1>12. RepliesAreOwn'
  <2> SUFFICES ASSUME NEW msg \in network' PROVE Own(msg, chosen, calls')
    BY <1>11 DEF RepliesAreOwn
  <2>1. CASE msg = request
    BY <1>4, <2>1 DEF Own
  <2>2. CASE msg \in network
    <3>1. Own(msg, chosen, calls)
      BY <1>2, <2>2 DEF AnswerInv, RepliesAreOwn
    <3>2. msg.client \in Client /\ msg.serial \in Nat
      BY <1>2, <2>2 DEF WaitInv, MessagesAreSound, MessageIsSound
    <3>3. Len(calls[msg.client]) \in Nat
      BY <1>3, <3>2, SequenceIs
    <3>4. Len(calls[msg.client]) <= Len(calls'[msg.client]) /\ Len(calls'[msg.client]) \in Nat
      <4>1. CASE msg.client = c
        BY <1>5, <1>7, <4>1 DEF serial
      <4>2. CASE msg.client # c
        BY <1>6, <3>2, <3>3, <4>2
      <4> QED BY <4>1, <4>2
    <3> QED BY <3>1, <3>2, <3>3, <3>4 DEF Own
  <2> QED BY <1>1, <2>1, <2>2
<1>13. PromisedAnswersAreOwn'
  <2> SUFFICES ASSUME NEW d \in Client, NEW k \in DOMAIN calls'[d],
                      calls'[d][k].pc = "returned", Promised(k, calls'[d])
               PROVE  AnsweredWith(chosen, d, k - 1, calls'[d][k].result)
    BY <1>11 DEF PromisedAnswersAreOwn
  <2>1. k \in DOMAIN calls[d] /\ calls'[d][k] = calls[d][k]
    <3>1. CASE d = c
      <4>1. k # serial + 1
        BY <1>4, <1>7, <3>1
      <4>2. k \in 1..serial
        BY <1>5, <1>8, <3>1, <4>1
      <4> QED BY <1>5, <1>7, <3>1, <4>2
    <3>2. CASE d # c
      BY <1>6, <3>2
    <3> QED BY <3>1, <3>2
  <2>2. Promised(k, calls[d])
    <3>1. CASE d = c
      <4>1. k # serial + 1
        BY <1>4, <1>7, <3>1
      <4> QED BY <1>7, <3>1, <4>1 DEF Promised
    <3>2. CASE d # c
      BY <1>6, <3>2
    <3> QED BY <3>1, <3>2
  <2> QED BY <1>2, <2>1, <2>2 DEF AnswerInv, PromisedAnswersAreOwn
<1> QED BY <1>10, <1>12, <1>13 DEF AnswerInv

\* What may become of a call in progress, and what its client may send.
MayBecome(c, k, call) ==
  /\ calls[c][k].pc \in {"waiting", "backoff"}
  /\ call.pc = "returned" /\ Promised(k, calls[c])
        => AnsweredWith(chosen, c, k - 1, call.result)

OnlyRequestsAreNew == \A msg \in network' : msg \in network \/ msg.type = "request"

\* A step that replaces the call in progress, and sends requests at most.
LEMMA ReplacingKeepsOwn ==
  ASSUME OwnInv, NEW c \in Client, NEW k \in DOMAIN calls[c], NEW call,
         MayBecome(c, k, call),
         calls' = [calls EXCEPT ![c][k] = call],
         UNCHANGED nodeVars,
         OnlyRequestsAreNew
  PROVE  AnswerInv'
<1> USE DEF MayBecome, OnlyRequestsAreNew
<1>1. WaitInv /\ AnswerInv
  BY DEF OwnInv, ReplayInv
<1>2. calls = [d \in Client |-> calls[d]] /\ \A d \in Client : IsSequence(calls[d])
  BY <1>1 DEF WaitInv, Shapes
<1>3. /\ \A d \in Client : IsSequence(calls'[d]) /\ Len(calls'[d]) = Len(calls[d])
      /\ \A d \in Client : d # c => calls'[d] = calls[d]
      /\ calls'[c][k] = call
      /\ \A j \in DOMAIN calls[c] : j # k => calls'[c][j] = calls[c][j]
  <2> DEFINE p == [calls[c] EXCEPT ![k] = call]
  <2>1. calls'[c] = p /\ \A d \in Client : d # c => calls'[d] = calls[d]
    BY <1>2
  <2>2. IsSequence(calls[c])
    BY <1>2
  <2>3. /\ IsSequence(p) /\ Len(p) = Len(calls[c])
        /\ p[k] = call
        /\ \A j \in DOMAIN calls[c] : j # k => p[j] = calls[c][j]
    BY <2>2, ReplacedIs
  <2> HIDE DEF p
  <2> QED BY <1>2, <2>1, <2>3
<1>4. \A d \in Client : DOMAIN calls'[d] = DOMAIN calls[d]
  BY <1>2, <1>3, SequenceIs
<1>5. Burst = 1 => k = Len(calls[c])
  BY <1>1 DEF AnswerInv, OnlyTheLastIsInProgress
<1>6. OnlyTheLastIsInProgress'
  <2> SUFFICES ASSUME Burst = 1, NEW d \in Client, NEW j \in DOMAIN calls'[d],
                      calls'[d][j].pc \in {"waiting", "backoff"}
               PROVE  j = Len(calls'[d])
    BY DEF OnlyTheLastIsInProgress
  <2>1. CASE d = c /\ j = k
    BY <1>3, <1>5, <2>1
  <2>2. CASE d # c \/ j # k
    <3>1. j \in DOMAIN calls[d] /\ calls'[d][j] = calls[d][j]
      BY <1>3, <1>4, <2>2
    <3> QED BY <1>1, <1>3, <3>1 DEF AnswerInv, OnlyTheLastIsInProgress
  <2> QED BY <2>1, <2>2
<1>7. chosen' = chosen
  BY DEF nodeVars
<1>8. RepliesAreOwn'
  <2> SUFFICES ASSUME NEW msg \in network' PROVE Own(msg, chosen, calls')
    BY <1>7 DEF RepliesAreOwn
  <2>1. CASE msg.type = "request"
    BY <2>1 DEF Own
  <2>2. CASE msg \in network
    <3>1. Own(msg, chosen, calls)
      BY <1>1, <2>2 DEF AnswerInv, RepliesAreOwn
    <3>2. msg.client \in Client
      BY <1>1, <2>2 DEF WaitInv, MessagesAreSound, MessageIsSound
    <3>3. Len(calls'[msg.client]) = Len(calls[msg.client])
      BY <1>3, <3>2
    <3> QED BY <3>1, <3>3 DEF Own
  <2> QED BY <2>1, <2>2
<1>9. PromisedAnswersAreOwn'
  <2> SUFFICES ASSUME NEW d \in Client, NEW j \in DOMAIN calls'[d],
                      calls'[d][j].pc = "returned", Promised(j, calls'[d])
               PROVE  AnsweredWith(chosen, d, j - 1, calls'[d][j].result)
    BY <1>7 DEF PromisedAnswersAreOwn
  <2>1. Promised(j, calls[d])
    BY <1>3 DEF Promised
  <2>2. CASE d = c /\ j = k
    BY <1>3, <2>1, <2>2
  <2>3. CASE d # c \/ j # k
    <3>1. j \in DOMAIN calls[d] /\ calls'[d][j] = calls[d][j]
      BY <1>3, <1>4, <2>3
    <3> QED BY <1>1, <2>1, <3>1 DEF AnswerInv, PromisedAnswersAreOwn
  <2> QED BY <2>2, <2>3
<1> QED BY <1>6, <1>8, <1>9 DEF AnswerInv

LEMMA RetryKeepsOwn ==
  ASSUME OwnInv, NEW c \in Client, NEW k \in DOMAIN calls[c], Retry(c, k)
  PROVE  AnswerInv'
<1> DEFINE call == calls[c][k]
           target == PickTarget(c, call.attempt)
           new == [pc |-> "waiting", attempt |-> call.attempt, target |-> target,
                   command |-> call.command, asked |-> call.asked \cup {target}]
           request == ClientRequest(c, k - 1, call.attempt, target, call.command)
<1>1. WaitInv
  BY DEF OwnInv, ReplayInv
<1>2. /\ call.pc = "backoff"
      /\ calls' = AskedAgain(c, k, target)
      /\ network' = network \cup {request}
      /\ UNCHANGED nodeVars
  BY DEF Retry, AskedAgain
<1>3. CallIsSound(call, c, k - 1) /\ IsSequence(calls[c])
  BY <1>1, CallIs
<1>4. call = [pc |-> call.pc, attempt |-> call.attempt, target |-> call.target,
              command |-> call.command, asked |-> call.asked]
  BY <1>2, <1>3 DEF CallIsSound
<1>5. calls = [d \in Client |-> calls[d]]
  BY <1>1 DEF WaitInv, Shapes
<1>6. calls' = [calls EXCEPT ![c][k] = new]
  <2> HIDE DEF target
  <2>1. AskedAgain(c, k, target) = [calls EXCEPT ![c][k] = new]
    BY <1>3, <1>4, <1>5, ThreeFieldsSet
  <2> QED BY <1>2, <2>1
<1>7. request.type = "request" /\ new.pc = "waiting"
  BY DEF ClientRequest
<1> HIDE DEF new, request, target
<1>8. OnlyRequestsAreNew
  BY <1>2, <1>7 DEF OnlyRequestsAreNew
<1>9. MayBecome(c, k, new)
  BY <1>2, <1>7 DEF MayBecome
<1> QED BY <1>2, <1>6, <1>8, <1>9, ReplacingKeepsOwn

LEMMA TimeoutKeepsOwn ==
  ASSUME OwnInv, NEW c \in Client, NEW k \in DOMAIN calls[c], Timeout(c, k)
  PROVE  AnswerInv'
<1> DEFINE new == NextAttempt(calls[c][k])
<1>1. /\ calls[c][k].pc = "waiting"
      /\ calls' = [calls EXCEPT ![c][k] = new]
      /\ UNCHANGED nodeVars /\ network' = network
  BY DEF Timeout
<1>2. CallIsSound(calls[c][k], c, k - 1)
  BY CallIs DEF OwnInv, ReplayInv
<1>3. new.pc # "returned"
  BY <1>1, <1>2, NextAttemptIsSound
<1> HIDE DEF new
<1>4. MayBecome(c, k, new) /\ OnlyRequestsAreNew
  BY <1>1, <1>3 DEF MayBecome, OnlyRequestsAreNew
<1> QED BY <1>1, <1>4, ReplacingKeepsOwn

\* A reply that a call takes for its own is its own: a late one of an earlier
\* call is told apart by its serial.
LEMMA ReceiveReplyKeepsOwn ==
  ASSUME OwnInv, NEW c \in Client, NEW k \in DOMAIN calls[c], NEW msg \in network,
         msg.type = "reply", msg.client = c, ReceiveReply(c, k, msg)
  PROVE  AnswerInv'
<1>1. WaitInv /\ AnswerInv
  BY DEF OwnInv, ReplayInv
<1>2. /\ calls[c][k].pc = "waiting" /\ network' = network \ {msg} /\ UNCHANGED nodeVars
  BY DEF ReceiveReply
<1>3. (\A m \in network' : m \in network) /\ OnlyRequestsAreNew
  BY <1>2 DEF OnlyRequestsAreNew
<1>4. CASE UNCHANGED clientVars
  <2>1. chosen' = chosen
    BY <1>2 DEF nodeVars
  <2> QED BY <1>3, <1>4, <2>1, QuietStepKeepsOwn
<1>5. CASE msg.not_leader /\ Redirected(c, k, msg)
  <2> DEFINE new == NextAttempt(calls[c][k])
  <2>1. calls' = [calls EXCEPT ![c][k] = new]
    BY <1>5 DEF Redirected
  <2>2. CallIsSound(calls[c][k], c, k - 1)
    BY <1>1, CallIs
  <2>3. new.pc # "returned"
    BY <1>2, <2>2, NextAttemptIsSound
  <2> HIDE DEF new
  <2>4. MayBecome(c, k, new)
    BY <1>2, <2>3 DEF MayBecome
  <2> QED BY <1>2, <1>3, <2>1, <2>4, ReplacingKeepsOwn
<1>6. CASE ForThisCall(msg, k) /\ ~ msg.not_leader /\ Returned(c, k, msg)
  <2> DEFINE new == ReturnedWith(calls[c][k], msg)
  <2>1. calls' = [calls EXCEPT ![c][k] = new]
    BY <1>6 DEF Returned, ReturnedWith
  <2>2. new.result = msg.result
    BY DEF ReturnedWith
  <2>3. msg.serial = k - 1 /\ Len(calls[c]) \in Nat
    BY <1>1, <1>2, <1>6, CallIs DEF ForThisCall
  <2>4. Promised(k, calls[c]) => k = Len(calls[c])
    BY <1>1, <1>2 DEF AnswerInv, OnlyTheLastIsInProgress, Promised
  <2>5. Own(msg, chosen, calls)
    BY <1>1 DEF AnswerInv, RepliesAreOwn
  <2>6. AnsweredWith(chosen, c, msg.serial, msg.result) \/ msg.serial + 1 < Len(calls[c])
    BY <1>6, <2>5 DEF Own
  <2>7. Promised(k, calls[c]) => AnsweredWith(chosen, c, k - 1, new.result)
    BY <2>2, <2>3, <2>6, <2>4
  <2> HIDE DEF new
  <2>8. MayBecome(c, k, new)
    BY <1>2, <2>7 DEF MayBecome
  <2> QED BY <1>2, <1>3, <2>1, <2>8, ReplacingKeepsOwn
<1> QED BY <1>4, <1>5, <1>6 DEF ReceiveReply

LEMMA ReceiveRequestKeepsOwn ==
  ASSUME OwnInv, NEW msg \in network, ReceiveRequest(msg)
  PROVE  AnswerInv'
<1> DEFINE reply == Redirect(msg, leader_id[msg.node])
<1>1. \A m \in network' : m \in network \/ m = reply
  BY DEF ReceiveRequest
<1>2. reply.not_leader
  BY DEF Redirect
<1>3. chosen' = chosen /\ UNCHANGED clientVars
  BY DEF ReceiveRequest
<1> HIDE DEF reply
<1>4. \A m \in network' : m \in network \/ m.not_leader
  BY <1>1, <1>2
<1> QED BY <1>3, <1>4, QuietStepKeepsOwn

LEMMA StepKeepsOwn ==
  ASSUME ~ Snapshots, ~ SuddenDeposition
  PROVE  OwnInv /\ [Next]_vars => OwnInv'
<1> SUFFICES ASSUME OwnInv, [Next]_vars PROVE AnswerInv'
  BY StepKeepsReplay DEF OwnInv
<1>1. CASE \E c \in Client, kind \in Kinds : Call(c, kind)
  BY <1>1, CallKeepsOwn
<1>2. CASE \E c \in Client : \E k \in DOMAIN calls[c] : Retry(c, k) \/ Timeout(c, k)
  BY <1>2, RetryKeepsOwn, TimeoutKeepsOwn
<1>3. CASE \E c \in Client : \E k \in DOMAIN calls[c] : \E msg \in network :
              msg.type = "reply" /\ msg.client = c /\ ReceiveReply(c, k, msg)
  BY <1>3, ReceiveReplyKeepsOwn
<1>4. CASE \E msg \in network : msg.type = "request" /\ ReceiveRequest(msg)
  BY <1>4, ReceiveRequestKeepsOwn
<1>5. CASE \E msg \in network : Lose(msg)
  <2>1. UNCHANGED clientVars /\ chosen' = chosen /\ \A m \in network' : m \in network
    BY <1>5 DEF Lose, nodeVars
  <2> QED BY <2>1, QuietStepKeepsOwn
<1>6. CASE \E n \in Node : Elect(n) \/ Campaign(n) \/ StepDown(n) \/ Restart(n)
  <2>1. UNCHANGED clientVars /\ chosen' = chosen /\ network' = network
    BY <1>6 DEF Elect, Campaign, StepDown, Restart
  <2> QED BY <2>1, QuietStepKeepsOwn
<1>7. CASE \E n \in Node : Commit(n) \/ Follow(n)
  BY <1>7, CommitKeepsOwn, FollowKeepsOwn
<1>8. CASE UNCHANGED vars
  <2>1. UNCHANGED clientVars /\ chosen' = chosen /\ network' = network
    BY <1>8 DEF vars, nodeVars
  <2> QED BY <2>1, QuietStepKeepsOwn
<1> QED BY <1>1, <1>2, <1>3, <1>4, <1>5, <1>6, <1>7, <1>8 DEF Next

\* The call a client issued last is answered what a replica answered when it ran
\* that very command, which is in the chosen log, and nobody waits for another's
\* request (client/client.py, kv/store.py, raft/node.py): for any number of
\* clients, calls in progress, retries and elections, while no snapshot is taken
\* and a deposed leader learns of it before its log is replaced.
\* A configuration breaks each of the two conditions.
THEOREM AnswersReachTheirCalls ==
  ASSUME ~ Snapshots, ~ SuddenDeposition
  PROVE  Spec => []AnswersGoToWhoAsked
<1>1. OwnInv => AnswersGoToWhoAsked
  BY OwnMeans DEF OwnInv, AnswerInv, ReplayInv, WaitInv, AnswersGoToWhoAsked
<1> QED BY <1>1, InitOwn, StepKeepsOwn, PTL DEF Spec

\* A client that makes one call at a time is answered so in every call.  With two
\* in progress that is false: a configuration shows it.
THEOREM AnswersAreTheirs ==
  ASSUME Burst = 1, ~ Snapshots, ~ SuddenDeposition
  PROVE  Spec => []AnswersAreOwn
<1>1. OwnInv => AnswersAreOwn
  BY OwnMeans DEF OwnInv, AnswerInv
<1> QED BY <1>1, InitOwn, StepKeepsOwn, PTL DEF Spec
=============================================================================
