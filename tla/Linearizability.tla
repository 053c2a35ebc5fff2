---------------------------- MODULE Linearizability ----------------------------
(***************************************************************************)
(* The history of a run (consistency/history.py) and the checker that      *)
(* judges it (consistency/linearizability.py): the search with its shared  *)
(* budget, the rules that localize a failure, and the verdict, against a   *)
(* definition of linearizability that knows nothing of the search.         *)
(*                                                                         *)
(* The clock moves only between steps, so several operations may begin and *)
(* end at one instant.                                                     *)
(***************************************************************************)
EXTENDS Naturals, SequencesExt, FiniteSetsExt

CONSTANTS
    Keys,      \* the keys
    Value,     \* what a write may store, perhaps None
    None,      \* Python's None: what a read of a missing key returns
    ABSENT,    \* the state of a key nobody has written, or that was deleted
    Kinds,     \* the kinds of operations issued
    MaxSteps,  \* the checker's budget
    MaxOps,    \* bound on the operations of a history
    MaxTime    \* bound on the clock

ASSUME AbsentAssumption == ABSENT \notin Value \cup {None}

VARIABLES operations, clock
historyVars == <<operations, clock>>

Ids == DOMAIN operations
InOrder(S) == SelectSeq([id \in Ids |-> id], LAMBDA id : id \in S)
Completed(op) == op.completed

Precedes(a, b) == Completed(a) /\ a.completed_at < b.invoked_at

-----------------------------------------------------------------------------
(***************************************************************************)
(* Recording.                                                              *)
(***************************************************************************)
HistoryInit == operations = <<>> /\ clock = 0

\* When something may happen next: time passes, or not.
Instants == {clock} \cup {t \in {clock + 1} : operations # <<>> /\ t <= MaxTime}

Invoke(kind, key, value, expected) ==
    /\ Len(operations) < MaxOps
    /\ clock' \in Instants
    /\ operations' = Append(operations,
            [kind |-> kind, key |-> key, value |-> value, expected |-> expected,
             invoked_at |-> clock', completed |-> FALSE])

InvokeAny(key) ==
    \/ "put" \in Kinds /\ \E v \in Value : Invoke("put", key, v, None)
    \/ "get" \in Kinds /\ Invoke("get", key, None, None)
    \/ "delete" \in Kinds /\ Invoke("delete", key, None, None)
    \/ "cas" \in Kinds /\ \E v \in Value, e \in Value \cup {None} : Invoke("cas", key, v, e)

\* A response; an operation that never gets one, because the client gave up,
\* stays as it is.
Complete(id, result, ok) ==
    /\ ~ Completed(operations[id])
    /\ clock' \in Instants
    /\ operations' = [operations EXCEPT ![id] =
            [kind |-> @.kind, key |-> @.key, value |-> @.value, expected |-> @.expected,
             invoked_at |-> @.invoked_at, completed |-> TRUE, completed_at |-> clock',
             result |-> result, ok |-> ok]]

CompleteAny(id) ==
    LET kind == operations[id].kind IN
    \/ kind = "put" /\ Complete(id, operations[id].value, TRUE)
    \/ kind = "get" /\ \E v \in Value : Complete(id, v, TRUE)
    \/ kind = "get" /\ Complete(id, None, FALSE)
    \/ kind \in {"delete", "cas"} /\ \E done \in BOOLEAN : Complete(id, done, done)

HistoryNext ==
    \/ \E key \in Keys : InvokeAny(key)
    \/ \E id \in Ids : CompleteAny(id)

HistorySpec == HistoryInit /\ [][HistoryNext]_historyVars

-----------------------------------------------------------------------------
(***************************************************************************)
(* What one operation does to a key.                                       *)
(***************************************************************************)
Current(state) == IF state = ABSENT THEN None ELSE state

Legal(op, state) ==
    CASE op.kind = "put" -> op.result = op.value
      [] op.kind = "get" -> op.ok = (state # ABSENT) /\ op.result = Current(state)
      [] op.kind = "delete" -> op.result = (state # ABSENT)
      [] op.kind = "cas" -> op.result = (Current(state) = op.expected)

Apply(op, state) ==
    CASE op.kind = "put" -> op.value
      [] op.kind = "get" -> state
      [] op.kind = "delete" -> ABSENT
      [] op.kind = "cas" -> IF Current(state) = op.expected THEN op.value ELSE state

IsWrite(op) == op.kind \in {"put", "delete", "cas"}

WritesValue(op, value) ==
    \/ op.kind = "put" /\ op.value = value
    \/ op.kind = "cas" /\ op.value = value /\ (Completed(op) => op.result)

-----------------------------------------------------------------------------
(***************************************************************************)
(* The search: depth first, each visit paid from the budget, no pair of    *)
(* remaining operations and state visited twice.                           *)
(***************************************************************************)
\* Where a search stands: has it found an ordering, what it has spent, whether
\* it ran out, and what it has seen.
Begun(used, exhausted) ==
    [found |-> FALSE, used |-> used, exhausted |-> exhausted, seen |-> {}]
Spend(s) ==
    [s EXCEPT !.used = @ + 1, !.exhausted = @ \/ s.used + 1 > MaxSteps]
CanSpend(s) == s.used + 1 <= MaxSteps

\* The operations that may go next.  (Definitions named X_Something are X with
\* a plausible bug, to show that the properties notice; nothing uses them.)
MayGoNext(remaining) ==
    {id \in remaining : \A other \in remaining \ {id} :
                            ~ Precedes(operations[other], operations[id])}

Search(ids, used, exhausted) ==
    LET States == Value \cup {None, ABSENT}
        Step[remaining \in SUBSET ids, state \in States,
             s \in [found : BOOLEAN, used : Nat, exhausted : BOOLEAN,
                   seen : SUBSET ((SUBSET ids) \X States)]] ==
            LET Try(t, id) ==
                    LET op == operations[id]
                        taken == IF ~ Completed(op) \/ Legal(op, state)
                                 THEN Step[remaining \ {id}, Apply(op, state), t] ELSE t
                    IN  IF t.found THEN t
                        ELSE IF Completed(op) \/ taken.found THEN taken
                        ELSE Step[remaining \ {id}, state, taken]
            IN  IF remaining = {} THEN [s EXCEPT !.found = TRUE]
                ELSE IF ~ CanSpend(s) \/ <<remaining, state>> \in s.seen THEN Spend(s)
                ELSE FoldLeft(Try, [Spend(s) EXCEPT !.seen = @ \cup {<<remaining, state>>}],
                              InOrder(MayGoNext(remaining)))
    IN  Step[ids, ABSENT, Begun(used, exhausted)]

-----------------------------------------------------------------------------
(***************************************************************************)
(* Localizing a failure: the operations of one key, ids.                   *)
(***************************************************************************)
Reads(ids) == {id \in ids : operations[id].kind = "get" /\ Completed(operations[id])}

PossibleSources(read, ids) ==
    {id \in ids : /\ IsWrite(operations[id])
                  /\ ~ Precedes(operations[read], operations[id])
                  /\ WritesValue(operations[id], operations[read].result)}

\* Rule 1: nothing could have written what was read.
PhantomRead(read, ids) ==
    operations[read].ok /\ PossibleSources(read, ids) = {}

Preceding(read, ids) ==
    {id \in ids : /\ IsWrite(operations[id]) /\ Precedes(operations[id], operations[read])
                  /\ operations[id].ok}

\* The write that completed last, the first of those that did so together.
Latest(ids) ==
    CHOOSE id \in ids : \A other \in ids :
        \/ operations[other].completed_at < operations[id].completed_at
        \/ operations[other].completed_at = operations[id].completed_at /\ id <= other

\* Rule 2: what was read had been replaced before the read began.
StaleRead_SomeSource(read, ids) ==
    LET latest == Latest(Preceding(read, ids)) IN
    /\ Preceding(read, ids) # {}
    /\ IF ~ operations[read].ok
       THEN operations[latest].kind \in {"put", "cas"}
       ELSE \E source \in PossibleSources(read, ids) :
                Precedes(operations[source], operations[latest])
StaleRead(read, ids) ==
    LET latest == Latest(Preceding(read, ids)) IN
    /\ Preceding(read, ids) # {}
    /\ IF ~ operations[read].ok
       THEN operations[latest].kind \in {"put", "cas"}
       ELSE /\ PossibleSources(read, ids) # {}
            /\ \A source \in PossibleSources(read, ids) :
                Precedes(operations[source], operations[latest])

Blamed(ids) == {read \in Reads(ids) : PhantomRead(read, ids) \/ StaleRead(read, ids)}

-----------------------------------------------------------------------------
(***************************************************************************)
(* The verdict, key after key on one budget.                               *)
(***************************************************************************)
ForKey(key) == {id \in Ids : operations[id].key = key}

\* The keys touched, in first-touch order.
TouchedKeys ==
    SetToSortSeq({key \in Keys : ForKey(key) # {}},
                 LAMBDA a, b : Min(ForKey(a)) < Min(ForKey(b)))

\* A failed search is a violation unless it is the one that ran out of budget.
CheckKey_Accuses(verdict, key) ==
    LET s == Search(ForKey(key), verdict.used, verdict.exhausted) IN
    IF s.found
    THEN [verdict EXCEPT !.used = s.used, !.exhausted = s.exhausted]
    ELSE [verdict EXCEPT !.used = s.used, !.exhausted = s.exhausted,
                         !.violated = @ \cup {key}]
CheckKey(verdict, key) ==
    LET s == Search(ForKey(key), verdict.used, verdict.exhausted) IN
    IF s.found
    THEN [verdict EXCEPT !.used = s.used, !.exhausted = s.exhausted]
    ELSE IF s.exhausted /\ ~ verdict.exhausted
    THEN [verdict EXCEPT !.used = s.used, !.exhausted = TRUE,
                         !.unproven = @ \cup {key}]
    ELSE [verdict EXCEPT !.used = s.used, !.exhausted = s.exhausted,
                         !.violated = @ \cup {key}]

\* The state of the check after the first n keys.
CheckedUpTo(n) ==
    FoldLeft(CheckKey,
             [used |-> 0, exhausted |-> FALSE, unproven |-> {}, violated |-> {}],
             SubSeq(TouchedKeys, 1, n))
Check == CheckedUpTo(Len(TouchedKeys))

Verdict(c) ==
    IF c.violated # {} THEN "FAIL" ELSE IF c.unproven # {} THEN "UNPROVEN" ELSE "PASS"

-----------------------------------------------------------------------------
(***************************************************************************)
(* The definition: some order of the completed operations, and of some of  *)
(* the others, contradicts no response and no two operations of which one  *)
(* had ended when the other began.                                         *)
(***************************************************************************)
\* In an order of some operations order[n] takes the place of n.
KeepsRealTime(order) ==
    \A i, j \in DOMAIN order : i < j => ~ Precedes(operations[order[j]], operations[order[i]])

IsRun(order) ==
    LET state[n \in 0..Len(operations)] ==
            IF n = 0 THEN ABSENT
            ELSE IF n \in DOMAIN order THEN Apply(operations[order[n]], state[n - 1])
            ELSE state[n - 1]
    IN  \A n \in DOMAIN order :
            Completed(operations[order[n]]) => Legal(operations[order[n]], state[n - 1])

LinearizableAt(key) ==
    LET done == {id \in ForKey(key) : Completed(operations[id])} IN
    \E lost \in SUBSET (ForKey(key) \ done) :
        LET kept == ForKey(key) \ lost IN
        \E order \in Permutations(kept) :
            KeepsRealTime(order) /\ IsRun(order) /\ order \in Surjection(kept, kept)

IsLinearizable == \A key \in Keys : LinearizableAt(key)

\* "The verdict is exact", and when the budget runs out "the result says so
\* rather than guessing".
VerdictIsExact ==
    LET verdict == Verdict(Check) IN
    /\ verdict = "PASS" => IsLinearizable
    /\ verdict = "FAIL" => ~ IsLinearizable

\* What holds of it when several keys share the budget: a history that is passed
\* is linearizable, and so is none of which a key is accused that was searched
\* before the budget ran out.  Of the keys after that nothing can be said.
VerdictIsExactWhileItLasts ==
    /\ Verdict(Check) = "PASS" => IsLinearizable
    /\ \A n \in DOMAIN TouchedKeys :
          TouchedKeys[n] \in Check.violated /\ ~ CheckedUpTo(n - 1).exhausted
              => ~ LinearizableAt(TouchedKeys[n])

\* With a budget that is not exhausted there is always a verdict, and it is the
\* right one.
VerdictDecides == Verdict(Check) = IF IsLinearizable THEN "PASS" ELSE "FAIL"

\* "Both rules are sound: either one firing is by itself a proof that no
\* linearization exists."
RulesAreSound ==
    \A key \in Keys : Blamed(ForKey(key)) # {} => ~ LinearizableAt(key)

\* They are where nothing was deleted: a delete that takes effect after the last
\* write before a read explains why it finds nothing.
BlamedRightly ==
    \A key \in Keys :
        (\A id \in ForKey(key) : operations[id].kind # "delete")
            /\ Blamed(ForKey(key)) # {} => ~ LinearizableAt(key)
=============================================================================
