----------------------------- MODULE VirtualClock -----------------------------
(***************************************************************************)
(* The clock of a simulated run (network/clock.py): it moves when it is    *)
(* told to, and a timer is an entry of a heap with what to call when its   *)
(* deadline has come.  Network and Deadlines put their own callbacks in.   *)
(***************************************************************************)
EXTENDS Integers, FiniteSets

VARIABLES
    now,      \* the time
    heap,     \* the entries of _pending
    counter,  \* entries made so far: it orders those of one deadline
    target    \* where advance_to is going, now when it is not running

clock == <<now, heap, counter, target>>

CONSTANT NotAdvancing  \* target when advance_to is not running

InitClock ==
    /\ now = 0
    /\ heap = {}
    /\ counter = 0
    /\ target = NotAdvancing

-----------------------------------------------------------------------------
\* What heapq puts at the front.
Before(e, f) == e.at < f.at \/ (e.at = f.at /\ e.id < f.id)
IsEarliest(e) == e \in heap /\ \A f \in heap \ {e} : Before(e, f)
Live(h) == {e \in h : ~ e.cancelled}

\* call_at: what is due already is called on the spot.  (Definitions named
\* X_Something are X with a plausible bug, to show that the properties notice;
\* nothing uses them.)
AtOnce(deadline) == deadline <= now

Push(deadline, what) ==
    /\ heap' = heap \cup {[at |-> deadline, id |-> counter, what |-> what, cancelled |-> FALSE]}
    /\ counter' = counter + 1
    /\ UNCHANGED <<now, target>>

\* handle.cancel(), for the entries of what.
WithCancelled(h, what) ==
    {IF e.what = what THEN [e EXCEPT !.cancelled = TRUE] ELSE e : e \in h}

\* _prune: the cancelled entries at the front go.
Pruned(h) == {e \in h : \E f \in Live(h) : f = e \/ Before(f, e)}

\* pending()
Pending == Cardinality(Pruned(heap))

\* next_deadline(), as the set of times a driver that asks may go to: up to the
\* earliest entry, or anywhere.
NextDeadlines == {e.at : e \in {f \in Pruned(heap) : \A g \in Pruned(heap) : f.at <= g.at}}

-----------------------------------------------------------------------------
\* advance_to: the time is there at once, then what falls due is called one by
\* one, and other tasks run in between.
AdvanceTo(t) ==
    /\ target = NotAdvancing /\ t >= now
    /\ now' = t /\ target' = t
    /\ UNCHANGED <<heap, counter>>

Due_Strictly == {e \in heap : target # NotAdvancing /\ e.at < target}
Due == {e \in heap : target # NotAdvancing /\ e.at <= target}

\* The entry that advance_to takes from the heap next.
Pops_AnyDue(e) == e \in Due
Pops(e) == e \in Due /\ IsEarliest(e)

Arrive ==
    /\ target # NotAdvancing /\ Due = {}
    /\ target' = NotAdvancing
    /\ UNCHANGED <<now, heap, counter>>

-----------------------------------------------------------------------------
(***************************************************************************)
(* What the clock promises whoever uses it.                                *)
(***************************************************************************)
\* When advance_to is not running, every timer is ahead: none was overlooked.
HeapIsAhead == target = NotAdvancing => \A e \in heap : e.at > now
=============================================================================
