------------------------------ MODULE Deadlines -------------------------------
(***************************************************************************)
(* race_deadline (network/clock.py): every wait for a message that may     *)
(* time out is a race of two tasks, one that receives from the inbox and   *)
(* one that sleeps on the virtual clock; the loser is cancelled.  The      *)
(* tasks are asyncio's: one runs at a time, in whatever order, and a       *)
(* cancelled one hears of it the next time it runs.                        *)
(***************************************************************************)
EXTENDS Integers, FiniteSets, Sequences

CONSTANTS
    Racer,     \* who waits on an inbox of its own
    NOTHING,   \* no message, and the target of a clock at rest
    MaxQueued, \* bound on the messages of an inbox
    MaxRaces,  \* bound on the waits of a racer
    MaxWait    \* bound on the clock

ASSUME RaceAssumption == NOTHING \notin Nat

VARIABLES
    time, timers, made, going,  \* the clock, its heap, its counter and its target
    queue,     \* the messages waiting in each inbox
    queued,    \* how many were put in it
    outer,     \* where race_deadline is: idle, waiting, collecting, stopping or stopped
    deadline,  \* of the race
    races,     \* races begun
    work,      \* where the receiving task is
    timer,     \* where the sleeping task is
    doomed,    \* the tasks whose cancellation was asked for
    held,      \* what the receiving task took from the queue
    got        \* what the races returned to the racer

Clock ==
    INSTANCE VirtualClock
        WITH now <- time, heap <- timers, counter <- made, target <- going,
             NotAdvancing <- NOTHING

clockVars == <<time, timers, made, going>>
inboxes == <<queue, queued>>
tasks == <<outer, deadline, races, work, timer, doomed, held, got>>
raceVars == <<clockVars, inboxes, tasks>>

NoRaces ==
    /\ Clock!InitClock
    /\ queue = [r \in Racer |-> <<>>] /\ queued = [r \in Racer |-> 0]
    /\ outer = [r \in Racer |-> "idle"]
    /\ deadline = [r \in Racer |-> 0] /\ races = [r \in Racer |-> 0]
    /\ work = [r \in Racer |-> "gone"] /\ timer = [r \in Racer |-> "gone"]
    /\ doomed = [r \in Racer |-> {}]
    /\ held = [r \in Racer |-> NOTHING] /\ got = [r \in Racer |-> <<>>]

Ended == {"done", "gone"}

\* The timer of the race r is in, as an entry of the heap names it.
TimerOf(r) == <<r, races[r]>>

-----------------------------------------------------------------------------
(***************************************************************************)
(* The race.                                                               *)
(***************************************************************************)
Race(r, d) ==
    /\ outer[r] = "idle" /\ races[r] < MaxRaces
    /\ outer' = [outer EXCEPT ![r] = "waiting"]
    /\ deadline' = [deadline EXCEPT ![r] = d]
    /\ races' = [races EXCEPT ![r] = @ + 1]
    /\ work' = [work EXCEPT ![r] = "new"] /\ timer' = [timer EXCEPT ![r] = "new"]
    /\ doomed' = [doomed EXCEPT ![r] = {}]
    /\ held' = [held EXCEPT ![r] = NOTHING]
    /\ UNCHANGED <<clockVars, inboxes, got>>

\* One of the two has ended: the other is cancelled and waited for.  (Definitions
\* named X_Something are X with a plausible bug, to show that the properties
\* notice; nothing uses them.)
Settle(r) ==
    /\ outer[r] = "waiting"
    /\ work[r] = "done" \/ timer[r] = "done"
    /\ doomed' = [doomed EXCEPT ![r] = (IF work[r] = "done" THEN {} ELSE {"work"})
                                         \cup (IF timer[r] = "done" THEN {} ELSE {"timer"})]
    /\ outer' = [outer EXCEPT ![r] = "collecting"]
    /\ UNCHANGED <<clockVars, inboxes, deadline, races, work, timer, held, got>>

\* What the work produced is returned even when the deadline came as well.
Return_NothingWhenLate(r) ==
    /\ outer[r] = "collecting" /\ work[r] \in Ended /\ timer[r] \in Ended
    /\ outer' = [outer EXCEPT ![r] = "idle"]
    /\ got' = IF timer[r] = "done" THEN got ELSE [got EXCEPT ![r] = Append(@, held[r])]
    /\ held' = [held EXCEPT ![r] = NOTHING]
    /\ UNCHANGED <<clockVars, inboxes, deadline, races, work, timer, doomed>>
Return(r) ==
    /\ outer[r] = "collecting" /\ work[r] \in Ended /\ timer[r] \in Ended
    /\ outer' = [outer EXCEPT ![r] = "idle"]
    /\ got' = IF work[r] = "done" THEN [got EXCEPT ![r] = Append(@, held[r])] ELSE got
    /\ held' = [held EXCEPT ![r] = NOTHING]
    /\ UNCHANGED <<clockVars, inboxes, deadline, races, work, timer, doomed>>

\* The racer itself is cancelled: a node that stops, a client whose run is over.
Stop(r) ==
    /\ outer[r] \in {"waiting", "collecting"}
    /\ outer' = [outer EXCEPT ![r] = "stopping"]
    /\ doomed' = [doomed EXCEPT ![r] = {"work", "timer"}]
    /\ UNCHANGED <<clockVars, inboxes, deadline, races, work, timer, held, got>>

Stopped(r) ==
    /\ outer[r] = "stopping" /\ work[r] \in Ended /\ timer[r] \in Ended
    /\ outer' = [outer EXCEPT ![r] = "stopped"]
    /\ UNCHANGED <<clockVars, inboxes, deadline, races, work, timer, doomed, held, got>>

-----------------------------------------------------------------------------
(***************************************************************************)
(* The task that receives: Queue.get().                                    *)
(***************************************************************************)
\* A message is queued, and wakes whoever waits for it.
Enqueue(r) ==
    /\ queued[r] < MaxQueued
    /\ queued' = [queued EXCEPT ![r] = @ + 1]
    /\ queue' = [queue EXCEPT ![r] = Append(@, queued[r] + 1)]
    /\ work' = IF work[r] = "getting" /\ "work" \notin doomed[r]
               THEN [work EXCEPT ![r] = "woken"] ELSE work
    /\ UNCHANGED <<clockVars, outer, deadline, races, timer, doomed, held, got>>

Take(r) ==
    /\ work' = [work EXCEPT ![r] = "done"]
    /\ held' = [held EXCEPT ![r] = Head(queue[r])]
    /\ queue' = [queue EXCEPT ![r] = Tail(@)]

Work(r) ==
    /\ IF "work" \in doomed[r]
       THEN /\ work[r] \notin Ended
            /\ work' = [work EXCEPT ![r] = "gone"] /\ UNCHANGED <<queue, held>>
       ELSE \/ work[r] \in {"new", "woken"} /\ queue[r] # <<>> /\ Take(r)
            \/ /\ work[r] = "new" /\ queue[r] = <<>>
               /\ work' = [work EXCEPT ![r] = "getting"] /\ UNCHANGED <<queue, held>>
    /\ UNCHANGED <<clockVars, queued, outer, deadline, races, timer, doomed, got>>

-----------------------------------------------------------------------------
(***************************************************************************)
(* The task that sleeps: sleep_until.                                      *)
(***************************************************************************)
Sleep(r) ==
    /\ timer[r] = "new" /\ "timer" \notin doomed[r]
    /\ IF deadline[r] <= time
       THEN timer' = [timer EXCEPT ![r] = "done"] /\ UNCHANGED clockVars
       ELSE timer' = [timer EXCEPT ![r] = "sleeping"] /\ Clock!Push(deadline[r], TimerOf(r))
    /\ UNCHANGED <<inboxes, outer, deadline, races, work, doomed, held, got>>

Wake(r) ==
    /\ timer[r] = "fired" /\ "timer" \notin doomed[r]
    /\ timer' = [timer EXCEPT ![r] = "done"]
    /\ UNCHANGED <<clockVars, inboxes, outer, deadline, races, work, doomed, held, got>>

\* Cancelled: the entry in the heap goes with the task.
WakeCancelled(r) ==
    /\ timer[r] \notin Ended /\ "timer" \in doomed[r]
    /\ timer' = [timer EXCEPT ![r] = "gone"]
    /\ timers' = Clock!WithCancelled(timers, TimerOf(r))
    /\ UNCHANGED <<time, made, going>>
    /\ UNCHANGED <<inboxes, outer, deadline, races, work, doomed, held, got>>

\* The clock takes an entry from the heap: event.set(), unless it was cancelled.
Fire(e) ==
    /\ Clock!Pops(e)
    /\ timers' = timers \ {e}
    /\ timer' = IF e.cancelled THEN timer ELSE [timer EXCEPT ![e.what[1]] = "fired"]
    /\ UNCHANGED <<time, made, going>>
    /\ UNCHANGED <<inboxes, outer, deadline, races, work, doomed, held, got>>

Advance == (\E t \in (time + 1)..MaxWait : Clock!AdvanceTo(t)) /\ UNCHANGED <<inboxes, tasks>>
AtTime == Clock!Arrive /\ UNCHANGED <<inboxes, tasks>>

\* The loop runs every task that can run.
Step(r) == Settle(r) \/ Return(r) \/ Stopped(r) \/ Work(r) \/ Sleep(r) \/ Wake(r) \/ WakeCancelled(r)

RaceNext ==
    \/ \E r \in Racer : \/ Step(r) \/ Stop(r) \/ Enqueue(r)
                        \/ \E d \in time..MaxWait : Race(r, d)
    \/ Advance \/ AtTime \/ \E e \in timers : Fire(e)

\* Tasks that can run do, and the driver of the run keeps advancing the clock.
Fairness ==
    /\ \A r \in Racer : WF_raceVars(Settle(r) \/ Return(r) \/ Stopped(r)) /\ WF_raceVars(Work(r))
                        /\ WF_raceVars(Sleep(r) \/ Wake(r) \/ WakeCancelled(r))
    /\ WF_raceVars(Advance) /\ WF_raceVars(AtTime) /\ WF_raceVars(\E e \in timers : Fire(e))

RaceSpec == NoRaces /\ [][RaceNext]_raceVars /\ Fairness

-----------------------------------------------------------------------------
(***************************************************************************)
(* What a wait with a deadline promises.                                   *)
(***************************************************************************)
\* Every message is returned by a race, in order, or is still to be had: a
\* timeout that comes with a message does not swallow it, and a racer that is
\* stopped has at most the one in its hand.
NothingLost ==
    \A r \in Racer :
        LET inHand == IF held[r] = NOTHING THEN <<>> ELSE <<held[r]>> IN
        got[r] \o inHand \o queue[r] = [i \in 1..queued[r] |-> i]

\* "Must leave neither task behind as a waiter on a queue", nor a timer in the
\* heap: "un-fired and unreachable, while a busy run keeps creating more of them".
NothingLeftBehind ==
    \A r \in Racer : outer[r] \in {"idle", "stopped"} =>
        /\ work[r] \in Ended /\ timer[r] \in Ended
        /\ \A e \in Clock!Live(timers) : e.what[1] # r

\* A race is over with nothing lost and nothing left over.
RacesAreClean == NothingLost /\ NothingLeftBehind

\* Every race ends.
EveryRaceEnds == \A r \in Racer : outer[r] = "waiting" ~> outer[r] \in {"idle", "stopped"}

\* pending() is "How many *live* timers are still waiting for a future advance".
PendingIsLive == going = NOTHING => Clock!Pending = Cardinality(Clock!Live(timers))
=============================================================================
