------------------------------- MODULE Network --------------------------------
(***************************************************************************)
(* SimulatedNetwork (network/simulator.py) on a virtual clock: nodes come, *)
(* go and crash, links are slow or lossy, partitions form and heal, and a  *)
(* message is an inbox entry now or a timer.  With no fault it is the      *)
(* InMemoryBus (network/bus.py).                                           *)
(***************************************************************************)
EXTENDS VirtualClock, Sequences

CONSTANTS
    Node,       \* participants
    Delay,      \* latencies a link may be given
    Loss,       \* how lossy it may be: "none", "some" or "all"
    Split,      \* the partitions that may be made: functions from some nodes to groups
    NoSplit,    \* no partition
    MaxSent,    \* bound on the messages
    MaxTime,    \* bound on the time at which something is sent
    MaxFaults   \* bound on the changes of faults and members

ASSUME NetworkAssumption ==
    /\ Delay \subseteq Nat /\ 0 \in Delay
    /\ MaxTime \in Nat /\ NotAdvancing \notin Nat
    /\ NoSplit \notin Split

VARIABLES
    inbox,      \* of every registered node, the messages waiting in it
    registered,
    crashed,    \* the departures reported as a crash
    seq,        \* the next number of each sender
    default,    \* latency from min to max and loss of a link without its own
    links,      \* those of the links with their own
    groups,     \* the partition
    stats,      \* the counters
    faults,     \* changes so far
    clean       \* history: nothing was broken since the start or the last reset

members == <<inbox, registered, crashed>>
config == <<default, links, groups>>
vars == <<clock, members, seq, config, stats, faults, clean>>

Pair == {p \in Node \X Node : p[1] # p[2]}
IdealLink == [min |-> 0, max |-> 0, loss |-> "none"]

Init ==
    /\ InitClock
    /\ inbox = [n \in Node |-> <<>>]
    /\ registered = {} /\ crashed = {}
    /\ seq = [n \in Node |-> 0]
    /\ default = IdealLink
    /\ links = [p \in {} |-> IdealLink]
    /\ groups = NoSplit
    /\ stats = [sent |-> 0, delivered |-> 0, unknown |-> 0, partition |-> 0, loss |-> 0]
    /\ faults = 0 /\ clean = TRUE

Count(what) == stats' = [stats EXCEPT !.sent = @ + 1, ![what] = @ + 1]

-----------------------------------------------------------------------------
(***************************************************************************)
(* Membership.                                                             *)
(***************************************************************************)
Change == faults < MaxFaults /\ faults' = faults + 1
Breaks == Change /\ clean' = FALSE

Register(n) ==
    /\ n \notin registered /\ Change
    /\ registered' = registered \cup {n}
    /\ crashed' = crashed \ {n}
    /\ inbox' = [inbox EXCEPT ![n] = <<>>]
    /\ UNCHANGED <<clock, seq, config, stats, clean>>

Unregister(n, crash) ==
    /\ n \in registered /\ Change
    /\ registered' = registered \ {n}
    /\ crashed' = IF crash THEN crashed \cup {n} ELSE crashed
    /\ inbox' = [inbox EXCEPT ![n] = <<>>]
    /\ UNCHANGED <<clock, seq, config, stats, clean>>

-----------------------------------------------------------------------------
(***************************************************************************)
(* Faults.                                                                 *)
(***************************************************************************)
SetLatency(min, max) ==
    /\ min <= max /\ Breaks
    /\ default' = [default EXCEPT !.min = min, !.max = max]
    /\ UNCHANGED <<clock, members, seq, links, groups, stats>>

SetLoss(loss) ==
    /\ Breaks
    /\ default' = [default EXCEPT !.loss = loss]
    /\ UNCHANGED <<clock, members, seq, links, groups, stats>>

SetLink(p, l) ==
    /\ Breaks
    /\ links' = [q \in DOMAIN links \cup {p} |-> IF q = p THEN l ELSE links[q]]
    /\ UNCHANGED <<clock, members, seq, default, groups, stats>>

ClearLink(p) ==
    /\ p \in DOMAIN links /\ Change
    /\ links' = [q \in DOMAIN links \ {p} |-> links[q]]
    /\ UNCHANGED <<clock, members, seq, default, groups, stats, clean>>

Partition(split) ==
    /\ Breaks
    /\ groups' = split
    /\ UNCHANGED <<clock, members, seq, default, links, stats>>

Heal ==
    /\ groups # NoSplit /\ Change
    /\ groups' = NoSplit
    /\ UNCHANGED <<clock, members, seq, default, links, stats, clean>>

ResetFaults_DefaultOnly ==
    /\ Change /\ clean' = TRUE
    /\ default' = IdealLink
    /\ groups' = NoSplit
    /\ UNCHANGED <<clock, members, seq, links, stats>>
ResetFaults ==
    /\ Change /\ clean' = TRUE
    /\ default' = IdealLink
    /\ links' = [p \in {} |-> IdealLink]
    /\ groups' = NoSplit
    /\ UNCHANGED <<clock, members, seq, stats>>

\* A node in no group is reachable from everywhere.
IsPartitioned(src, dst) ==
    /\ groups # NoSplit /\ {src, dst} \subseteq DOMAIN groups
    /\ groups[src] # groups[dst]

LinkFor(src, dst) == IF <<src, dst>> \in DOMAIN links THEN links[<<src, dst>>] ELSE default

-----------------------------------------------------------------------------
(***************************************************************************)
(* Transfer.                                                               *)
(***************************************************************************)
\* In its inbox, with the delay it had.
Put(m) == inbox' = [inbox EXCEPT ![m.dst] = Append(@, m)]

Drop(why) == Count(why) /\ UNCHANGED <<clock, inbox>>

Send(src, dst) ==
    /\ src \in registered /\ stats.sent < MaxSent /\ now <= MaxTime
    /\ seq' = [seq EXCEPT ![src] = @ + 1]
    /\ LET l == LinkFor(src, dst) IN
       \/ dst \notin registered /\ Drop("unknown")
       \/ dst \in registered /\ IsPartitioned(src, dst) /\ Drop("partition")
       \/ /\ dst \in registered /\ ~ IsPartitioned(src, dst)
          /\ l.loss # "none" /\ Drop("loss")
       \/ /\ dst \in registered /\ ~ IsPartitioned(src, dst) /\ l.loss # "all"
          /\ \E delay \in Delay :
                /\ l.min <= delay /\ delay <= l.max
                /\ LET m == [src |-> src, dst |-> dst, seq |-> seq[src], delay |-> delay] IN
                   IF AtOnce(now + delay)
                   THEN Put(m) /\ Count("delivered") /\ UNCHANGED clock
                   ELSE /\ Push(now + delay, m)
                        /\ stats' = [stats EXCEPT !.sent = @ + 1]
                        /\ UNCHANGED inbox
    /\ UNCHANGED <<registered, crashed, config, faults, clean>>

Receive(n) ==
    /\ inbox[n] # <<>>
    /\ inbox' = [inbox EXCEPT ![n] = Tail(@)]
    /\ UNCHANGED <<clock, registered, crashed, seq, config, stats, faults, clean>>

\* The timer of a delayed message: whoever has the name now gets it.
Deliver_Uncounted(e) ==
    /\ Pops(e)
    /\ heap' = heap \ {e}
    /\ IF e.what.dst \in registered
       THEN Put(e.what) /\ stats' = [stats EXCEPT !.delivered = @ + 1]
       ELSE UNCHANGED <<inbox, stats>>
    /\ UNCHANGED <<now, counter, target, registered, crashed, seq, config, faults, clean>>
Deliver(e) ==
    /\ Pops(e)
    /\ heap' = heap \ {e}
    /\ IF e.what.dst \in registered
       THEN Put(e.what) /\ stats' = [stats EXCEPT !.delivered = @ + 1]
       ELSE stats' = [stats EXCEPT !.unknown = @ + 1] /\ UNCHANGED inbox
    /\ UNCHANGED <<now, counter, target, registered, crashed, seq, config, faults, clean>>

\* The driver of a run asks next_deadline and goes no further.
Drive_Anywhere ==
    /\ \E t \in (now + 1)..(MaxTime + 1) : AdvanceTo(t)
    /\ UNCHANGED <<members, seq, config, stats, faults, clean>>
Drive ==
    /\ \E t \in (now + 1)..(MaxTime + 1) \cup NextDeadlines :
          /\ \A d \in NextDeadlines : t <= d
          /\ AdvanceTo(t)
    /\ UNCHANGED <<members, seq, config, stats, faults, clean>>

Arrived == Arrive /\ UNCHANGED <<members, seq, config, stats, faults, clean>>

Membership == \E n \in Node : Register(n) \/ \E crash \in BOOLEAN : Unregister(n, crash)

Faults ==
    \/ \E min, max \in Delay : SetLatency(min, max)
    \/ \E loss \in Loss : SetLoss(loss)
    \/ \E p \in Pair : ClearLink(p)
                       \/ \E min, max \in Delay, loss \in Loss :
                             min <= max /\ SetLink(p, [min |-> min, max |-> max, loss |-> loss])
    \/ \E split \in Split : Partition(split)
    \/ Heal \/ ResetFaults

Next ==
    \/ Membership \/ Faults
    \/ \E src \in Node : \E dst \in Node \ {src} : Send(src, dst)
    \/ \E n \in Node : Receive(n)
    \/ (\E e \in heap : Deliver(e)) \/ Drive \/ Arrived

\* The driver keeps advancing.
Spec == Init /\ [][Next]_vars /\ WF_vars(Drive) /\ WF_vars(Arrived)
             /\ WF_vars(\E e \in heap : Deliver(e))

-----------------------------------------------------------------------------
(***************************************************************************)
(* What the network promises.                                              *)
(***************************************************************************)
\* Every message sent is delivered, dropped for one reason, or a timer.
Conservation ==
    stats.sent = stats.delivered + stats.unknown + stats.partition + stats.loss
                 + Cardinality(heap)

\* The messages on their way, and those that wait.
Waiting == UNION {{inbox[n][i] : i \in DOMAIN inbox[n]} : n \in Node}
InFlight == {e.what : e \in heap} \cup Waiting

\* No two of a sender's messages have the same number, crashes and restarts of
\* the sender included.
NumbersAreFresh ==
    /\ \A m \in InFlight : m.seq < seq[m.src]
    /\ \A e, f \in heap : e # f => <<e.what.src, e.what.seq>> # <<f.what.src, f.what.seq>>

\* Each message is counted once and has a number of its own.
MessagesAreAccounted == Conservation /\ NumbersAreFresh

\* Messages of one sender that took equally long arrive in the order sent.
SameDelayInOrder ==
    \A n \in Node : \A i, j \in DOMAIN inbox[n] :
        i < j /\ inbox[n][i].src = inbox[n][j].src /\ inbox[n][i].delay = inbox[n][j].delay
        => inbox[n][i].seq < inbox[n][j].seq

\* A delayed message is delivered at its time, neither early nor late, when the
\* driver goes from one deadline to the next.
OnTime == HeapIsAhead /\ \A e \in heap : e.at >= now

\* "Back to an ideal network: no latency, no loss, no partition": until the
\* next fault, whatever was sent to a registered node is there at once.
IdealAfterReset ==
    [][clean /\ stats'.sent > stats.sent =>
          stats' \in {[stats EXCEPT !.sent = @ + 1, ![what] = @ + 1] :
                        what \in {"delivered", "unknown"}}]_vars

\* "Split the network so nodes in different groups cannot reach each other."
NothingCrosses ==
    [][\A n \in Node : Len(inbox'[n]) > Len(inbox[n]) =>
          ~ IsPartitioned(inbox'[n][Len(inbox'[n])].src, n)]_vars
=============================================================================
