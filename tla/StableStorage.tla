---------------------------- MODULE StableStorage ----------------------------
(***************************************************************************)
(* What a node's write-ahead log and snapshots promise, without records,   *)
(* files or compaction: the node writes one state after another, a sync    *)
(* makes the last one stable and only then is anyone told of it, and a     *)
(* crash falls back to some state written since the last sync.             *)
(* WriteAheadLog implements this.                                          *)
(***************************************************************************)
EXTENDS Naturals, Sequences

CONSTANTS Vote, Nil  \* who can be voted for, and no vote

VARIABLES
    disk,     \* the state a crash cannot undo
    pending,  \* the states written since, oldest first
    told      \* the state others were last told of

vars == <<disk, pending, told>>

\* A log is the sequence of its entries' terms: the term at an index tells the
\* entry, since a term has one leader.
State == [term : Nat, voted_for : Vote \cup {Nil}, log : Seq(Nat), commit : Nat]

\* The terms never fall, and what is committed stays committed and stays what
\* it was.
Extends(u, v) ==
    /\ u.term <= v.term
    /\ u.commit <= v.commit
    /\ u.commit <= Len(u.log) /\ v.commit <= Len(v.log)
    /\ \A i \in 1..u.commit : v.log[i] = u.log[i]

\* The vote of a term is cast once.
KeepsVote(u, v) ==
    u.term = v.term /\ u.voted_for # Nil => v.voted_for = u.voted_for

\* The last state written.
Current == IF pending = <<>> THEN disk ELSE pending[Len(pending)]

\* What may be written next: nothing that takes back what others were told.
Writable(v) == v \in State /\ Extends(Current, v) /\ KeepsVote(told, v)

TypeOK ==
    /\ disk \in State
    /\ pending \in Seq(State)
    /\ told \in State

\* Nothing is known yet, whether or not the file has been started.
Init ==
    /\ disk = [term |-> 0, voted_for |-> Nil, log |-> <<>>, commit |-> 0]
    /\ pending \in {<<>>, <<disk>>}
    /\ told = disk

\* One record: it may be lost until the next sync.
Write ==
    /\ Len(pending') = Len(pending) + 1
    /\ pending' = Append(pending, pending'[Len(pending')])
    /\ Writable(pending'[Len(pending')])
    /\ UNCHANGED <<disk, told>>

\* fsync, and then the message that discloses the state.
SyncAndTell ==
    /\ disk' = Current
    /\ pending' = <<>>
    /\ told' = Current

\* A rewrite of the file: the new state is stable at once, or not there.
Rewrite ==
    /\ Writable(disk')
    /\ pending' = <<>>
    /\ UNCHANGED told

\* Any number of the unsynced states survives.
Crash ==
    /\ \/ disk' = disk
       \/ \E k \in 1..Len(pending) : disk' = pending[k]
    /\ pending' = <<>>
    /\ UNCHANGED told

Next == Write \/ SyncAndTell \/ Rewrite \/ Crash

Spec == Init /\ [][Next]_vars

\* "Nothing this node has told anyone can be forgotten": whatever is or may
\* come back from disk has the terms, the vote and the committed entries told.
ToldSurvives ==
    \A v \in {disk} \cup {pending[k] : k \in 1..Len(pending)} :
        Extends(told, v) /\ KeepsVote(told, v)
=============================================================================
