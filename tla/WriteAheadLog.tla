---------------------------- MODULE WriteAheadLog ----------------------------
(***************************************************************************)
(* One node's durable state, record by record: the write-ahead log         *)
(* (raft/persistence.py), the snapshot store (raft/snapshot.py), and the   *)
(* parts of the node that drive them (raft/node.py: _persist, _restore,    *)
(* take_snapshot).                                                         *)
(*                                                                         *)
(* The node is single-threaded, so what is interleaved here is the crash:  *)
(* between any two writes, syncs and renames.  A crash keeps every synced  *)
(* record and any number of those flushed since, and may cut the next one  *)
(* short.  The rename of a finished file is one step and is not undone.    *)
(*                                                                         *)
(* An entry is its term (its place in the log tells the rest), and the     *)
(* state machine is the sequence of the entries applied to it.             *)
(***************************************************************************)
EXTENDS Naturals, SequencesExt

CONSTANTS
    Voter,       \* whom a vote can be cast for
    Nil,         \* no vote
    Keep,        \* SnapshotStore.keep
    Faults,      \* what stops a node: "power" loss, a "kill" of the process
    TornForms,   \* how a write can be cut short: inside the record ("torn"),
                 \* or after it, before its line ending ("unterminated")
    MaxTerm,     \* bound on terms
    MaxIndex,    \* bound on the log's length
    MaxRecords,  \* bound on the file between two compactions
    MaxCrashes,  \* bound on crashes
    MaxOrphans   \* bound on snapshots saved above the one the log refers to

ASSUME KeepAssumption == Keep \in Nat \ {0}
ASSUME FaultAssumption == Faults \subseteq {"power", "kill"}
ASSUME TornAssumption == TornForms \subseteq {"torn", "unterminated"}
ASSUME VoteAssumption == Nil \notin Voter
ASSUME BoundAssumption == MaxTerm \in Nat /\ MaxOrphans \in Nat

VARIABLES
    file,            \* the lines of the log's file
    synced,          \* how many of them have been fsynced
    dirty,           \* this process has written since its last sync
    snapshots,       \* the snapshot files: index -> the state machine saved
    term, voted_for, log, commit_index,  \* RaftState, log the entries after base
    base, base_term, \* where the log in memory starts: RaftLog.base_index, base_term
    store,           \* KVStore: the entries applied
    persisted_vote, persisted_commit, snapshot_index,  \* what was last recorded
    pc,              \* where the node is in _persist, take_snapshot or a restart
    decided,         \* history: the longest log this node knew to be committed
    told,            \* history: the state last disclosed by a message
    crashes          \* history: how many crashes there were

diskVars == <<file, synced, dirty, snapshots>>
memVars == <<term, voted_for, log, commit_index, base, base_term, store>>
watchVars == <<persisted_vote, persisted_commit, snapshot_index>>
history == <<decided, told, crashes>>
vars == <<diskVars, memVars, watchVars, pc, history>>

\* Definitions named X_Something are X with a plausible bug, to show that the
\* properties notice; nothing uses them.
MinOf(a, b) == IF a <= b THEN a ELSE b
MaxOf(a, b) == IF a >= b THEN a ELSE b

-----------------------------------------------------------------------------
(***************************************************************************)
(* Records and recovery.                                                   *)
(***************************************************************************)
HeaderRecord == [kind |-> "header"]
TermRecord(t, v) == [kind |-> "term", term |-> t, voted_for |-> v]
EntryRecord(i, t) == [kind |-> "entry", index |-> i, term |-> t]
TruncateRecord(i) == [kind |-> "truncate", index |-> i]
CommitRecord(i) == [kind |-> "commit", index |-> i]
SnapshotRecord(i, t) == [kind |-> "snapshot", index |-> i, term |-> t]

\* A line as it is on disk.  A record without its line ending still verifies;
\* one cut inside, or sharing its line with another, does not.
Line(record, form) == [record |-> record, form |-> form]
Verifies(line) == line.form \in {"whole", "unterminated"}

\* Appending to the file: after a record without line ending the new one
\* lands on the same line.
AppendLine(lines, record) ==
    IF lines # <<>> /\ Last(lines).form = "unterminated"
    THEN Append(Front(lines), Line(record, "damaged"))
    ELSE Append(lines, Line(record, "whole"))

Lines(records) == [i \in DOMAIN records |-> Line(records[i], "whole")]

\* A WalRecovery before the first record.
NothingRecovered ==
    [ok |-> TRUE, term |-> 0, voted_for |-> Nil, base |-> 0, base_term |-> 0,
     entries |-> <<>>, commit |-> 0]

\* One record of the fold each; ok says that no check has failed.
LastRecovered(r) == r.base + Len(r.entries)

ReplayTerm(r, rec) ==
    [r EXCEPT !.ok = @ /\ rec.term >= r.term,
              !.term = rec.term, !.voted_for = rec.voted_for]

\* An entry is itself proof that the node had reached its term.
ReplayEntry(r, rec) ==
    [r EXCEPT !.ok = @ /\ rec.index = LastRecovered(r) + 1,
              !.term = MaxOf(@, rec.term),
              !.entries = Append(@, rec.term)]

ReplayTruncate_KeepsIndex(r, rec) ==
    [r EXCEPT !.ok = @ /\ r.base < rec.index /\ rec.index <= LastRecovered(r),
              !.entries = SubSeq(@, 1, rec.index - r.base)]
ReplayTruncate(r, rec) ==
    [r EXCEPT !.ok = @ /\ r.base < rec.index /\ rec.index <= LastRecovered(r),
              !.entries = SubSeq(@, 1, rec.index - r.base - 1)]

ReplayCommit(r, rec) ==
    [r EXCEPT !.ok = @ /\ r.commit <= rec.index /\ rec.index <= LastRecovered(r),
              !.commit = rec.index]

\* Written by compaction only, before any entry.
ReplaySnapshot(r, rec) ==
    [r EXCEPT !.ok = @ /\ r.entries = <<>>,
              !.base = rec.index, !.base_term = rec.term,
              !.commit = MaxOf(@, rec.index), !.term = MaxOf(@, rec.term)]

Replay(r, rec) ==
    CASE rec.kind = "header" -> r
      [] rec.kind = "term" -> ReplayTerm(r, rec)
      [] rec.kind = "entry" -> ReplayEntry(r, rec)
      [] rec.kind = "truncate" -> ReplayTruncate(r, rec)
      [] rec.kind = "commit" -> ReplayCommit(r, rec)
      [] rec.kind = "snapshot" -> ReplaySnapshot(r, rec)

Fold(lines) ==
    LET fold[n \in 0..Len(lines)] ==
            IF n = 0 THEN NothingRecovered ELSE Replay(fold[n - 1], lines[n].record)
    IN  fold[Len(lines)]

\* How many lines verify before the first that does not.
ValidPrefix(lines) ==
    CHOOSE n \in 0..Len(lines) :
        /\ \A i \in 1..n : Verifies(lines[i])
        /\ n < Len(lines) => ~ Verifies(lines[n + 1])

\* read_wal without repair: a damaged last line is a torn write and is dropped,
\* a damaged line with others after it is refused, and so is a sequence of
\* records that is not a log.
ReadWal(lines) ==
    LET n == ValidPrefix(lines) IN
    [Fold(SubSeq(lines, 1, n)) EXCEPT !.ok = @ /\ n >= Len(lines) - 1]

-----------------------------------------------------------------------------
(***************************************************************************)
(* The node's steps.                                                       *)
(***************************************************************************)
last_index == base + Len(log)

\* The log from index 1 on: what compaction absorbed is in the store.
WholeLog == SubSeq(store, 1, base) \o log

last_applied == Len(store)

InMemory ==
    [term |-> term, voted_for |-> voted_for, log |-> WholeLog, commit |-> commit_index]

Init ==
    /\ file = Lines(<<HeaderRecord>>)
    /\ synced = 0
    /\ dirty = TRUE
    /\ snapshots = [i \in {} |-> <<>>]
    /\ term = 0 /\ voted_for = Nil /\ log = <<>> /\ commit_index = 0
    /\ base = 0 /\ base_term = 0 /\ store = <<>>
    /\ persisted_vote = <<0, Nil>> /\ persisted_commit = 0 /\ snapshot_index = 0
    /\ pc = "idle"
    /\ told = [term |-> 0, voted_for |-> Nil, log |-> <<>>, commit |-> 0]
    /\ decided = <<>>
    /\ crashes = 0

\* WriteAheadLog._write: flushed, not synced.
Record(rec) ==
    /\ Len(file) < MaxRecords
    /\ file' = AppendLine(file, rec)
    /\ dirty' = TRUE
    /\ UNCHANGED <<synced, snapshots>>

\* observe_term, and the vote a new term brings: in memory until _persist.
EnterTerm(v) ==
    /\ pc = "idle" /\ term < MaxTerm
    /\ term' = term + 1 /\ voted_for' = v
    /\ UNCHANGED <<diskVars, log, commit_index, base, base_term, store, watchVars,
                    pc, history>>

CastVote(v) ==
    /\ pc = "idle" /\ voted_for = Nil /\ term > 0
    /\ voted_for' = v
    /\ UNCHANGED <<diskVars, term, log, commit_index, base, base_term, store,
                    watchVars, pc, history>>

(***************************************************************************)
(* What the protocol above guarantees, and Raft.tla checks: terms never    *)
(* fall along a log, and what is committed is neither replaced nor ever    *)
(* found to be something else.                                             *)
(***************************************************************************)
Agrees(lg) == IsPrefix(lg, decided) \/ IsPrefix(decided, lg)

\* RaftLog.append with its journal.
AppendEntry(t) ==
    /\ pc = "idle" /\ last_index < MaxIndex
    /\ \A i \in DOMAIN log : log[i] <= t
    /\ base_term <= t /\ t <= term
    /\ last_index < Len(decided) => t = decided[last_index + 1]
    /\ log' = Append(log, t)
    /\ Record(EntryRecord(last_index + 1, t))
    /\ UNCHANGED <<term, voted_for, commit_index, base, base_term, store, watchVars,
                    pc, history>>

\* RaftLog.truncate_from, of a tail that is not committed.
TruncateFrom(i) ==
    /\ pc = "idle" /\ commit_index < i /\ i <= last_index
    /\ i <= Len(decided) => WholeLog[i] # decided[i]
    /\ log' = SubSeq(log, 1, i - base - 1)
    /\ Record(TruncateRecord(i))
    /\ UNCHANGED <<term, voted_for, commit_index, base, base_term, store, watchVars,
                    pc, history>>

\* From leaderCommit or from the match indexes: in memory until _persist.
AdvanceCommit(i) ==
    /\ pc = "idle" /\ commit_index < i /\ i <= last_index
    /\ Agrees(SubSeq(WholeLog, 1, i))
    /\ commit_index' = i
    /\ decided' = IF i > Len(decided) THEN SubSeq(WholeLog, 1, i) ELSE decided
    /\ UNCHANGED <<diskVars, term, voted_for, log, base, base_term, store, watchVars,
                    pc, told, crashes>>

\* _apply_committed.  In a cluster of several, what is committed has been
\* sent or acknowledged and so synced; the commit index need not be on disk
\* yet, since a leader nobody waits for sends nothing in between.
ApplyCommitted ==
    /\ pc = "idle" /\ last_applied < commit_index /\ ~ dirty
    /\ store' = SubSeq(WholeLog, 1, commit_index)
    /\ UNCHANGED <<diskVars, term, voted_for, log, commit_index, base, base_term,
                    watchVars, pc, history>>

\* _persist, three steps: the term and vote if they changed, the commit index
\* if it changed, fsync.
PersistVote ==
    /\ pc = "idle"
    /\ told # InMemory
    /\ IF persisted_vote # <<term, voted_for>>
       THEN Record(TermRecord(term, voted_for))
       ELSE UNCHANGED diskVars
    /\ persisted_vote' = <<term, voted_for>>
    /\ pc' = "vote_recorded"
    /\ UNCHANGED <<memVars, persisted_commit, snapshot_index, history>>

PersistCommit ==
    /\ pc = "vote_recorded"
    /\ IF persisted_commit # commit_index
       THEN Record(CommitRecord(commit_index))
       ELSE UNCHANGED diskVars
    /\ persisted_commit' = commit_index
    /\ pc' = "commit_recorded"
    /\ UNCHANGED <<memVars, persisted_vote, snapshot_index, history>>

\* sync does nothing when this process has written nothing since the last one.
SyncedNow == IF dirty THEN Len(file) ELSE synced

\* fsync, and the message goes out.
SyncAndSend ==
    /\ pc = "commit_recorded"
    /\ synced' = SyncedNow
    /\ dirty' = FALSE
    /\ told' = InMemory
    /\ pc' = "idle"
    /\ UNCHANGED <<file, snapshots, memVars, watchVars, decided, crashes>>

-----------------------------------------------------------------------------
(***************************************************************************)
(* take_snapshot, three steps: save, compact, prune.                       *)
(***************************************************************************)
\* SnapshotStore.save: written aside, synced and renamed.
SaveSnapshot ==
    /\ pc = "idle" /\ last_applied > snapshot_index
    /\ snapshots' = [i \in DOMAIN snapshots \cup {last_applied} |->
                        IF i = last_applied THEN store ELSE snapshots[i]]
    /\ pc' = "saved"
    /\ UNCHANGED <<file, synced, dirty, memVars, watchVars, history>>

\* What a compaction writes.
Compacted_DropsTail(index) ==
    Lines(<<HeaderRecord, SnapshotRecord(index, WholeLog[index]),
            TermRecord(term, voted_for), CommitRecord(index)>>)
Compacted(index) ==
    Lines(<<HeaderRecord, SnapshotRecord(index, WholeLog[index]),
            TermRecord(term, voted_for)>>
          \o [k \in 1..(last_index - index) |->
                EntryRecord(index + k, WholeLog[index + k])]
          \o <<CommitRecord(commit_index)>>)

\* WriteAheadLog.compact: written aside, synced and renamed over the log.
Compact ==
    /\ pc = "saved"
    /\ file' = Compacted(last_applied)
    /\ synced' = Len(file')
    /\ dirty' = FALSE
    /\ persisted_vote' = <<term, voted_for>>
    /\ persisted_commit' = commit_index
    /\ snapshot_index' = last_applied
    /\ pc' = "compacted"
    /\ UNCHANGED <<snapshots, memVars, history>>

\* The newest Keep snapshot files, by name.
Newest_OneFewer(files) == {i \in files : Cardinality({j \in files : j >= i}) < Keep}
Newest(files) == {i \in files : Cardinality({j \in files : j > i}) < Keep}

Prune ==
    /\ pc = "compacted"
    /\ snapshots' = [i \in Newest(DOMAIN snapshots) |-> snapshots[i]]
    /\ pc' = "idle"
    /\ UNCHANGED <<file, synced, dirty, memVars, watchVars, history>>

-----------------------------------------------------------------------------
(***************************************************************************)
(* Crashes and restarts.                                                   *)
(***************************************************************************)
\* Snapshots above the one the log refers to, left by a crash before Compact.
Orphans == {i \in DOMAIN snapshots : i > Fold(file).base}

Die ==
    /\ pc # "down" /\ crashes < MaxCrashes
    /\ Cardinality(Orphans) <= MaxOrphans
    /\ pc' = "down"
    /\ crashes' = crashes + 1
    /\ term' = 0 /\ voted_for' = Nil /\ log' = <<>> /\ commit_index' = 0
    /\ base' = 0 /\ base_term' = 0 /\ store' = <<>>
    /\ persisted_vote' = <<0, Nil>> /\ persisted_commit' = 0 /\ snapshot_index' = 0
    /\ dirty' = FALSE
    /\ UNCHANGED <<snapshots, decided, told>>

\* The machine stops: what was synced survives, and any number of the records
\* after that, the next one perhaps cut short.
PowerLoss ==
    /\ "power" \in Faults
    /\ Die
    /\ \E n \in synced..Len(file) :
        \/ file' = SubSeq(file, 1, n)
        \/ /\ n < Len(file)
           /\ \E form \in TornForms :
                 file' = Append(SubSeq(file, 1, n), Line(file[n + 1].record, form))
    /\ synced' = Len(file')

\* The process stops: what it flushed is with the operating system, synced or
\* not.
Kill ==
    /\ "kill" \in Faults
    /\ Die
    /\ UNCHANGED <<file, synced>>

\* recover truncates what ReadWal rejected and starts an empty file anew.
Repaired(lines) ==
    LET valid == SubSeq(lines, 1, ValidPrefix(lines)) IN
    IF valid = <<>> THEN Lines(<<HeaderRecord>>) ELSE valid

\* The whole log that recovery finds: the snapshot and the entries after it.
RecoveredLog(r, saved) ==
    (IF r.base \in DOMAIN saved THEN saved[r.base] ELSE <<>>) \o r.entries

Recoverable(r) == r.ok /\ (r.base # 0 => r.base \in DOMAIN snapshots)

\* The commit index is clamped to the log that came back.
CommitOnRestart(r) == MinOf(r.commit, LastRecovered(r))

\* RaftNode._restore: nothing in memory survives but through the files.  When
\* read_wal or loading the snapshot raises, the node stays down.
Restart ==
    LET r == ReadWal(file) IN
    /\ pc = "down" /\ Recoverable(r)
    /\ file' = Repaired(file)
    /\ synced' = IF synced < Len(file') THEN synced ELSE Len(file')
    /\ dirty' = (ValidPrefix(file) = 0)
    /\ term' = r.term /\ voted_for' = r.voted_for
    /\ base' = r.base /\ base_term' = r.base_term /\ log' = r.entries
    /\ commit_index' = CommitOnRestart(r)
    /\ store' = SubSeq(RecoveredLog(r, snapshots), 1, commit_index')
    /\ persisted_vote' = <<r.term, r.voted_for>>
    /\ persisted_commit' = commit_index'
    /\ snapshot_index' = r.base
    /\ pc' = "idle"
    /\ UNCHANGED <<snapshots, history>>

Next ==
    \/ \E v \in Voter \cup {Nil} : EnterTerm(v)
    \/ \E v \in Voter : CastVote(v)
    \/ \E t \in 1..MaxTerm : AppendEntry(t)
    \/ \E i \in 1..MaxIndex : TruncateFrom(i) \/ AdvanceCommit(i)
    \/ ApplyCommitted
    \/ PersistVote \/ PersistCommit \/ SyncAndSend
    \/ SaveSnapshot \/ Compact \/ Prune
    \/ PowerLoss \/ Kill
    \/ Restart

Spec == Init /\ [][Next]_vars

-----------------------------------------------------------------------------
(***************************************************************************)
(* What the files are worth.                                               *)
(***************************************************************************)
\* The state that the first n lines and the saved snapshots bring back, the
\* log whole.
Recovered(lines, n, saved) ==
    LET r == ReadWal(SubSeq(lines, 1, n)) IN
    [term |-> r.term, voted_for |-> r.voted_for, log |-> RecoveredLog(r, saved),
     commit |-> r.commit]

\* The states after each line that is not synced.
Unsynced(lines, n, saved) ==
    [k \in 1..(Len(lines) - n) |-> Recovered(lines, n + k, saved)]

\* A node that crashed can start again without an operator: the file is a log
\* and the snapshot it refers to is there.
AlwaysRecoverable == pc = "down" => Recoverable(ReadWal(file))

\* Between two handlers the file holds the log in memory, snapshot and all,
\* though neither the term nor the commit index may be there yet.
FileHoldsLog ==
    pc # "down" => Recovered(file, Len(file), snapshots).log = WholeLog

\* A restart rebuilds the state machine from committed entries only, and in
\* order, whichever snapshots earlier crashes have left behind.
StoreIsDecided == IsPrefix(store, decided)

TypeOK ==
    /\ synced \in 0..Len(file)
    /\ term \in 0..MaxTerm /\ voted_for \in Voter \cup {Nil}
    /\ log \in Seq(1..MaxTerm)
    /\ base <= last_applied /\ last_applied <= commit_index
    /\ commit_index <= last_index

\* What a restart finds is what the node had, and what it makes of it is sound.
RestartIsSound == FileHoldsLog /\ StoreIsDecided /\ TypeOK
=============================================================================
