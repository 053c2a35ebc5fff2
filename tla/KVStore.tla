------------------------------- MODULE KVStore -------------------------------
(***************************************************************************)
(* The replicated state machine (kv/store.py, kv/commands.py): a map, the  *)
(* index applied, and for each client the last request applied and what it *)
(* answered.  Pure operators; a store is a record, with one field that is  *)
(* history: effects, the requests whose command was run, oldest first.     *)
(***************************************************************************)
EXTENDS Naturals, Sequences

CONSTANTS
    Key, Value,
    Absent,   \* what a key that is not there reads as
    Client    \* who stamps its commands with a serial

ASSUME AbsentAssumption == Absent \notin Value

Data == [Key -> Value \cup {Absent}]

\* A command in the log.  The no-op of a new leader has no session; every
\* other command here is stamped by the leader that received it.
NoOp == [kind |-> "noop"]
Stamped(cmd, c, serial) == [cmd EXCEPT !.client = c, !.serial = serial]

EmptyStore ==
    [data |-> [k \in Key |-> Absent],
     sessions |-> [c \in {} |-> <<>>],
     last_applied |-> 0,
     effects |-> <<>>]

Result(ok, value) == [ok |-> ok, value |-> value]

-----------------------------------------------------------------------------
(***************************************************************************)
(* What a command does to the data, and what it answers.                   *)
(***************************************************************************)
Written(data, cmd) ==
    CASE cmd.kind = "put" -> [data EXCEPT ![cmd.key] = cmd.value]
      [] cmd.kind = "delete" -> [data EXCEPT ![cmd.key] = Absent]
      [] cmd.kind = "cas" /\ data[cmd.key] = cmd.expected ->
            [data EXCEPT ![cmd.key] = cmd.value]
      [] OTHER -> data

Answer(data, cmd) ==
    LET current == data[cmd.key] IN
    CASE cmd.kind = "put" -> Result(TRUE, cmd.value)
      [] cmd.kind = "delete" -> Result(current # Absent, current)
      [] cmd.kind = "cas" /\ current = cmd.expected -> Result(TRUE, cmd.value)
      [] cmd.kind = "cas" /\ current # cmd.expected -> Result(FALSE, current)

\* Definitions named X_Something are X with a plausible bug, to show that the
\* properties notice; nothing uses them.
AlreadyApplied_SameOnly(store, cmd) ==
    cmd.client \in DOMAIN store.sessions
    /\ cmd.serial = store.sessions[cmd.client].serial
AlreadyApplied(store, cmd) ==
    cmd.client \in DOMAIN store.sessions
    /\ cmd.serial <= store.sessions[cmd.client].serial

\* One entry of the log, at the next index.
ApplyNoOp(store) ==
    [store |-> [store EXCEPT !.last_applied = @ + 1], result |-> Result(TRUE, Absent)]

AnswerAgain(store, cmd) ==
    [store |-> [store EXCEPT !.last_applied = @ + 1],
     result |-> store.sessions[cmd.client].result]

Session(store, cmd, result) ==
    [c \in DOMAIN store.sessions \cup {cmd.client} |->
        IF c = cmd.client THEN [serial |-> cmd.serial, result |-> result]
        ELSE store.sessions[c]]

ApplyNew(store, cmd) ==
    LET result == Answer(store.data, cmd) IN
    [store |-> [data |-> Written(store.data, cmd),
                sessions |-> Session(store, cmd, result),
                last_applied |-> store.last_applied + 1,
                effects |-> Append(store.effects, <<cmd.client, cmd.serial>>)],
     result |-> result]

ApplyOne(store, cmd) ==
    IF cmd.kind = "noop" THEN ApplyNoOp(store)
    ELSE IF AlreadyApplied(store, cmd) THEN AnswerAgain(store, cmd)
    ELSE ApplyNew(store, cmd)

\* apply_committed: what each index from last_applied to commit leaves behind
\* and answers; the first one is where it starts.
Applied(store, log, commit) ==
    LET after[i \in store.last_applied..commit] ==
            IF i = store.last_applied
            THEN [store |-> store, result |-> Result(TRUE, Absent)]
            ELSE ApplyOne(after[i - 1].store, log[i])
    IN  after

\* What a snapshot keeps, and a store rebuilt from it.
Snapshot(store) ==
    [data |-> store.data, last_applied |-> store.last_applied, effects |-> store.effects]
RestoreFrom(snapshot) ==
    [data |-> snapshot.data,
     sessions |-> [c \in {} |-> <<>>],
     last_applied |-> snapshot.last_applied,
     effects |-> snapshot.effects]
=============================================================================
