# PyRaft-Lab in TLA+

PyRaft-Lab is a Raft implementation in Python with everything needed to
experiment on it: a fault-injecting network, a virtual clock, a key-value state
machine, clients that record histories, a linearizability checker, chaos
campaigns, an HTTP API and a web frontend.  This directory holds a TLA+
specification of it, the TLC runs that check it on small instances, and proofs,
checked by TLAPS, of what holds for every instance.  Paths below are relative to
`src/pyraft_lab/src/pyraft_lab/`.

1. [The system](#the-system)
2. [Modules, and how they correspond to the code](#modules)
3. [Runs, bounds and fairness](#runs)
4. [Findings](#findings)
5. [Proofs](#proofs)
6. [Not modelled](#not-modelled)

## The system

| Part | State | Operations | Talks to |
|---|---|---|---|
| Log (`raft/log.py`) | entries after a base | append, truncate, merge a batch, compare with a candidate | journals each change to the WAL |
| Consensus functions (`raft/election.py`, `replication.py`, `rpc.py`, `state.py`) | term, vote, log, commit index, role, tally, next and match indexes | begin election, tally, become leader, append, build and handle requests and replies, advance the commit index | pure: called by the node |
| Node (`raft/node.py`) | the above, store, inbox, pending writes and reads, in-flight slots, deadlines | one asyncio task: one envelope or one expired deadline at a time | network, WAL, snapshots, store |
| WAL (`raft/persistence.py`) | a file of records | record term, entry, truncate, commit; sync; compact; recover | called by node and log |
| Snapshots (`raft/snapshot.py`) | a directory of files | save, prune, load | node; referred to by the WAL |
| Store (`kv/store.py`) | data, sessions, last applied | apply committed entries once and in order, snapshot, restore | fed by the node |
| Client (`client/client.py`, `workload.py`) | leader hint, serial, metrics | retry loop; a channel that matches replies to requests | network |
| Network (`network/simulator.py`) | inboxes, links, partition | send, deliver, crash, partition, heal | every node and client |
| Clocks (`network/clock.py`) | now, timers | register, cancel, advance, race a deadline | everything that waits |
| Cluster (`cluster/`) | one manager per member | start, stop, crash, recover, wait for a leader | nodes, network |
| Consistency (`consistency/`) | a history of operations | record, search for an ordering, localize a failure | clients, reports |
| Experiments (`experiments/`) | scenario, run | drive the clock, inject faults, collect results | all of the above |
| API (`api/`) | jobs, subscribers, one lab cluster | start and cancel jobs, broadcast | cluster, experiments |
| Tracing (`observability/`) | events, the live view | record, subscribe, fold | nodes, network, API |
| CLI, REPL, dashboard, frontend | views | display | all of the above |

What is hard here: nodes interleave, and every message may be lost, delayed or
reordered (the simulator never duplicates one); a process may die between any
two writes to its WAL and return from it; requests time out and are sent again
while the first answer is still on its way; deadlines race messages; requests on
a live cluster interleave wherever they await; a job's thread runs beside the
event loop; a client's list of jobs and its messages about them come by different ways.

What each part must guarantee:

- elections: one vote per server and term whatever crashes, one leader per term;
- replication: logs that agree on a term agree below it; what is committed
  stays and is in every later leader's log; no two nodes apply different
  commands at one index; the leader's bookkeeping never exceeds what is stored;
  whoever lags catches up with a leader that stays;
- WAL and snapshots: always readable, and a restart loses nothing anyone was told;
- store and sessions: every write once, in order; an answer is to its own call;
- reads: never older than what a completed operation has shown;
- checker: exact verdicts, and an accusation only when it is a proof;
- network and clocks: every message is accounted for, and nothing is lost in a race;
- cluster, jobs, runner: nothing is left behind, every request ends, a cancelled job
  stops in time, and a scenario does what it says;
- traces: what is told of the leadership was so.

`PROJECT.json` lists the hazards line by line, with the properties that cover
each.

## Modules

| Module | Models |
|---|---|
| `RaftLog` | the pure operators on logs: consistency check, merge, up-to-date comparison, batches |
| `Raft`, `RaftProperties` | the nodes, their WALs and the network, one action per handler outcome; the cluster's properties |
| `AppendLoop` | the merge as the loop it is in `RaftLog.append_new_entries`, one WAL record per step |
| `Replication` | what the next two share: terms, logs, commit indices, and the rule that advances them |
| `CatchUp` | replication with compacted logs and one in-flight slot per peer |
| `Reads` | linearizable reads by ReadIndex |
| `StableStorage`, `WriteAheadLog` | what durable state promises; the records, syncs, snapshots and crashes that keep the promise |
| `KVStore`, `ClientSessions` | the state machine with its sessions; calls from the client to the log and back |
| `Linearizability` | histories and the checker, against a definition of linearizability |
| `VirtualClock`, `Network`, `Deadlines` | the clock; the simulated network on it; the race of a receive with a deadline |
| `Cluster` | the live cluster and the HTTP requests on it |
| `Jobs` | background jobs, broadcasts and sockets |
| `Runner` | a scenario's timeline and what its steps do |
| `Trace` | events, the live view and the leadership found in a trace |
| `MCRaft`, `MCSchedule`, `MCStorage`, `MCClientSessions`, `MCLinearizability`, `MCClock`, `MCLab`, `MCLeadership`, `MCCatchUp` | what TLC needs |
| `RaftLogProofs` (the log operators), `RaftProofs` (elections, log matching), `CommitProofs` (quorums, commitment, bookkeeping), `LeadershipProofs` (catching up, reads, traces), `WriteAheadLogProofs` (also `StableStorage` and the merge loop), `SessionProofs`, `NetworkProofs` (also races with a deadline), `LabProofs` (members of a cluster, histories) | the proofs |

Definitions named `X_Something` are `X` with a plausible bug.  Nothing uses
them: replaced for `X`, each makes a property fail, which shows that the property
looks at what `X` does.

### Raft

*State.* `current_term`, `voted_for`, `log`, `commit_index`, `role`,
`next_index`, `match_index` are the fields of `RaftState`; `granted` is the
tally; `wal` is the term, vote and commit index that recovery would read;
`network` is the bag of envelopes sent and not yet received; `elected` is
history.

*Atomicity.* A node is one asyncio task and no handler awaits, so a handler is
an action; handlers with early returns are one action per outcome
(`RejectStaleAppend`, `RejectMismatch`, `AcceptAppend`).

*Durability.* `_send` calls `_persist` first, so an action that sends also
brings `wal` up to date (`Persist`), and one that only records does not: a
step-down caused by a reply is not persisted, and a leader's new commit index
reaches its WAL only when a client waits for it or at the next send.
`_on_append_reply` sends the next batch *before* it advances the commit index,
so that message carries, and the WAL keeps, the old one: `AppendAcknowledged`
says so.  Log changes are journalled at once, hence `wal` needs no copy of the
log between handlers.

*Crashes.* `Restart` is a death between two handlers together with the
recovery from the WAL (`_restore`): the time the process was down is the time
before it in which the node did nothing and its messages were lost.
`TornAppend` is a death inside a merge, after any number of its records.  A
death after some of a handler's sends is that handler, the loss of the other
messages, then `Restart`.  Deaths inside `_persist`, and between an append and
the `_persist` after it, are coarser than the code here and exact in
`WriteAheadLog`.  A node without a WAL keeps its object when it is stopped and
started again, which is a pause.

*Network.* A bag from which any envelope may be received or lost (`Lose`: random
loss, a partition, a node that is down, an inbox that died).  An envelope sent
before a restart may arrive after it, as in the simulator, which looks the inbox
up on delivery.

*Time.* Deadlines "may fire now": `StartElection` and `BroadcastHeartbeat` are
enabled whenever the role allows.  The slot that keeps a leader from sending a
peer a second request depends only on time, so a leader may skip any subset of
peers (`free`).  `Reads` and `CatchUp` model time and slots.

*Dead data.* The tally, next and match indexes are reset on stepping down
although the code clears some of them later: nothing reads them before they are
set again.

### CatchUp and Reads

Both extend `Replication`, keep what replicates in `Raft` (handlers, batches,
`advance_commit_index`) and reduce an election to what replication sees of it: a majority moves to a new
term at once, and elects somebody whose log it prefers.  `Raft` checks that
elections do that.

`CatchUp` adds what `Raft` leaves out: the base below which a node back from a
compacted log can neither send nor compare entries (`TermAt` of the code answers
`None`), the clamp in `build_append_entries`, the slot `_in_flight` with its
timeout, and the retry that overtakes the first request.  A log is kept whole in
the model, beside its `base`, so that agreement can be stated.  Links are FIFO,
as equally late messages are (`SameDelayInOrder`); a restarted node's commit
index may come back lower than it was, as its WAL may lag.  Of what was under way to
it the last messages, any number, still arrive: the simulator looks the inbox up on
delivery, and what was due before the node came back is lost.

`Reads` adds the clock reading a request carries and its reply echoes, the
latest such reading per peer (`acked`), and reads that wait for a majority of
them.  The clock moves with every read: a finer clock only separates more.

### WriteAheadLog and StableStorage

A record is a line that verifies or does not; a file is a sequence of lines, of
which the first `synced` survive a power loss.  A power loss keeps any number of
the others and may cut the next; a kill of the process keeps all that was
flushed.  `Fold` is `_fold` record by record with the checks at which it raises;
`_persist`, `take_snapshot` (save, compact, prune) and recovery are cut into
their writes, and a crash may come between any two (`pc`).  Renaming a finished
file is one durable step: the code does not sync the directory, and a file
system that reorders the rename with the data is out of scope.

`StableStorage` says what others may rely on: a node writes one state after
another, a sync makes the last one stable and only then is anyone told of it, a
crash falls back to some state written since.  `MCStorage` maps a
`WriteAheadLog` to it: `disk` is what recovery makes of the synced lines,
`pending` what each later line adds.  A record is a write, if it changes anything
that recovery finds; `_persist`'s sync is the one before a message; compaction is a
rewrite, which makes the state in memory stable at once; saving and pruning
snapshots changes nothing, as no recovery reads them.

### KVStore and ClientSessions

`KVStore` is pure: `ApplyOne` with the session table, the answers of put, delete
and cas, `Snapshot` without the sessions, as in the code.  `effects` is history.
`ClientSessions` puts the retry loop, the hint, the shared inbox of a client's
concurrent calls and the nodes' `_pending` around it.  Consensus is replaced by
what `Raft` checks of it: a chosen log, leaders that have all of it, and deposed
leaders that do not know yet.  `SuddenDeposition` says whether a deposed leader
may learn of it from the very append that replaces its entries; see Findings.

### Linearizability

`operations` and `clock` are a history being recorded; several operations may
begin and end at one instant, as under a virtual clock.  `Search` is `_search`,
depth first with its memo and a budget shared by the keys, as a recursive
function; `PhantomRead` and
`StaleRead` are the rules of `_localize`; `Check` and `Verdict` follow `check`
key by key, with what is left of the budget (`CheckedUpTo`).  The reference, `IsLinearizable`, quantifies over the orders of the
operations and shares nothing with the search but what one operation does to
a key.

### VirtualClock, Network, Deadlines

`VirtualClock` is the heap with its counter, `advance_to` as the jump of `now`
followed by one callback at a time, and pruning of cancelled timers.  `Network`
puts deliveries in it: `Send` decides as `SimulatedNetwork.send` does (unknown,
partition, loss, delay), `Deliver` gives a message to whoever has the name by
then.  The driver goes from one deadline to the next, as `_drive` does; only
then is a message on time.  `Deadlines` has a clock of its own, with sleeps and the two tasks of
`race_deadline`, their cancellation (heard at the task's next step), and the
cancellation of the race itself.

### Cluster, Jobs, Runner, Trace

*Cluster*: one event loop; a request gives way only where it awaits, while a
cancelled loop ends (`StopReturns`) and between two polls for a leader (`Poll`).
For each member the manager's object and its belief `running`, for each object
its task, and who holds the name on the network.  A loop may die of an exception at
any time, also while it ends after its cancellation; `stop` raises it again, past the
line that sets `running`, so that the manager goes on believing that a member runs
which has neither loop nor inbox, until somebody stops it once more.  `raised`
remembers of which members that is so.  Elections are atomic.  The code does not keep
two requests from stopping one member, or from tearing the cluster down meanwhile;
what it promises it promises when they keep apart (`ApartSpec`), and what happens when
they do not is among the findings.

*Jobs*: the worker is a thread, so each of its steps may fall between any two of
the loop's: the trial with its line of the log, the count, the notification, the look
for a cancellation, and what a campaign does after its last trial.  What it has to say
is a callback on the loop.  The queue of a socket has the code's bound and the code's
way of exceeding it.  A client subscribes, asks for the list of jobs and gets it in
three steps (`Connect`, `ListJobs`, `ListArrives`), as it does in the frontend
(`LabContext.tsx:130-134`), where the list replaces what messages said meanwhile.

*Runner*: any scenario with a few faults, chained to its end steps as the parser
does, applied while virtual time advances to the next deadline; the cluster is
who is up and who believes to lead in which term.  A crash waits for the member's task
to end, while the others act; what it raises ends the run.  The fault kinds are all those
that overlap (crash, partition, latency).

*Trace*: nodes and network emit events as the code does; the live view is folded
event by event; the intervals of a report are recomputed from the trace and
compared with `served`, which says when a leader was there.  Each event has an
instant of its own; votes may arrive late and out of order.  Whether nodes come
back from their WALs or, kept in memory, as they were (`persistent`) is settled in
the first state.

## Runs

Several models share a run: an MC module whose first state picks a `part`, after
which the models share no state.  Each part is explored as if it were alone.
`PROJECT.json` has the properties of each run in words.

| Run | Instance | What it shows |
|---|---|---|
| `elections` (`MCRaft`) | three servers, each may crash at any step, two terms, logs of one entry, two messages in flight | one leader per term, and no vote forgotten or given twice |
| `replication` (`MCRaft`) | three servers, two terms, one command, logs of two, batches of two, two messages in flight, no crash | logs match; the leader is complete; applied prefixes agree; the leader's bookkeeping is true; nothing committed is truncated |
| `schedules` (`MCSchedule`) | Figure 8 (candidates n1, n2, n1; batches of one) and three leaders over one log (logs and batches of three, n1 may crash), three terms | an entry is counted as committed only when it is decided; three leaders agree; a crash, also in the middle of a merge, never leaves less than was committed, nor (among three servers) than was acknowledged |
| `stale_tail` (`MCSchedule`) | Figure 8 | a finding |
| `storage` (`MCStorage`) | one voter, two terms, two entries, five records, two crashes: power losses, then kills. And every log and batch of up to four entries in three terms, merged statement by statement | a crash anywhere leaves a readable file, which holds what the node has disclosed; the refinement of `StableStorage`; the loop's result is the one `Raft` uses, and any prefix of its records is a log |
| `linearizability` (`MCLinearizability`) | histories of four reads and writes of two values on one key, of three operations of all kinds on one key, and of three reads and writes on two keys with budgets that run out in the middle; `Reads` with three servers | the checker's verdict is the definition's, for every key that the shared budget lasts for; accusations are proofs; the read index holds in a failover and in a round of heartbeats |
| `sessions` (`MCClientSessions`) | two nodes, one client: calls one at a time with a restart; bursts of two | nothing is applied twice; replicas agree; the call issued last is answered what its own command gave; nobody waits for another's request |
| `clock` (`MCClock`) | two nodes, three messages, delays of nought and one, four faults; one racer, two messages, three races | every message is accounted for, in order and on time; a race swallows nothing and ends |
| `lab` (`MCLab`) | three members and two requests that keep apart, one loop that dies (without WALs), none (with WALs); a job of two trials and a client whose queue holds two; four jobs at two times, of which one finished one is kept; scenarios of two faults in four instants | members are what the manager says; nothing is left behind; requests end; jobs stop when cancelled, and their end is heard; a scenario is applied as written |
| `leadership` (`MCLeadership`) | `CatchUp` with compacted logs; traces of one fault (a crash or a partition) and eleven events, twelve where a node has come back, of nodes with WALs and without | what is applied agrees; what a trace tells of terms, and of recoveries from crashes, was so |
| `catchup` (`MCCatchUp`) | three servers: in-flight slots with one loss and one overtaking; a leader deposed and elected again, with one loss; a leader that compacts, restarts and leads again, with one loss. Two servers: either restarts from a compacted log | a leader that stays brings to its end every whole log that has the entry at the leader's base |
| `reads_far_behind` (`Reads`) | three servers, batches of one | a finding |

*Bounds.*  `MaxInFlight` holds back timers and clients only, never a reply: with
two envelopes in flight a reply overtakes a request, and two candidates' requests
cross.  Two terms and two entries already give every kind of conflict between two
logs (shorter, longer, same length with another term); what needs a third term
is in `schedules`, where the order of candidates is fixed and everything else is
free.  Batches of one are what makes the rule on the current term necessary.  A
queue of two and one kept job reach their limits, as 1000 and 50 would; four jobs are
as many as it takes for a finished one to be dropped that is younger than one that
runs.  The twelfth event of a trace is the one with which a leader that was lost and
came back can be seen to lead before the next election; it is left out where nobody
came back.
`AppendLoop` covers all logs that two leaders and one follower can hold up to its
length.  A scenario of two faults has all overlaps of two.  What counts with more
servers than three (other majorities) is left to the proofs.

*Symmetry.*  The servers are alike in `elections`, `replication`, `leadership` and
in the reads of `linearizability`, and there the clients' values too.  The views
`NoHistory` and `NoHistoryHere` hide `elected`, which only `ElectionSafety` and
`VotesDurable` read, and those are not in these runs.  No run with a liveness
property has a symmetry.

*Deadlock.*  It is checked in `elections`, `replication` and `schedules`, where it
says little, as a node can always answer a client.  Elsewhere histories, requests
and messages are finite and end; that they do not end too early is what the
liveness properties say.

*Fairness.*  None for `Raft`: its properties are about safety, and the code
promises no election within a time.  `AppendLoop`: the loop contains no wait.
`CatchUp`: each heartbeat is a deadline of a running task, and each link delivers
its first message in the end, `asyncio` being fair to ready tasks.  `Deadlines`
and `Network`: tasks that are ready run, callbacks that are due fire, and the
driver advances the clock, which is what `_drive` is.  `Cluster`: a cancelled
task ends, and the polling loop goes on until its own timeout.  `Jobs`: worker
threads run, the loop runs its callbacks and answers requests, and a socket that is
not blocked takes the next event; only `ViewCatchesUp` uses it, which no run selects.
`leadership` and `lab` check `Trace`, `Jobs` and `Runner` for safety only.

## Findings

Two runs show a disagreement between the code and what is said of it.

- **A stale tail is committed** (`stale_tail`; `raft/rpc.py:139`).  `commit_index`
  becomes `min(leader_commit, log.last_index)`, while the docstring says "index of
  last new entry" (line 118).  With batches too small to reach the stale tail a
  follower applies entries its leader never held.
- **A new leader answers from the past** (`reads_far_behind`; `raft/node.py:760`).
  A read is confirmed by acknowledgements of whatever was sent, and a batch has at
  most `MAX_BATCH` entries, so that a majority may have acknowledged less than the
  new leader's no-op; its commit index is then still the old one.

Others have a configuration of their own beside the runs, which finds the
violation (`tlc -config X.cfg M`):

| Configuration, property | Code | What happens | What is said |
|---|---|---|---|
| `MCStorage_torn_newline`, `ToldSurvives` | `raft/persistence.py:99` | a last record cut just before its line ending is accepted, and the next one is written on the same line; at the next start both are dropped, though synced | `persistence.py:36` "Nothing this node has told anyone can be forgotten" |
| `MCStorage_unsynced_restart`, `ToldSurvives` | `raft/persistence.py:446` | `_dirty` starts false: after a kill and a restart, `sync` does nothing for records only the operating system holds, and a power loss takes them | the same |
| `MCStorage_orphans`, `AlwaysRecoverable` | `raft/snapshot.py:254` | `prune` keeps the newest by name; two snapshots saved before a crash and never referred to outlive the one the log has just been compacted against | `raft/node.py:302` |
| `MCSchedule_torn_back`, `MatchIndexIsStored` | `raft/log.py:165` | five servers: a follower truncates for a new leader and dies before that leader's term is written; it comes back in the older term without what it acknowledged there, and the old leader still counts it. Those who elected the new leader acknowledge nothing more in the old term, so the old leader finds no majority for it | `raft/node.py:15-16` |
| `MCClientSessions_false_answer`, `AnswersAreOwn` | `raft/node.py:453` | a deposed leader answers its waiters from its successor's entries before it drops them (460) | `raft/node.py:161` |
| `MCClientSessions_lower_serial`, `AnswersAreOwn` | `kv/store.py:148` | of a burst the later request is logged first; the earlier one never runs and is told the other's result | `store.py:149` "Answer with what it answered the first time" |
| `MCClientSessions_lost_sessions`, `ReplicasAgree` | `kv/store.py:108` | a snapshot has no sessions: a replica restored from it runs a repeated request that others skip | `store.py:14` "byte-identical state" |
| `Linearizability_shared_budget`, `VerdictIsExact` | `consistency/linearizability.py:432` | once a key has used up the budget, every later key is reported as a violation | lines 12-14: "the result says so rather than guessing" |
| `Cluster_second_restart` with `NothingLeftBehind` in the place of its invariant | `cluster/manager.py:106` | a restart in progress starts its member again after the shutdown | `cluster/lifecycle.py:62` |
| `Cluster_second_restart`, `MemberIsWhatItSays` | `cluster/manager.py:94` | the end of a stop marks a member as down that another request has started since | `cluster/manager.py:97` |
| `CatchUp_below_base`, `CatchesUp` | `raft/log.py:147` | a follower back from a compacted log answers as in a conflict to whatever starts below its base, and the leader walks further down for ever | `raft/snapshot.py:14-15` |

The rest are stated in their modules, each with the lines it is about, and no
configuration selects them: `AnswerIsOfThisAttempt` (`client/client.py:269`
against 235: a late reply to an earlier attempt is taken for this one's),
`FailedCallAskedAround` (`raft/node.py:697` against `client/client.py:219`: a
deposed leader names itself), `LeaderIsReal` and `TimeoutIsHonest`
(`cluster/lifecycle.py:51`: roles of stopped members count), `OldestFirst`
(`api/jobs.py:197` against 28: of finished jobs of one creation time the youngest
goes), `ViewCatchesUp`
(`api/state.py:188` against 39-41: a slow socket's queue is dropped and the socket
left open, so that it never reconnects), `ListTakesNothingBack` (the frontend's
`LabContext.tsx:133`: a list read before a message and arriving after it takes back
what the message said, a job's end for instance), `PutsBackItsOwn`,
`EveryStepIsReported`, `EndsOnlyItsOwn` (`experiments/runner.py:400`, `:281`,
`scenario.py:296`: overlapping faults end each other, and steps after the end
vanish), `NothingCrosses` (`network/simulator.py:223`: a delayed message crosses
a partition made meanwhile), `PendingIsLive` (`network/clock.py:181`: cancelled
timers are counted), `RulesAreSound` (`consistency/linearizability.py:314` against
280: a read that finds nothing is blamed, although a concurrent delete explains it),
`RecoveryIsLeaderless` (`experiments/metrics.py:122`: with partitions, with nodes that
come back as they were, or when the older of two candidates counts its votes last),
`ReignsAreInOrder` (`:90`), `NamedIsUp`
(`observability/metrics.py:108`), `BaseIsShared` (`raft/replication.py:64`
against 58-59, where followers that hold the committed prefix are "all of them, since a
snapshot only ever covers applied entries": applied entries are on a majority, not
everywhere).  It fails with three servers, `MaxRestarts = 1` and `MaxLost = 1`.  What
follows is a leader that comes back from a log compacted past what a follower has: its
requests are clamped to the base and refused for ever, although the follower lost
nothing and its log is whole.

The passing runs check what does hold, and where a stronger form fails they name
the difference: `EndIsHeardUnlessSlow`, `CatchesUpWholeLogs`, `ReadIndexHolds`,
`VerdictIsRight`, `BlamedRightly`, `CrashIsLeaderless`, `PruneKeepsRecent` and
`AnswersGoToWhoAsked` are such.  `CatchesUpWholeLogs` leaves out the followers that
`CatchUp_below_base` and `BaseIsShared` are about (`Repairable`), and
`VerdictIsRight` what is concluded after the budget is used up.

## Proofs

For every cluster, every batch size and every bound:

| Theorem | States |
|---|---|
| `RaftProofs!TypeInvariant`, `TypeCorrect` | `TypeOK`. It is not inductive alone: to keep `next_index` positive and terms natural one needs that candidates and leaders are in a positive term |
| `RaftProofs!VotesAreDurable` | `VotesDurable` |
| `RaftProofs!ServersVoteOncePerTerm` | `OneVotePerTerm` |
| `RaftProofs!OneLeaderPerTerm` | `ElectionSafety` |
| `RaftProofs!LogsMatch` | `LogMatching` |
| `CommitProofs!CountedIsSafe` | `CountedIsDecided`: what a leader commits by counting, everybody a majority could still elect holds |
| `CommitProofs!AppliedTheSame` | `StateMachineSafety`, as long as `CommitWithinBatch` |
| `CommitProofs!LeadersAreComplete` | `LeaderCompleteness`, as long as `CommitWithinBatch` |
| `CommitProofs!CommittedStays` | `CommittedNeverTruncated`, as long as `CommitWithinBatch` |
| `CommitProofs!WalStaysReadable` | `WalReadable` of every step, as long as `CommitWithinBatch` |
| `CommitProofs!OneBatchIsSafe` | `CommitWithinBatch`, `StateMachineSafety` and `LeaderCompleteness` in every behaviour whose logs fit into a batch (`MaxLog <= MaxBatch`) |
| `CommitProofs!FewServersStore` | `MatchIndexIsStored` among at most four servers, whatever crashes tear |
| `CommitProofs!WholeMergesStore` | `MatchIndexIsStored` among any number, in every behaviour in which no crash tears a merge |
| `LeadershipProofs!AppliedAgreeWhenCovered` | `AppliedAgree` of `CatchUp`, as long as `RequestsCover` |
| `LeadershipProofs!AppliedAgreeHolds` | `AppliedAgree` in every behaviour whose logs fit into a batch (`MaxTerm + MaxWrites <= MaxBatch`), as in the run `leadership` |
| `LeadershipProofs!ReadIndexHoldsWhenReached` | `ReadIndexHolds` of `Reads`, as long as `RequestsReach` |
| `LeadershipProofs!ReadIndexHoldsInOneBatch` | `ReadIndexHolds` in every behaviour whose logs fit into a batch, as in the run `linearizability` |
| `WriteAheadLogProofs!AlwaysRecovers` | `AlwaysRecoverable`, if `TornForms \subseteq {"torn"}` and `MaxOrphans < Keep` |
| `WriteAheadLogProofs!RestartsSoundly` | `RestartIsSound`, under the same conditions |
| `WriteAheadLogProofs!ImplementsStorage` | the write-ahead log and the snapshots implement `StableStorage` (`ImplementsStableStorage` of the run `storage`), under the same conditions and if `Faults \subseteq {"power"}` |
| `WriteAheadLogProofs!NothingToldIsLost` | hence nothing that a node has told: whatever its files may come back with has the term, the vote and the committed entries told |
| `WriteAheadLogProofs!TornMergesArePrefixes` | `TornLogIsPrefix`: what a death between two records of a merge leaves is what `TornAppend` of `Raft` leaves |
| `WriteAheadLogProofs!LoopIsTheMerge` | when the loop of `append_new_entries` is through, its result is the closed form that `Raft`, `CatchUp` and `Reads` use |
| `SessionProofs!NobodyWaitsForAnother` | `WaitersMatchLog`, without conditions |
| `SessionProofs!EachRequestOnce` | `AppliedOnce`, without snapshots |
| `SessionProofs!SamePrefixSameState` | `ReplicasAgree`, without snapshots |
| `SessionProofs!AnswersReachTheirCalls` | `AnswersGoToWhoAsked` (`LatestAnswerIsOwn` and `WaitersMatchLog`), without snapshots or `SuddenDeposition` |
| `SessionProofs!AnswersAreTheirs` | `AnswersAreOwn`, without snapshots or `SuddenDeposition` and with one call at a time (`Burst = 1`) |
| `NetworkProofs!EveryMessageIsAccounted` | `MessagesAreAccounted` |
| `NetworkProofs!TimersAreOnTime` | `OnTime` |
| `NetworkProofs!EquallyLongInOrder` | `SameDelayInOrder` |
| `NetworkProofs!ResetMeansIdeal` | `IdealAfterReset` |
| `NetworkProofs!RacesEndCleanly` | `RacesAreClean`, for any number of racers |
| `LabProofs!MembersAreWhatTheySay` | `MemberIsWhatItSays`, for any number of requests that keep apart (`ApartSpec`), whichever loops die and stops raise |
| `LabProofs!NothingStaysBehind` | `NothingLeftBehind`, under the same condition |
| `LabProofs!BlameIsSound` | `BlamedRightly`, for histories of any length |
| `LeadershipProofs!TermsAreToldRight` | `TermsAreTold`, whatever crashes and partitions |
| `LeadershipProofs!CrashesAreLeaderless` | `CrashIsLeaderless`: without partitions, and with WALs, a recovery time is one in which nobody led, as long as elections were won in the order of their terms |

`CommitWithinBatch` says that no request tells a commit index beyond the entries it
brings.  The code does not ensure it, and without it `StateMachineSafety` is false:
that is the finding `stale_tail`.  The theorems say that this is all that is
missing.

The run `schedules` is such an instance in its part with three leaders (logs and
batches of three, three servers): its `ThreeLeadersAgree` is what `OneBatchIsSafe` states,
and its `CrashesUndoNothing` what `FewServersStore`, `WalStaysReadable` and
`CommittedStays` do.

`RequestsCover` says the same of `CatchUp`, and `RequestsReach` adds that a request
ends at an entry of its leader's term.  The code does not ensure that either: a batch
that is cut ends where it ends (`Reads_far_behind`).

`RaftLogProofs` has the lemmas on the log operators that both Raft and the models of
reads and of catching up rest on: least and greatest elements, and the types and
lengths of batches and merges.  `CountingUp`, the induction over the naturals that
the other modules use, is there too.

*Elections.*  A *promise* is a vote somebody was told of: in a reply in flight, in
a tally, or in a finished election.  `VotesDurable` says the voter's WAL still
binds it: it records a later term, or that very vote.  `WalBehind` says that the
WAL's term is not ahead of the node's and that, when equal, a vote the WAL records
is the node's.  A step makes a promise only for a vote `Persist` has just written
(`HandleRequestVote`, `StartElection`); every other step keeps the promises within
those there were (`Quiet`) and moves the WAL only forward (`WalForward`), the entry
that raises the WAL's term after a torn merge included.  Then two promises of one
voter and term are both what its WAL records (`OneVotePerTerm`); and two winners
have majorities of promises, which share a voter (`ElectionSafety`,
`VotersAreMajority`).

*Logs.*  Two logs that share an entry agree up to it, but that is not inductive:
the requests in flight, and what a crash leaves of a merge, must agree too.
`LogInv` says that a set of *histories* exists, pairwise in agreement, such that
every log begins one (`PrefixOf`) and every request is a slice of one
(`SliceOf`).  A merge of a slice into a beginning is a beginning of one of the two
histories (`MergeIsPrefix`), and so is whatever part of it a crash leaves.  Only a
leader's append makes a history more; it agrees with the others because nobody
else could have an entry of that term at that place: a leader holds every entry of
its term there is, and a term just won has none.  For that a leader must be the
winner of its term and a candidate must not have won its own yet
(`RolesAreEarned`), which rests on `ElectionSafety` and, for a candidate that
starts anew, on `VotesDurable`.

*Counting.*  The invariant of the first half of `CommitProofs` (`Story`) remembers two things that no
state holds.  `h[t]` is the log of the leader of term `t`, as long as it ever was:
every log and request is a piece of histories, and up to each entry a log is what
the leader of the entry's term had (`Written`).  `a` is the set of
*acknowledgements*: server, term and index such that the leader of the term was
told, or is being told, that the server stores its log up to there (`AcksKnown`).
One would like to say that a server still holds what it acknowledged until it moves
on to a later term.  A crash in the middle of a merge makes that false: the
truncation is journalled before the term of the leader that asked for it
(`MCSchedule_torn_back`).  What is true is that the server still holds the entry *or*
a later leader was elected without it (`Lost`): that leader's request is what the
truncation came from (`AcksHeld`).  If there is such a leader, there is one whose
voters had not acknowledged the entry (`VotersBlock`): of the leaders without it
take the first; its voters compared their logs with the candidate's and would have
refused it, had they held the entry (`VotesCompared`), and they never acknowledge it
later, as their WAL holds the later term.  A majority that acknowledged shares a
server with those voters.  So an entry of the leader's own term that a majority
acknowledged (`Chosen`) is in every later leader's log, for good (`ChosenStands`).

*Committing.*  `Decided` says of a commit index, with the log it is about and a term,
that what it covers is what the leader of that term or an older one had up to a
chosen entry.  `Commits` says it of each server's commit index, of the one in its
WAL with the WAL's term, which is all a crash leaves, and of the commit index in
each request, about the history of its leader.  A merge, also a torn one, keeps what
the follower committed, as the leader that asks for it has it
(`MergeKeepsDecided`); and it takes over the leader's commit index, which is decided
in the leader's log: in the follower's, it is so only as far as the request
reaches.  Here `CommitWithinBatch` is needed, and nowhere else.

*Bookkeeping.*  `MatchIndexIsStored` needs of the acknowledgements that who has not
gone on to a later term still stores what it acknowledged to another (`AcksStored`).
Only a torn merge can make it false: a later leader whose log lacks the entry
asked for it.  By `VotersBlock` there is then one whose voters had not acknowledged the
last entry of the old leader, which that leader itself had; so they do not include it.
Nor do they include the follower, whose WAL would be of the later term.  A majority
without these two takes five servers (`FewMajorities`, `FewKeep`), as in
`MCSchedule_torn_back`.

*Catching up and reads.*  `CatchUp` and `Reads` elect in one step: a majority moves
to a new term, which is all that later steps can tell of an election.  The argument
is then the one above with less to remember.  `h[t]` is the log of the leader of `t`,
and `a[p][t]` is the last index of it that `p` acknowledged; `Sound` says that they
explain the terms, leaders and logs of a state: every log is traced to them
(`Written`), what was acknowledged is stored or lost to a later leader (`Stored`),
and what is lost a majority had not acknowledged and never will (`LostIsBlocked`).
Each kind of step is proved once to keep `Sound`, for terms, leaders and logs that are
parameters and not the variables of a module (`Wins`, `Proposes`, `Merges`, `Follows`),
so that both modules use it.  `Replicated` adds what leaders know of their peers and
that commit indices are `Decided`.

What is on a link in `CatchUp` is a request or a reply of the two ends (`Sent`), so
that a restart, which cuts links to their last messages and takes back commit indices,
a snapshot, a request overtaken by its repetition or a lost one only leaves less to be
true (`CatchUpInv`).  Entries below the base cannot be compared: `Holds` then refuses, and
the proof needs only that it never accepts what does not match.

For reads, `Waits` says of each read that a leader holds back that its answer will be
right, whenever it comes.  What clients had been told when it came is `Heard`: it is
in some chosen entry's past, which a later leader has.  If it is of an older term, the
leader's log has it before its first own entry, and the leader answers only when it
has committed one of those; if it is of the leader's own term, it is below the index
noted (`Promised`).  That nobody else led when the read came is shown from the other
end: were there a later leader, the majority that elected it would be of a later term
and would have acknowledged nothing that this leader sent since (`Superseded`), and it
never will, as a request of an older term is refused; so no majority ever confirms
(`_confirmed_leader_since`), and the read is never answered.  Replies that are still
under way are of requests sent before (`Outdated`), and carry the time of those.

A follower takes over the smaller of the leader's commit index and its own last index,
which after a cut batch may be that of an older tail; hence `RequestsCover`.  That a
success tells of an entry of the leader's own term is needed to know that the entries
before it are the leader's as well; hence `RequestsReach`.  When one batch holds any
log there can be (`Short`: one entry for each term and write), no request is cut and
both follow (`ShortRequestsCover`, `ShortRequestsReach`).

*Storage.*  The invariant of `StableStorage` says that what was told is below what
is durable, and that crashes return to the durable state.  That of
the write-ahead log (`Inv`) relates the file, the snapshots, the memory and what
is decided.  `FileSound`: whatever prefix of the lines a crash could leave, what
recovery makes of it passes every check, holds what it says is committed, and
refers to the snapshot that the whole file refers to; only the last line may be
torn, and only while the node is down.  `SnapshotsSound`: a snapshot is what was
decided up to its index, the one that the log refers to is there, and at most
`MaxOrphans` are above it.  `FileIsMemory`: the file of a running node brings back
its log, above the base that the last compaction recorded, and is behind with the
term, the vote and the commit index by no more than what `_persist` has yet to
write.  A record is proved to be one step of the recovery (`TermSound`,
`EntrySound`, `TruncateSound`, `CommitSound`), a rewritten file to bring back the
memory it was written from (`CompactedSound`), and each step of the node to keep
the invariant, crashes between any two writes and kills followed by power losses
included.  The two conditions are those that the configurations
`MCStorage_torn_newline` and `MCStorage_orphans` break: a line that verifies
without its line ending makes the next record share its line, and as many orphaned
snapshots as are kept push the one in use out.  Under them nothing else is needed.

For the refinement (`ImplementsStorage`), `PowerInv` adds what is told: every state
that a crash may leave keeps the term and vote told (`LinesKeep`), and so does
memory; and a process that has written nothing has nothing to sync, so that the
`sync` that `_persist` skips would change nothing.  With kills this is false: a
killed process leaves records that are flushed and not synced, the next one finds
them and does not sync them (`MCStorage_unsynced_restart`), and so `Faults` is
`{"power"}`.  What a recovery brings back (`Brought`) is a state of `StableStorage`;
one that finds no older a term and no lower a commit index extends the other
(`BroughtExtends`), because both hold what is decided; and it may be written if it
keeps what is told (`MayBeWritten`).  Each step is then a write, a sync, a rewrite, a
crash or a stutter: a restart too may be a write, when the crash left an empty file
and `recover` starts it anew.

*The merge loop.*  Before the loop finds an entry that disagrees it has changed
nothing, and what it has passed is in the log; after it the log is the merged one, up
to the entry before the next (`LoopInv`).  A death between two records therefore leaves a
beginning of the old log or of the merged one.

*Sessions.*  `WaitInv`, which holds whatever the constants are, says that the chosen
log is what the latest leader's log begins with, that every node's log agrees with
it as far as the node has committed, that calls, requests and log entries are of
calls that were issued, and that who waits for an index is the one whose request is
there (`WaitersMatchLog`): appends only extend a leader's log, and all that
replaces a log forgets who waits.  `ReplayInv` adds that each store is what the
chosen log makes of an empty one (`At`), which a restart reproduces only while no
snapshot is taken: one leaves the sessions out (`MCClientSessions_lost_sessions`).
Two replicas that applied equally much are then equal, and what is to be said of a
store is proved by induction over the log: its sessions remember for each client
the last serial that took effect, and effects come in the order of serials
(`Sound`).  `OwnInv` adds that a reply in flight is what the log gave that very
request, or is of a request older than the last that its client has issued (`Own`):
a session answers with another request's result only if that one was issued later.
So the call issued last, which takes replies with its own serial only, returns with
its own, in a burst too; and where calls come one at a time the one in progress is
always the last.  Earlier calls of a burst may be answered wrongly
(`MCClientSessions_lower_serial`).  `SuddenDeposition` matters in one place only:
without it a node that replaces its log has nobody waiting, and so answers nobody
from it (`FollowKeepsOwn`); with it, it does (`MCClientSessions_false_answer`).

*Network.*  The invariant adds to `MessagesAreAccounted` that timer identifiers in
the heap are distinct and below the counter, so that a pushed timer is new; that
the numbers in inboxes and heap are below the next one of their sender; and that
the counters of sent, delivered and dropped messages balance with the heap.  For the
order (`OrderInv`) a timer is due at most its delay from now, so that one pushed
later with the same delay comes later, or has the higher identifier
(`TimersInOrder`); and what is in an inbox was sent before what is still a timer
(`InboxesFirst`).  A message that is there at once took no time, as no timer does,
so that it overtakes none with its delay.  The driver passes no timer because
nothing in the network cancels one: what `next_deadline` prunes away is nothing.
`IdealAfterReset` needs that no link has its own latency while nothing is broken.

*Races.*  Between races no task is left.  A receiving task that is done has a message
in its hand, and no other does; a live timer belongs to a race whose timer task sleeps,
and is its racer's only one.  What was returned, what is in hand and what is in the queue
make up, in this order, what was sent (`RacesInv`).  So whichever of the two tasks is
ready first, and whichever is cancelled, a message in hand is returned or put back.

*Members of a cluster.*  The invariant (`Inv`) says where each request leaves the
members when it gives way.  A member that no request is stopping is as it says
(`Fine`).  Who stops one has it for itself (`HasInHand`): it is cut off, its loop
cancelled and still ending (`Cut`).  Who tears down is the only one to stop any, and the
members that it is past have neither a loop nor an inbox (`Over`).  The state of the
cluster tells requests of different kinds apart: while it is up members are stopped one
by one, while it starts there is one request that waits for its leader and nobody stops
anything, and while it stops there is the teardown alone.  Any number of requests may
overlap, recoveries of a member that is being stopped included, as they are refused; two
that stop the same member break the invariant (`Cluster_second_restart`), and so
`ApartSpec` leaves them out.  A member whose last stop raised is believed to run and
has nothing left; that this is so, and that it is the only exception, is part of `Fine`.

*Histories.*  An order that explains a history gives each read a place, and what the
read returned is what the last write before that place wrote.  Without deletes a
key that was written once is never empty again, so that a write must exist that wrote what was
read, and it cannot have ended before a write began that itself had ended before the read
began: it would be written over.  These are the two rules.

*Traces.*  `Told` says of a trace that the terms it told last are the nodes' terms; that
a node whose term moved tells that first; that the term of the leader which the live view
names bounds all elections told and everything that leader told; and that whoever is
not a follower has the start of its election in the trace.

For recoveries, `Outages` is computed event by event (`OutagesNext`), so that each step
of the cluster needs to say only what its own events add.  `VotesInv`: who voted has
reached the candidate's term, every election in the trace was won with a majority that
reached its term, and every leader has its election there.  `LastInv`: once the node last
elected is lost it is down or does not lead, until the next election.  Nobody else
leads then: an earlier leader would need a majority that is still no further than its
own term, and it would meet the majority of the last election (`NobodyLeads`).  A node
kept in memory comes back as the leader that it was and a partition loses a leader
that goes on leading; hence `persistent` and `Unsplit`.  If an older candidate counts its
votes after a younger one, the node last elected is not the one that leads; hence
`WonInOrder`.

*Assumptions*, all evaluated by TLC in the runs: `ServerAssumption` (finite,
more than one server), `NilAssumption`, `NoOpAssumption`, `BatchAssumption`,
`CrashableAssumption`, `NetworkAssumption`; for the write-ahead log
`VoteAssumption`, `KeepAssumption`, `FaultAssumption`, `TornAssumption` and
`BoundAssumption` (the bounds on terms and orphans are naturals); for the sessions
`MembersAssumption` (a non-empty sequence without repetition), `BurstAssumption` and
`KindsAssumption` (the writes are puts, deletes and cas); `AbsentAssumption` (what a
missing key reads as is not a value), `RaceAssumption` and `NoneAssumption` (nothing
is not a message, a node or a term).  The theorems of `LabProofs` on members take a finite
set of nodes and at least one object per member (`MaxObjects \in Nat \ {0}`),
and `CrashesAreLeaderless` a finite set of nodes, in their statements: `Cluster` and
`Trace` need none of it otherwise.

*Only model-checked*: `VerdictIsRight`, that is what the search of `Linearizability`
computes (an induction over histories, which TLAPS has no means for); the properties of
`Jobs` and `Runner`; that `CatchUp` catches up, that races, loops and requests end, and
all other liveness, which is out of TLAPS's reach, as is `ENABLED`; and
`MatchIndexIsStored` with five servers or more and torn merges, where it is false.
What the recursive functions `Fold` and `Applied` compute is proved, one record or
entry after another: where an induction over the naturals is needed (`CountingUp`)
it goes through the least element of a set (`WFMin`).

## Not modelled

- The choice of election timeouts and their comparison with the clock: in `Raft` a
  timer may expire at any time, so nothing is said of how soon elections settle.
- The codec, wall clock, serializers, listings and configuration routes:
  conversions, or reads of state, without a state of their own.
- CLI, REPL, dashboard and web frontend: they display, and call operations
  modelled elsewhere.
- Campaigns, benchmarks, plots and workload rates: arithmetic and statistics over
  finished runs; so is the wording of reports.
- Transfer of snapshots between nodes: the code has none.
- The synchronisation of directories, on which renamed files depend: the code does
  none, and the model takes a rename of a synced file to be durable.
- Snapshots in the run `sessions`, where the sessions they lose break
  `ReplicasAgree` (`MCClientSessions_lost_sessions`).
- Clusters of one server in `Raft`: `become_leader` is then reached without a
  message, by a path of its own.

What would come next are proofs about background jobs (`Jobs`) and about a
scenario's faults (`Runner`).
