--------------------------------- MODULE Jobs ---------------------------------
(***************************************************************************)
(* Background jobs (api/jobs.py), the work they do (the campaigns of       *)
(* api/server.py) and what a connected socket hears of them (api/state.py, *)
(* the stream of api/server.py).                                           *)
(*                                                                         *)
(* A job's worker is a thread and takes its steps between any two steps of *)
(* the event loop; what it has to say reaches the loop as a callback.      *)
(***************************************************************************)
EXTENDS Naturals, Sequences, FiniteSetsExt

CONSTANTS
    Subscriber,   \* the sockets
    MAX_JOBS,     \* how many finished jobs to keep
    QUEUE_LIMIT,  \* messages a socket may be behind
    Total,        \* trials in a job, at least one
    MaxStarted,   \* bound on the jobs started
    MaxTime,      \* bound on the clock
    MaxOthers     \* bound on the broadcasts that are not about jobs

VARIABLES
    jobs,        \* the jobs started, in that order, dropped ones included
    kept,        \* the registry: the jobs not dropped
    worker,      \* what a job's thread is about to do
    callbacks,   \* the jobs whose change the loop has yet to report
    queue,       \* for each socket, the messages it has not sent
    subscribed,  \* the sockets that broadcast still writes to
    connected,   \* the sockets that are open
    list,        \* the list of jobs that each client asked for, and what overtook it
    view,        \* what the client at the other end knows of each job
    unsure,      \* history: the jobs of which it knows what was so before, and was
                 \* told nothing since
    now,         \* the clock that created_at is read from
    others       \* broadcasts that were not about jobs

client == <<list, view, unsure>>
stream == <<queue, subscribed, connected, client, others>>
vars == <<jobs, kept, worker, callbacks, stream, now>>

Started == DOMAIN jobs
Statuses == {"running", "succeeded", "failed", "cancelled"}
Ids == 1..MaxStarted
NoList == [at |-> "none"]

Init ==
    /\ jobs = <<>> /\ worker = <<>> /\ kept = {}
    /\ callbacks = <<>>
    /\ queue = [s \in Subscriber |-> <<>>]
    /\ subscribed = {} /\ connected = {}
    /\ list = [s \in Subscriber |-> NoList]
    /\ view = [s \in Subscriber |-> [j \in Ids |-> "unknown"]]
    /\ unsure = [s \in Subscriber |-> {}]
    /\ now = 0 /\ others = 0

\* With no socket at all the callbacks come to nothing.
Notify(j) == callbacks' = IF Subscriber = {} THEN <<>> ELSE Append(callbacks, j)

-----------------------------------------------------------------------------
(***************************************************************************)
(* The registry.                                                           *)
(***************************************************************************)
\* all(): sorted by the time of creation, the latest first; the sort is stable
\* and begins from the order of starting.
ComesBefore(j, k, js) ==
    \/ js[j].created_at > js[k].created_at
    \/ js[j].created_at = js[k].created_at /\ j < k

\* The finished jobs that stay, of those in ks.  (Definitions named X_Something
\* are X with a plausible bug, to show that the properties notice; nothing uses
\* them.)
Pruned_TheLatest(ks, js) ==
    LET finished == {j \in ks : js[j].status # "running"} IN
    {j \in finished : Cardinality({k \in finished : ComesBefore(j, k, js)}) >= MAX_JOBS}
Pruned(ks, js) ==
    LET finished == {j \in ks : js[j].status # "running"} IN
    {j \in finished : Cardinality({k \in finished : ComesBefore(k, j, js)}) >= MAX_JOBS}

NewJob ==
    [status |-> "running", completed |-> 0, cancel |-> FALSE, asked_at |-> 0,
     created_at |-> now, finished |-> FALSE]

\* History: asked_at is what was completed when the job was asked to stop.
Asked(job) == [job EXCEPT !.cancel = TRUE, !.asked_at = job.completed]

Start ==
    /\ Len(jobs) < MaxStarted
    /\ LET j == Len(jobs) + 1 IN
       /\ jobs' = Append(jobs, NewJob)
       /\ kept' = (kept \cup {j}) \ Pruned(kept \cup {j}, jobs')
       /\ worker' = Append(worker, "starting")
       /\ Notify(j)
    /\ UNCHANGED <<stream, now>>

Cancel(j) ==
    /\ j \in kept /\ ~ jobs[j].cancel
    /\ jobs' = [jobs EXCEPT ![j] = Asked(@)]
    /\ UNCHANGED <<kept, worker, callbacks, stream, now>>

\* Asking every running job to stop, at the end of the process.
Shutdown ==
    /\ \E j \in kept : jobs[j].status = "running" /\ ~ jobs[j].cancel
    /\ jobs' = [j \in Started |->
            IF j \in kept /\ jobs[j].status = "running" /\ ~ jobs[j].cancel
            THEN Asked(jobs[j]) ELSE jobs[j]]
    /\ UNCHANGED <<kept, worker, callbacks, stream, now>>

Tick ==
    /\ now < MaxTime
    /\ now' = now + 1
    /\ UNCHANGED <<jobs, kept, worker, callbacks, stream>>

-----------------------------------------------------------------------------
(***************************************************************************)
(* The worker's thread: progress(0), then trial after trial, each followed *)
(* by a line of the log, which notifies, and by a progress, that is:       *)
(* record, notify, and look for a cancellation.  After the last of them it *)
(* still closes: plots, a comparison.                                      *)
(***************************************************************************)
WorkerGoes(j, from, to) == worker[j] = from /\ worker' = [worker EXCEPT ![j] = to]

Begin(j) ==
    /\ WorkerGoes(j, "starting", "recorded")
    /\ UNCHANGED <<jobs, kept, callbacks, stream, now>>

\* A trial ends and is logged, or fails with an exception.
Trial(j) ==
    /\ WorkerGoes(j, "trial", "logged")
    /\ Notify(j)
    /\ UNCHANGED <<jobs, kept, stream, now>>

TrialFails(j) ==
    /\ WorkerGoes(j, "trial", "failed")
    /\ UNCHANGED <<jobs, kept, callbacks, stream, now>>

Record(j) ==
    /\ WorkerGoes(j, "logged", "recorded")
    /\ jobs' = [jobs EXCEPT ![j].completed = @ + 1]
    /\ UNCHANGED <<kept, callbacks, stream, now>>

ReportProgress(j) ==
    /\ WorkerGoes(j, "recorded", "notified")
    /\ Notify(j)
    /\ UNCHANGED <<jobs, kept, stream, now>>

RaiseIfCancelled_WhileTrialsAreLeft(j) ==
    /\ WorkerGoes(j, "notified",
            IF jobs[j].completed = Total THEN "closing"
            ELSE IF jobs[j].cancel THEN "cancelled" ELSE "trial")
    /\ UNCHANGED <<jobs, kept, callbacks, stream, now>>
RaiseIfCancelled(j) ==
    /\ WorkerGoes(j, "notified",
            IF jobs[j].cancel THEN "cancelled"
            ELSE IF jobs[j].completed < Total THEN "trial" ELSE "closing")
    /\ UNCHANGED <<jobs, kept, callbacks, stream, now>>

Close(j) ==
    /\ WorkerGoes(j, "closing", "succeeded") \/ WorkerGoes(j, "closing", "failed")
    /\ UNCHANGED <<jobs, kept, callbacks, stream, now>>

\* The end of JobRegistry._run, on the loop: a failure is logged first, with a
\* notification of its own.
Finish_Silently(j) ==
    /\ worker[j] \in Statuses /\ ~ jobs[j].finished
    /\ jobs' = [jobs EXCEPT ![j].status = worker[j], ![j].finished = TRUE]
    /\ callbacks' = callbacks \o (IF worker[j] = "failed" THEN <<j>> ELSE <<>>)
    /\ UNCHANGED <<kept, worker, stream, now>>
Finish(j) ==
    /\ worker[j] \in Statuses /\ ~ jobs[j].finished
    /\ jobs' = [jobs EXCEPT ![j].status = worker[j], ![j].finished = TRUE]
    /\ callbacks' = IF Subscriber = {} THEN <<>>
                    ELSE callbacks \o (IF worker[j] = "failed" THEN <<j, j>> ELSE <<j>>)
    /\ UNCHANGED <<kept, worker, stream, now>>

-----------------------------------------------------------------------------
(***************************************************************************)
(* Broadcasting.                                                           *)
(***************************************************************************)
Full(s) == Len(queue[s]) = QUEUE_LIMIT

Broadcast(message) ==
    /\ queue' = [s \in Subscriber |->
            IF s \in subscribed /\ ~ Full(s) THEN Append(queue[s], message) ELSE queue[s]]
    /\ subscribed' = {s \in subscribed : ~ Full(s)}

\* What a message says of a job is read when the callback runs.
Shown(j) ==
    IF jobs[j].cancel /\ jobs[j].status = "running" THEN "cancelling" ELSE jobs[j].status

OnJobChange ==
    /\ callbacks # <<>>
    /\ Broadcast([job |-> Head(callbacks), says |-> Shown(Head(callbacks))])
    /\ callbacks' = Tail(callbacks)
    /\ UNCHANGED <<jobs, kept, worker, connected, client, now, others>>

\* A status, a batch of trace events.
OtherBroadcast ==
    /\ others < MaxOthers
    /\ others' = others + 1
    /\ Broadcast([job |-> 0])
    /\ UNCHANGED <<jobs, kept, worker, callbacks, connected, client, now>>

(***************************************************************************)
(* A client: the socket, and the list of jobs that it asks for whenever    *)
(* the socket opens.  Each replaces what the client knows by what it says, *)
(* and the list comes by a way of its own.                                 *)
(***************************************************************************)
Connect(s) ==
    /\ s \notin connected /\ list[s] = NoList
    /\ connected' = connected \cup {s} /\ subscribed' = subscribed \cup {s}
    /\ queue' = [queue EXCEPT ![s] = <<>>]
    /\ list' = [list EXCEPT ![s] = [at |-> "asked"]]
    /\ unsure' = [unsure EXCEPT ![s] = Ids]
    /\ UNCHANGED <<jobs, kept, worker, callbacks, view, now, others>>

ListJobs(s) ==
    /\ list[s].at = "asked"
    /\ list' = [list EXCEPT ![s] =
            [at |-> "read", overtaken |-> {},
             says |-> [j \in Ids |-> IF j \in kept THEN Shown(j) ELSE "unknown"]]]
    /\ UNCHANGED <<jobs, kept, worker, callbacks, queue, subscribed, connected, view, unsure,
                   now, others>>

ListArrives(s) ==
    /\ list[s].at = "read"
    /\ view' = [view EXCEPT ![s] = list[s].says]
    /\ unsure' = [unsure EXCEPT ![s] = list[s].overtaken]
    /\ list' = [list EXCEPT ![s] = NoList]
    /\ UNCHANGED <<jobs, kept, worker, callbacks, queue, subscribed, connected, now, others>>

ListFails(s) ==
    /\ list[s] # NoList
    /\ list' = [list EXCEPT ![s] = NoList]
    /\ UNCHANGED <<jobs, kept, worker, callbacks, queue, subscribed, connected, view, unsure,
                   now, others>>

Disconnect(s) ==
    /\ s \in connected
    /\ connected' = connected \ {s} /\ subscribed' = subscribed \ {s}
    /\ UNCHANGED <<jobs, kept, worker, callbacks, queue, client, now, others>>

Send(s) ==
    /\ s \in connected /\ queue[s] # <<>>
    /\ queue' = [queue EXCEPT ![s] = Tail(@)]
    /\ LET message == Head(queue[s]) IN
       IF message.job = 0 THEN UNCHANGED client
       ELSE /\ view' = [view EXCEPT ![s][message.job] = message.says]
            /\ unsure' = [unsure EXCEPT ![s] = @ \ {message.job}]
            /\ list' = IF list[s].at # "read" THEN list
                       ELSE [list EXCEPT ![s].overtaken = @ \cup {message.job}]
    /\ UNCHANGED <<jobs, kept, worker, callbacks, subscribed, connected, now, others>>

-----------------------------------------------------------------------------
WorkerStep(j) ==
    \/ Begin(j) \/ Trial(j) \/ TrialFails(j) \/ Record(j) \/ ReportProgress(j)
    \/ RaiseIfCancelled(j) \/ Close(j)

Next ==
    \/ Start \/ Shutdown \/ Tick \/ OnJobChange \/ OtherBroadcast
    \/ \E j \in Started : Cancel(j) \/ WorkerStep(j) \/ Finish(j)
    \/ \E s \in Subscriber :
        Connect(s) \/ ListJobs(s) \/ ListArrives(s) \/ ListFails(s) \/ Disconnect(s) \/ Send(s)

\* Threads run, the loop runs its callbacks and answers requests, and sockets take
\* what is sent.
Fairness ==
    /\ \A j \in 1..MaxStarted : WF_vars(j \in Started /\ (WorkerStep(j) \/ Finish(j)))
    /\ WF_vars(OnJobChange)
    /\ \A s \in Subscriber : WF_vars(Send(s)) /\ WF_vars(ListJobs(s)) /\ WF_vars(ListArrives(s))

Spec == Init /\ [][Next]_vars /\ Fairness

-----------------------------------------------------------------------------
(***************************************************************************)
(* What the registry and the stream promise.                               *)
(***************************************************************************)
Said(j) == \E i \in DOMAIN callbacks : callbacks[i] = j
Queued(s, j) == \E i \in DOMAIN queue[s] : queue[s][i].job = j

\* Whoever is still subscribed, has been sent all there is, and waits for no list,
\* knows how each finished job ended: the last word on a job is never missing.  It
\* is taken back only by a list that a message about the job overtook, and it may
\* not come when the list fails.
EndIsHeard ==
    \A s \in subscribed, j \in Started :
        jobs[j].finished /\ ~ Said(j) /\ ~ Queued(s, j) /\ list[s] = NoList /\ j \in kept
            => view[s][j] = jobs[j].status \/ j \in unsure[s]

\* A socket is let go only when it is QUEUE_LIMIT messages behind.
OnlySlowAreDropped ==
    \A s \in subscribed : s \in connected' /\ s \notin subscribed' => Full(s)

\* So whoever keeps up hears how each job ends.
EndIsHeardUnlessSlow == [][EndIsHeard' /\ OnlySlowAreDropped]_vars

\* The bound on finished jobs is met at the expense of the oldest of them, of any
\* of those as old as it, and never of one that runs.
PruneKeepsRecent ==
    [][\A j \in kept \ kept' :
          LET finished == {k \in kept' : jobs'[k].status # "running"} IN
          /\ jobs[j].status # "running"
          /\ Cardinality(finished) = MAX_JOBS
          /\ \A k \in finished : jobs[k].created_at >= jobs[j].created_at]_vars

\* "Old ones are dropped oldest-first": of the finished ones, in the order in
\* which they were started.
OldestFirst ==
    [][\A j \in kept \ kept', k \in kept' : jobs'[k].status # "running" => j < k]_vars

\* A job that was asked to stop has finished at most the trial it was in, since
\* campaigns are "cancelled *between* trials", and it ends as a success only if
\* all its trials were recorded when it was asked.
CancelIsHeeded ==
    \A j \in Started :
        jobs[j].finished /\ jobs[j].cancel =>
            /\ jobs[j].completed <= jobs[j].asked_at + 1
            /\ jobs[j].status = "succeeded" => jobs[j].asked_at = Total

\* A list does not take back what a message has said since it was read, when it
\* replaces what the client knows.
ListTakesNothingBack ==
    [][\A s \in Subscriber : list[s].at = "read" /\ list'[s] = NoList =>
          \A j \in list[s].overtaken : view'[s][j] = view[s][j]]_vars

\* A slow client "loses tail events, not its view": as long as its socket stays
\* open it comes to know how a job ended.
ViewCatchesUp ==
    \A s \in Subscriber, j \in 1..MaxStarted :
        [](s \in connected /\ j \in Started
            => <>(s \notin connected \/ j \notin kept \/ view[s][j] = jobs[j].status))
=============================================================================
