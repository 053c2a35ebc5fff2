----------------------------- MODULE AppendLoop -----------------------------
(***************************************************************************)
(* RaftLog.append_new_entries as the loop it is, one WAL record per step:  *)
(* truncate_from and append each journal before the loop goes on.  It is   *)
(* checked against the closed form the consensus model uses, and so are    *)
(* the states a crash in the middle can leave.                             *)
(***************************************************************************)
EXTENDS RaftLog

CONSTANTS MaxMergeTerm, MaxMergeLen  \* bounds on the terms and lengths enumerated

VARIABLES
    initial, prev, batch,  \* the log before the call, and the call
    merging,               \* the log now, and the WAL with it
    next                   \* the entry of the batch the loop is at

loopVars == <<initial, prev, batch, merging, next>>

\* Terms never decrease along a log: a leader appends in its own term.
Ordered(lg) == \A i, j \in 1..Len(lg) : i <= j => lg[i].term <= lg[j].term

Logs ==
    {lg \in UNION {[1..k -> [term : 1..MaxMergeTerm]] : k \in 0..MaxMergeLen} : Ordered(lg)}

\* handle_append_entries has found an entry at prev that the batch follows.
LoopInit ==
    /\ initial \in Logs
    /\ prev \in 0..Len(initial)
    /\ batch \in {b \in Logs : Ordered(SubSeq(initial, 1, prev) \o b)}
    /\ merging = initial
    /\ next = 1

Index == prev + next

\* Nothing at that index yet: append.
AppendMissing ==
    /\ next <= Len(batch)
    /\ Index > Len(merging)
    /\ merging' = Append(merging, batch[next])
    /\ next' = next + 1
    /\ UNCHANGED <<initial, prev, batch>>

\* Another term at that index: the log diverged here.  The append that goes
\* with it is the next step.
TruncateConflict_KeepsConflict ==
    /\ next <= Len(batch)
    /\ Index <= Len(merging)
    /\ TermAt(merging, Index) # batch[next].term
    /\ merging' = SubSeq(merging, 1, Index)
    /\ next' = next + 1
    /\ UNCHANGED <<initial, prev, batch>>
TruncateConflict ==
    /\ next <= Len(batch)
    /\ Index <= Len(merging)
    /\ TermAt(merging, Index) # batch[next].term
    /\ merging' = SubSeq(merging, 1, Index - 1)
    /\ UNCHANGED <<initial, prev, batch, next>>

\* The same entry: replaying what the log holds is a no-op.
SkipPresent ==
    /\ next <= Len(batch)
    /\ Index <= Len(merging)
    /\ TermAt(merging, Index) = batch[next].term
    /\ next' = next + 1
    /\ UNCHANGED <<initial, prev, batch, merging>>

Done == next > Len(batch) /\ UNCHANGED loopVars

LoopNext == AppendMissing \/ TruncateConflict \/ SkipPresent \/ Done

LoopSpec == LoopInit /\ [][LoopNext]_loopVars /\ WF_loopVars(LoopNext)

Merged == AppendNewEntries(initial, prev, batch)

\* The loop computes the closed form, whatever the log and the batch.
LoopMerges == <>[](next > Len(batch) /\ merging = Merged)

\* A crash anywhere in the loop leaves the log as it was or a prefix of the
\* merged log that still has every entry the merge keeps: nothing a reader of
\* the WAL could not have got from a shorter batch.
TornLogIsPrefix ==
    \/ merging = initial
    \/ \E written \in KeptLength(initial, prev, batch)..Len(Merged) :
          merging = SubSeq(Merged, 1, written)
=============================================================================
