------------------------------ MODULE RaftLog ------------------------------
(***************************************************************************)
(* The pure half of a node's log (raft/log.py) and of what a leader reads  *)
(* from it (raft/replication.py).                                          *)
(*                                                                         *)
(* A log is a sequence of entries, an entry a term and a command; its      *)
(* index is its place in the sequence, since RaftLog.append and restore    *)
(* both enforce contiguity from the sentinel at index 0.  The sentinel has *)
(* term 0 and is not an element of the sequence.  These are logs whose     *)
(* base is that sentinel: no entry has been compacted away.                *)
(***************************************************************************)
EXTENDS Naturals, Sequences, FiniteSetsExt

\* RaftLog.term_at, for an index the log can answer for.
TermAt(lg, i) == IF i = 0 THEN 0 ELSE lg[i].term

LastTerm(lg) == TermAt(lg, Len(lg))

\* Definitions named X_Something are X with a plausible bug, to show that the
\* properties notice; nothing uses them.

\* The AppendEntries consistency check: past the end there is no term to match.
HasEntry_AnyTerm(lg, i, term) == i \in 0..Len(lg)
HasEntry(lg, i, term) == i \in 0..Len(lg) /\ TermAt(lg, i) = term

\* Called on the voter's own log: a later last term wins, a tie goes to length.
CandidateIsUpToDate(lg, last_term, last_index) ==
    \/ last_term > LastTerm(lg)
    \/ last_term = LastTerm(lg) /\ last_index >= Len(lg)

\* The places in a batch that starts after prev where lg has nothing yet, or
\* an entry of another term: the iterations of the loop that change the log.
Disagreements(lg, prev, batch) ==
    {j \in 1..Len(batch) : ~ HasEntry(lg, prev + j, batch[j].term)}

\* How much of lg survives the merge: all of it when the batch holds nothing
\* new, else everything before the first disagreement (truncate_from).
KeptLength(lg, prev, batch) ==
    IF Disagreements(lg, prev, batch) = {}
    THEN Len(lg)
    ELSE prev + Min(Disagreements(lg, prev, batch)) - 1

\* The effect of the whole loop: once an entry is missing or conflicts, it and
\* every later entry of the batch are appended.
AppendNewEntries_AlwaysTruncates(lg, prev, batch) ==
    SubSeq(lg, 1, prev) \o batch
AppendNewEntries(lg, prev, batch) ==
    LET kept == KeptLength(lg, prev, batch) IN
    IF Disagreements(lg, prev, batch) = {}
    THEN lg
    ELSE SubSeq(lg, 1, kept) \o SubSeq(batch, kept - prev + 1, Len(batch))

\* The entries after prev, cut to max_batch.
Batch(lg, prev, max_batch) ==
    SubSeq(lg, prev + 1, Min({Len(lg), prev + max_batch}))
=============================================================================
