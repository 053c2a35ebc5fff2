------------------------------ MODULE MCStorage ------------------------------
(***************************************************************************)
(* What a crash leaves, for TLC: the write-ahead log under power losses    *)
(* and, apart, under kills too; and the loop that merges a batch into the  *)
(* log, torn anywhere.  The first state says which of the three it is.     *)
(*                                                                         *)
(* What the WAL's files are worth is worked out once per step, and the     *)
(* refinement of StableStorage is stated over that.                        *)
(***************************************************************************)
EXTENDS WriteAheadLog, AppendLoop

VARIABLES
    part,     \* "power", "kills" or "merge"
    disk,     \* what the synced lines bring back
    pending   \* what each line after them does

\* The cfg gives the constants under power losses.
Killed == INSTANCE WriteAheadLog WITH Faults <- {"power", "kill"}

allVars == <<vars, part, disk, pending, loopVars>>

Written ==
    /\ disk = Recovered(file, synced, snapshots)
    /\ pending = Unsynced(file, synced, snapshots)

NoLoop ==
    /\ initial = <<>> /\ prev = 0 /\ batch = <<>> /\ merging = <<>> /\ next = 1

InitPower == part = "power" /\ Init /\ Written /\ NoLoop
InitKills == part = "kills" /\ Init /\ Written /\ NoLoop
InitMerge == part = "merge" /\ Init /\ Written /\ LoopInit

PowerStep ==
    /\ part = "power" /\ Next
    /\ disk' = Recovered(file', synced', snapshots')
    /\ pending' = Unsynced(file', synced', snapshots')
    /\ UNCHANGED <<part, loopVars>>

KillsStep ==
    /\ part = "kills" /\ Killed!Next
    /\ UNCHANGED <<part, disk, pending, loopVars>>

MergeStep ==
    /\ part = "merge" /\ LoopNext
    /\ UNCHANGED <<vars, part, disk, pending>>

PowerSpec == InitPower /\ [][PowerStep]_allVars

MCSpec ==
    /\ InitPower \/ InitKills \/ InitMerge
    /\ [][PowerStep \/ KillsStep \/ MergeStep]_allVars
    /\ WF_allVars(MergeStep)

-----------------------------------------------------------------------------
\* Only a crash that power causes is a crash of StableStorage's.
Storage ==
    INSTANCE StableStorage
        WITH Vote <- Voter, told <- IF part = "power" THEN told ELSE disk

\* The log and the snapshots implement stable storage: no crash takes back
\* what was synced, no record and no rewrite takes back what was told, and
\* what a message tells is what a crash would find.
ImplementsStableStorage == Storage!Spec

\* Whatever the crashes, what others were told is still on disk.
ToldSurvives == Storage!ToldSurvives
=============================================================================
