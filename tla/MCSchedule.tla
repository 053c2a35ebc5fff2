----------------------------- MODULE MCSchedule -----------------------------
(***************************************************************************)
(* Long histories for TLC: the server that stands in each term is fixed    *)
(* and clients write in the first term only; everything else (what is lost *)
(* or reordered, who crashes, who hears whom) stays free.                  *)
(***************************************************************************)
EXTENDS MCRaft

CONSTANTS n1, n2, n3

VARIABLE schedule

\* Only the server named for a term campaigns in it, each in turn.
Stands(candidate) ==
    \A n \in Server : role'[n] = "candidate" => candidate[current_term'[n]] = n

\* Clients write before anyone stands in the second term.
WritesInFirstTerm ==
    \A n \in Server :
        role[n] = "leader" /\ role'[n] = "leader" /\ log'[n] # log[n] =>
            \A p \in Server : current_term[p] <= 1

\* No WAL is brought up to date for a client that only asks: the other runs
\* have those steps.
NobodyAsks == UNCHANGED <<stateVars, roleVars, network, elected>> => UNCHANGED wal

Scheduled(candidate) == Stands(candidate) /\ WritesInFirstTerm /\ NobodyAsks

\* Two servers alternate, and the first leads again when the second has an
\* entry of a term in between.
Alternating == Next /\ Scheduled(<<n1, n2, n1>>)

\* The first leader keeps an uncommitted tail, the third outlives the second.
\* The first may crash, clients write, and logs are longer.
Longer ==
    INSTANCE Raft WITH Command <- {"a"}, MaxBatch <- 3, MaxLog <- 3,
                       Crashable <- {n1}, MaxInFlight <- 1
Outliving == Longer!Next /\ Scheduled(<<n1, n2, n3>>)

Figure8Next == schedule = "figure8" /\ Alternating /\ UNCHANGED schedule
ThreeLeadersNext == schedule = "three_leaders" /\ Outliving /\ UNCHANGED schedule

Figure8 == Init /\ schedule = "figure8" /\ [][Figure8Next]_<<vars, schedule>>

Schedules ==
    /\ Init /\ schedule \in {"figure8", "three_leaders"}
    /\ [][Figure8Next \/ ThreeLeadersNext]_<<vars, schedule>>

\* For five servers: the second leader is elected by those that never heard the
\* first.
Following == Next /\ Scheduled(<<n1, n3>>)
TwoLeaders ==
    /\ Init /\ schedule = "two_leaders"
    /\ [][Following /\ UNCHANGED schedule]_<<vars, schedule>>

NoHistoryHere == <<NoHistory, schedule>>

-----------------------------------------------------------------------------
\* No two servers commit different entries at an index, though the first leader
\* keeps a tail of its own for two terms.
ThreeLeadersAgree == schedule = "three_leaders" => StateMachineSafety

\* Whatever a crash tears (the first leader's, when it follows the next two),
\* recovery reads it; what was acknowledged is stored, among three servers, and
\* what was committed is not taken back.
CrashesUndoNothing ==
    /\ [](schedule = "three_leaders" => MatchIndexIsStored)
    /\ [][schedule = "three_leaders" => WalReadable /\ KeepsCommitted]_vars
=============================================================================
