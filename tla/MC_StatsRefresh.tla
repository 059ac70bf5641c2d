--------------------------- MODULE MC_StatsRefresh ---------------------------
(***************************************************************************)
(* A small file and a large one: the small one alone is below the drift    *)
(* threshold, the large one is above it.                                   *)
(***************************************************************************)
EXTENDS StatsRefresh

MCFiles     == {1, 2}
MCEntriesOf == [f \in MCFiles |-> IF f = 1 THEN 1 ELSE 20]
==============================================================================
