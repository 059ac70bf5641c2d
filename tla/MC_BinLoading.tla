---------------------------- MODULE MC_BinLoading ----------------------------
(***************************************************************************)
(* An attribute of two bins and one of a single bin over three rows, with  *)
(* or without tombstones.  Bins 0 and 2 end before the next padded start.  *)
(* The queries select single bins, a range, the same bin twice, and runs   *)
(* that touch or stay apart depending on what is cached.                   *)
(***************************************************************************)
EXTENDS BinLoading

Sel(a, b) == [first |-> a, last |-> b]
NoBins == Sel(1, 0)

\* Padded starts are multiples of two.
MCFile(deleted) ==
  [tombstone |-> 3,
   start |-> [b \in 0 .. 3 |-> 2 * b],
   size |-> [b \in 0 .. 3 |-> IF b = 1 THEN 2 ELSE 1],
   rows |-> [b \in 0 .. 3 |-> CASE b = 0 -> {0, 2} [] b = 1 -> {1} [] b = 2 -> {0, 1}
                               [] b = 3 -> deleted],
   all |-> 0 .. 2]

MCFiles == {MCFile({}), MCFile({2})}

MCQueries ==
  { <<>>,
    << <<NoBins>> >>,
    << <<Sel(0, 1)>> >>,
    << <<Sel(0, 0)>>, <<Sel(2, 2)>> >>,
    << <<Sel(0, 0), Sel(2, 2)>> >>,
    << <<Sel(0, 0), NoBins>>, <<Sel(0, 0)>> >> }
==============================================================================
