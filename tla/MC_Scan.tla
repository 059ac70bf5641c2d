------------------------------- MODULE MC_Scan -------------------------------
(***************************************************************************)
(* Small instances of BitLSMIterator for TLC.  A row either matches the    *)
(* query (hit), only falls into a bin the query selects (binhit), or       *)
(* neither (miss).                                                         *)
(***************************************************************************)
EXTENDS BitLSMIterator

CONSTANTS hit, binhit, miss

OnlyHits   == {hit}
HitMiss    == {hit, miss}
HitBinhit  == {hit, binhit}
WholeRange == {Keys}
==============================================================================
