---------------------------- MODULE MC_TableScan ----------------------------
(***************************************************************************)
(* Files of up to four blocks, one of them with two rows, and a window of  *)
(* two reads: slots are reused, targets have gaps, scans are restarted.    *)
(***************************************************************************)
EXTENDS TableScan

MCLayouts == {<<2, 3>>, <<1, 2, 3, 4>>}
==============================================================================
