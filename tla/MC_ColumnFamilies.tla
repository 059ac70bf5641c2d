-------------------------- MODULE MC_ColumnFamilies --------------------------
(***************************************************************************)
(* Two threads, two names: enough for a name to be dropped, created again  *)
(* and dropped through the old handle while its first drop is under way.   *)
(***************************************************************************)
EXTENDS ColumnFamilies
==============================================================================
