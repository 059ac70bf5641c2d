--------------------------- MODULE MC_MergingScan ---------------------------
(***************************************************************************)
(* A memtable, two level-0 tables and two levels, one with an empty table  *)
(* between two others, with interleaved keys; and a tree where a level     *)
(* shows no row at all.                                                    *)
(***************************************************************************)
EXTENDS MergingScan

Child(o, k, t) == [order |-> o, kind |-> k, tables |-> t]

FullTree  == ("m" :> Child(1, "mem", << <<2, 6>> >>)) @@ ("a" :> Child(2, "l0", << <<1>> >>))
               @@ ("b" :> Child(3, "l0", << <<4, 5>> >>))
               @@ ("x" :> Child(4, "level", << <<3>>, <<>>, <<7, 8>> >>))
EmptyTree == ("m" :> Child(1, "mem", << <<>> >>)) @@ ("a" :> Child(2, "l0", << <<1, 4>> >>))
               @@ ("x" :> Child(3, "level", << <<>>, <<>> >>))
               @@ ("y" :> Child(4, "level", << <<2>>, <<3>> >>))

MCTrees == {FullTree, EmptyTree}
==============================================================================
