----------------------------- MODULE MergingScan -----------------------------
(***************************************************************************)
(* The merge below the top-level iterator: BitLSMMergingIterator over the  *)
(* memtables, the level-0 tables and one BitLSMLevelIterator per deeper    *)
(* level, which opens the level's tables one after the other.              *)
(*                                                                         *)
(* Internal keys are distinct numbers in their order.  A child is a        *)
(* sequence of tables, each the sequence of rows its leaf iterator shows   *)
(* (an OrderedScan); memtables and level-0 tables are children of one      *)
(* table.  Opening a table, reading its index and reading a block may      *)
(* fail, for tables of files.  The table cache's handles are counted.      *)
(***************************************************************************)
EXTENDS Integers, FiniteSets, Sequences, SequencesExt, FiniteSetsExt

CONSTANTS
  Trees,        \* SuperVersions considered: kinds and tables of the children
  MaxSeeks      \* calls of SeekToFirst (bound)

ASSUME MergeAssumption ==
  /\ MaxSeeks \in Nat
  /\ \A t \in Trees : \A c \in DOMAIN t :
       t[c].kind \in {"mem", "l0", "level"} /\ t[c].tables \in Seq(Seq(Nat))

VARIABLES
  tree,         \* child -> its kind ("mem", "l0" or "level") and tables
  phase,        \* "new", "open" (constructed) or "destroyed"
  children,     \* ch_iters_
  file,         \* child -> cur_file_idx_ (0 before the first SeekToFirst)
  pos,          \* child -> rows of that table already passed, plus one
  chstatus,     \* child -> its status
  heap,         \* heap_: the children on it
  valid,
  status,
  held,         \* level child -> the table its cur_table_handle_ is for, 0 if none
  refs,         \* <<child, table>> -> references in the table cache
  seeks,
  out           \* rows shown since SeekToFirst (history)

vars == <<tree, phase, children, file, pos, chstatus, heap, valid, status, held, refs,
          seeks, out>>

AllChildren == DOMAIN tree
Tables(c) == tree[c].tables
AllTables == UNION {{c} \X DOMAIN Tables(c) : c \in AllChildren}
InOrder(S) ==
  [i \in 1 .. Cardinality(S) |-> CHOOSE x \in S : Cardinality({y \in S : y < x}) = i - 1]
AllRows == UNION {UNION {ToSet(t) : t \in ToSet(Tables(c))} : c \in AllChildren}

Init ==
  /\ tree \in Trees
  /\ phase = "new"
  /\ children = {}
  /\ file = [c \in AllChildren |-> 0]
  /\ pos = [c \in AllChildren |-> 0]
  /\ chstatus = [c \in AllChildren |-> "OK"]
  /\ heap = {}
  /\ valid = FALSE
  /\ status = "OK"
  /\ held = [c \in AllChildren |-> 0]
  /\ refs = [t \in AllTables |-> 0]
  /\ seeks = 0
  /\ out = <<>>

\* The constructor: FindTable of every level-0 table, whose failure is recorded; the
\* index of an opened one may fail to load, which is the child's status.
Construct ==
  /\ phase = "new" /\ phase' = "open"
  /\ \E bad \in SUBSET {c \in AllChildren : tree[c].kind = "l0"} :
       /\ children' = AllChildren \ bad
       /\ status' = IF bad = {} THEN "OK" ELSE "error"
       /\ refs' = [t \in AllTables |-> IF tree[t[1]].kind = "l0" /\ t[1] \notin bad THEN 1 ELSE 0]
       /\ \E unread \in SUBSET {c \in AllChildren \ bad : tree[c].kind = "l0"} :
            chstatus' = [c \in AllChildren |-> IF c \in unread THEN "error" ELSE "OK"]
  /\ UNCHANGED <<tree, file, pos, heap, valid, held, seeks, out>>

------------------------------------------------------------------------------
(* A child's SeekToFirst and Next.  An outcome is where the child stands   *)
(* afterwards: its table, its position in it, its status and, for a level, *)
(* the table whose handle it holds.                                        *)

At(c, f, p, s, h) ==
  [file |-> f, pos |-> p, status |-> s, held |-> IF tree[c].kind = "level" THEN h ELSE 0]

CanFail(c) == tree[c].kind # "mem"

\* Tables from f on that show no row before one that does.
SkippedFrom(c, f) == {g \in f .. Len(Tables(c)) : \A h \in f .. g : Tables(c)[h] = <<>>}

\* Tables are loaded from f on until one shows a row; the first that cannot be opened
\* (no handle then) or cannot show its first row ends the child.  Past its last table
\* the child is at its end and still holds that table.
LoadFrom(c, f) ==
  LET first == f + Cardinality(SkippedFrom(c, f))
      last  == IF first <= Len(Tables(c)) THEN first ELSE Len(Tables(c))
  IN  {At(c, first, 1, "OK", last)}
        \cup UNION {{At(c, g, 1, "error", 0), At(c, g, 1, "error", g)} :
                       g \in {g \in f .. last : CanFail(c)}}

\* A failed child does not restart.
SeekChild(c) ==
  IF chstatus[c] = "OK" THEN LoadFrom(c, 1) ELSE {At(c, file[c], pos[c], "error", held[c])}

\* The next row of the table, which may need a block that cannot be read; after the
\* last row the next tables.
NextChild(c) ==
  LET more == pos[c] < Len(Tables(c)[file[c]])
  IN  (IF more THEN {At(c, file[c], pos[c] + 1, "OK", held[c])} ELSE LoadFrom(c, file[c] + 1))
        \cup {At(c, file[c], pos[c], "error", held[c]) : x \in {x \in {1} : CanFail(c)}}

ChildValid(c, o) == o.status = "OK" /\ o.file <= Len(Tables(c))
RowOf(c, o) == Tables(c)[o.file][o.pos]

One(b) == IF b THEN 1 ELSE 0

\* Mutant: LoadFile forgets to release the handle it replaces.
Reload_Leaks(t, h) == refs[t] + One(t[2] = h /\ t[2] # held[t[1]])

\* Mutant: the new handle is given back as soon as the table iterator is built.
Reload_Unpins(t, h) == refs[t] - One(t[2] = held[t[1]])

\* References to table t once its child holds table h: LoadFile releases the handle it
\* had before it takes another.
Reload(t, h) == refs[t] - One(t[2] = held[t[1]]) + One(t[2] = h)

------------------------------------------------------------------------------
(* BitLSMMergingIterator.                                                  *)

\* The children in the order they were added.
Order(c, d) == tree[c].order < tree[d].order

\* SeekToFirst asks every child in turn and stops at the first that failed.
SeekToFirst ==
  /\ phase = "open" /\ seeks < MaxSeeks
  /\ seeks' = seeks + 1
  /\ \/ /\ status # "OK"
        /\ heap' = {} /\ valid' = FALSE
        /\ UNCHANGED <<file, pos, chstatus, status, held, refs, out>>
     \/ /\ status = "OK"
        /\ \E o \in [children -> UNION {SeekChild(c) : c \in children}] :
             LET failing == {c \in children : o[c].status # "OK"}
                 asked   == {c \in children : \A d \in failing : d = c \/ Order(c, d)}
             IN  /\ \A c \in children : o[c] \in SeekChild(c)
                 /\ file' = [c \in AllChildren |-> IF c \in asked THEN o[c].file ELSE file[c]]
                 /\ pos' = [c \in AllChildren |-> IF c \in asked THEN o[c].pos ELSE pos[c]]
                 /\ held' = [c \in AllChildren |-> IF c \in asked THEN o[c].held ELSE held[c]]
                 /\ chstatus' = [c \in AllChildren |->
                                   IF c \in asked THEN o[c].status ELSE chstatus[c]]
                 /\ refs' = [t \in AllTables |-> IF t[1] \in asked THEN Reload(t, o[t[1]].held)
                                                                   ELSE refs[t]]
                 /\ heap' = IF failing = {} THEN {c \in children : ChildValid(c, o[c])} ELSE {}
                 /\ status' = IF failing = {} THEN "OK" ELSE "error"
                 /\ valid' = (heap' # {})
                 /\ out' = IF heap' = {} THEN <<>>
                           ELSE <<Min({RowOf(c, o[c]) : c \in heap'})>>
  /\ UNCHANGED <<tree, phase, children>>

\* heap_.top(): the child at the least internal key.
RowAt(c) == Tables(c)[file[c]][pos[c]]
Top == CHOOSE c \in heap : \A d \in heap : RowAt(c) <= RowAt(d)

\* Mutant: the child that failed leaves the heap like one at its end.
HeapAfter_DropsFailed(o) == IF ChildValid(Top, o) THEN heap ELSE heap \ {Top}

\* The top child stays on the heap while it is valid; its failure empties the heap.
HeapAfter(o) ==
  IF o.status # "OK" THEN {} ELSE IF ChildValid(Top, o) THEN heap ELSE heap \ {Top}

Next_ ==
  /\ phase = "open" /\ valid
  /\ \E o \in NextChild(Top) :
       /\ file' = [file EXCEPT ![Top] = o.file]
       /\ pos' = [pos EXCEPT ![Top] = o.pos]
       /\ held' = [held EXCEPT ![Top] = o.held]
       /\ chstatus' = [chstatus EXCEPT ![Top] = o.status]
       /\ refs' = [t \in AllTables |-> IF t[1] = Top THEN Reload(t, o.held) ELSE refs[t]]
       /\ status' = o.status
       /\ heap' = HeapAfter(o)
       /\ valid' = (heap' # {})
       /\ out' = IF heap' = {} THEN out
                 ELSE Append(out, Min({IF c = Top THEN RowOf(c, o) ELSE RowAt(c) : c \in heap'}))
  /\ UNCHANGED <<tree, phase, children, seeks>>

\* The destructors release the handle each level holds and those of l0_handles_.
Released(t) ==
  One(IF tree[t[1]].kind = "l0" THEN t[1] \in children ELSE held[t[1]] = t[2])

Destroy ==
  /\ phase = "open" /\ phase' = "destroyed"
  /\ refs' = [t \in AllTables |-> refs[t] - Released(t)]
  /\ UNCHANGED <<tree, children, file, pos, chstatus, heap, valid, status, held, seeks, out>>

Gone == phase = "destroyed" /\ UNCHANGED vars

Next == Construct \/ SeekToFirst \/ Next_ \/ Destroy \/ Gone

Spec == Init /\ [][Next]_vars

------------------------------------------------------------------------------
(* Properties.                                                             *)

\* The merge is an ordered scan of all the rows of its children: whatever child fails,
\* and wherever, the rows shown are the first ones in key order, and the scan ends
\* early only with a status ("never produce a partial merge over the survivors").
ShowsAllRows ==
  INSTANCE OrderedScan WITH
    rows   <- InOrder(AllRows),
    out    <- out,
    state  <- CASE valid -> "valid"
                [] ~valid /\ seeks = 0 /\ status = "OK" -> "new"
                [] OTHER -> "end",
    failed <- status # "OK"
IsOrderedScan == ShowsAllRows!Spec

\* A table an iterator reads from is pinned in the table cache while it does.
ReadTablesPinned ==
  phase = "open" => \A c \in heap : CanFail(c) => refs[<<c, file[c]>>] > 0

\* No handle outlives the iterator, on any path through failures and restarts.
NoHandleLeaked == phase = "destroyed" => \A t \in AllTables : refs[t] = 0
==============================================================================
