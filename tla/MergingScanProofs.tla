-------------------------- MODULE MergingScanProofs --------------------------
(***************************************************************************)
(* Proofs about the table cache handles of the merge, for any tree of      *)
(* memtables, level-0 tables and levels, and any failures and restarts.    *)
(***************************************************************************)
EXTENDS MergingScan, FiniteSetTheorems, TLAPS

Typed ==
  /\ tree \in Trees
  /\ phase \in {"new", "open", "destroyed"}
  /\ children \subseteq AllChildren
  /\ heap \subseteq children
  /\ file \in [AllChildren -> Nat]
  /\ held \in [AllChildren -> Nat]
  /\ refs \in [AllTables -> Int]
  /\ \A c \in AllChildren : tree[c].kind # "level" => held[c] = 0

\* The references taken are those the destructors give back, no more and no fewer.
Counted(t) == refs[t] = Released(t)

\* A child on the heap is at one of its tables; a level holds the handle of that one.
Placed(c) ==
  /\ file[c] \in DOMAIN Tables(c)
  /\ tree[c].kind = "level" => held[c] = file[c]

\* NoHandleLeaked looks at the end; Counted and Placed say what holds on the way.
IInv ==
  /\ Typed
  /\ phase = "new" => heap = {} /\ \A c \in AllChildren : held[c] = 0
  /\ phase = "open" => \A t \in AllTables : Counted(t)
  /\ \A c \in heap : Placed(c)
  /\ NoHandleLeaked

\* A table of the tree is a child and a position among its tables.
LEMMA TableOf ==
  ASSUME Typed, NEW t \in AllTables
  PROVE  t[1] \in AllChildren /\ t[2] \in DOMAIN Tables(t[1]) /\ t[2] \in Nat \ {0}
<1>1. PICK c \in AllChildren : t \in {c} \X DOMAIN Tables(c)
  BY DEF AllTables
<1>2. t[1] = c /\ t[2] \in DOMAIN Tables(c)
  BY <1>1
<1>3. Tables(c) \in Seq(Seq(Nat))
  BY MergeAssumption DEF Typed, Tables, AllChildren
<1> QED
  BY <1>2, <1>3

\* A child that LoadFile leaves valid holds the table it stands in, if it is a level.
LEMMA LoadOutcome ==
  ASSUME Typed, NEW c \in AllChildren, NEW f \in Nat \ {0}, NEW o \in LoadFrom(c, f)
  PROVE  /\ o.file \in Nat \ {0} /\ o.held \in Nat
         /\ tree[c].kind # "level" => o.held = 0
         /\ ChildValid(c, o) =>
              o.file \in DOMAIN Tables(c) /\ (tree[c].kind = "level" => o.held = o.file)
<1>1. Tables(c) \in Seq(Seq(Nat)) /\ Len(Tables(c)) \in Nat
  BY MergeAssumption DEF Typed, Tables, AllChildren
<1>2. Cardinality(SkippedFrom(c, f)) \in Nat
  <2>1. IsFiniteSet(f .. Len(Tables(c)))
    BY <1>1, FS_Interval
  <2>2. SkippedFrom(c, f) \subseteq f .. Len(Tables(c))
    BY DEF SkippedFrom
  <2> QED
    BY <2>1, <2>2, FS_Subset, FS_CardinalityType
<1> DEFINE first == f + Cardinality(SkippedFrom(c, f))
           last == IF first <= Len(Tables(c)) THEN first ELSE Len(Tables(c))
<1>3. first \in Nat \ {0} /\ last \in Nat
  BY <1>1, <1>2
<1>4. \/ o = At(c, first, 1, "OK", last)
      \/ \E g \in f .. last : o \in {At(c, g, 1, "error", 0), At(c, g, 1, "error", g)}
  BY DEF LoadFrom
<1>5. CASE o = At(c, first, 1, "OK", last)
  BY <1>1, <1>3, <1>5 DEF At, ChildValid
<1>6. CASE \E g \in f .. last : o \in {At(c, g, 1, "error", 0), At(c, g, 1, "error", g)}
  BY <1>3, <1>6 DEF At, ChildValid
<1> QED
  BY <1>4, <1>5, <1>6

\* The reference count of a table follows the handle of its child.
LEMMA ReloadCounts ==
  ASSUME Typed, NEW t \in AllTables, Counted(t), NEW h \in Nat,
         tree[t[1]].kind # "level" => h = 0
  PROVE  Reload(t, h) = One(IF tree[t[1]].kind = "l0" THEN t[1] \in children ELSE h = t[2])
<1>1. t[1] \in AllChildren /\ t[2] \in Nat \ {0}
  BY TableOf
<1>2. held[t[1]] \in Nat /\ (tree[t[1]].kind # "level" => held[t[1]] = 0)
  BY <1>1 DEF Typed
<1>3. CASE tree[t[1]].kind = "l0"
  BY <1>1, <1>2, <1>3 DEF Counted, Released, Reload, One
<1>4. CASE tree[t[1]].kind # "l0"
  BY <1>1, <1>2, <1>4 DEF Counted, Released, Reload, One
<1> QED
  BY <1>3, <1>4

\* Nothing is held before the constructor.
LEMMA InitHolds == Init => IInv
BY DEF Init, IInv, Typed, NoHandleLeaked

\* The constructor takes one handle for each level-0 table it could open.
LEMMA ConstructStep == IInv /\ Construct => IInv'
<1> SUFFICES ASSUME IInv, Construct PROVE IInv'
  OBVIOUS
<1>1. /\ phase = "new" /\ phase' = "open"
      /\ UNCHANGED <<tree, file, heap, held>>
      /\ AllTables' = AllTables /\ AllChildren' = AllChildren
  BY DEF Construct, AllTables, AllChildren, Tables
<1>2. PICK bad \in SUBSET {c \in AllChildren : tree[c].kind = "l0"} :
        /\ children' = AllChildren \ bad
        /\ refs' = [t \in AllTables |->
                      IF tree[t[1]].kind = "l0" /\ t[1] \notin bad THEN 1 ELSE 0]
  BY DEF Construct
<1>3. Typed'
  BY <1>1, <1>2 DEF IInv, Typed
<1>4. ASSUME NEW t \in AllTables PROVE Counted(t)'
  <2>1. t[1] \in AllChildren /\ t[2] \in Nat \ {0} /\ held[t[1]] = 0
    BY <1>1, TableOf DEF IInv
  <2> QED
    BY <1>1, <1>2, <2>1 DEF Counted, Released, One
<1> QED
  BY <1>1, <1>3, <1>4 DEF IInv, NoHandleLeaked

\* What SeekToFirst and Next do to the children's handles: each child asked moves to an
\* outcome of its own, the others stay.
LEMMA Moved ==
  ASSUME IInv, phase = "open", UNCHANGED <<tree, phase, children>>,
         NEW asked \in SUBSET AllChildren, NEW o,
         \A c \in asked : /\ o[c].file \in Nat /\ o[c].held \in Nat
                          /\ tree[c].kind # "level" => o[c].held = 0,
         file' = [c \in AllChildren |-> IF c \in asked THEN o[c].file ELSE file[c]],
         held' = [c \in AllChildren |-> IF c \in asked THEN o[c].held ELSE held[c]],
         refs' = [t \in AllTables |-> IF t[1] \in asked THEN Reload(t, o[t[1]].held)
                                                        ELSE refs[t]],
         heap' \subseteq children,
         \A c \in heap' : Placed(c)'
  PROVE  IInv'
<1>1. AllTables' = AllTables /\ AllChildren' = AllChildren
  BY DEF AllTables, AllChildren, Tables
<1>2. ASSUME NEW t \in AllTables PROVE refs'[t] \in Int /\ Counted(t)'
  <2>1. t[1] \in AllChildren /\ Counted(t)
    BY TableOf DEF IInv
  <2>2. CASE t[1] \in asked
    <3>1. refs'[t] = One(IF tree[t[1]].kind = "l0" THEN t[1] \in children
                                                    ELSE o[t[1]].held = t[2])
      BY <2>1, <2>2, ReloadCounts DEF IInv
    <3> QED
      BY <2>1, <2>2, <3>1 DEF Counted, Released, One
  <2>3. CASE t[1] \notin asked
    BY <2>1, <2>3 DEF Counted, Released, IInv, Typed
  <2> QED
    BY <2>2, <2>3
<1>3. Typed'
  BY <1>1, <1>2 DEF IInv, Typed
<1> QED
  BY <1>1, <1>2, <1>3 DEF IInv, NoHandleLeaked

\* SeekToFirst: the children asked reload from their first table.
LEMMA SeekStep == IInv /\ SeekToFirst => IInv'
<1> SUFFICES ASSUME IInv, SeekToFirst PROVE IInv'
  OBVIOUS
<1>1. phase = "open" /\ UNCHANGED <<tree, phase, children>>
  BY DEF SeekToFirst
<1>2. AllTables' = AllTables /\ AllChildren' = AllChildren
  BY <1>1 DEF AllTables, AllChildren, Tables
<1>3. CASE status # "OK"
  <2>1. heap' = {} /\ UNCHANGED <<file, held, refs>>
    BY <1>3 DEF SeekToFirst
  <2> QED
    BY <1>1, <1>2, <2>1 DEF IInv, Typed, NoHandleLeaked, Counted, Released
<1>4. CASE status = "OK"
  <2> DEFINE failing(o) == {c \in children : o[c].status # "OK"}
             asked(o) == {c \in children : \A d \in failing(o) : d = c \/ Order(c, d)}
  <2>1. PICK o \in [children -> UNION {SeekChild(c) : c \in children}] :
          /\ \A c \in children : o[c] \in SeekChild(c)
          /\ file' = [c \in AllChildren |-> IF c \in asked(o) THEN o[c].file ELSE file[c]]
          /\ held' = [c \in AllChildren |-> IF c \in asked(o) THEN o[c].held ELSE held[c]]
          /\ refs' = [t \in AllTables |-> IF t[1] \in asked(o) THEN Reload(t, o[t[1]].held)
                                                               ELSE refs[t]]
          /\ heap' = IF failing(o) = {} THEN {c \in children : ChildValid(c, o[c])} ELSE {}
    BY <1>4 DEF SeekToFirst
  <2>2. asked(o) \in SUBSET AllChildren /\ heap' \subseteq children
    BY <2>1 DEF IInv, Typed
  <2>3. ASSUME NEW c \in children
        PROVE  /\ o[c].file \in Nat /\ o[c].held \in Nat
               /\ tree[c].kind # "level" => o[c].held = 0
               /\ ChildValid(c, o[c]) => /\ o[c].file \in DOMAIN Tables(c)
                                         /\ tree[c].kind = "level" => o[c].held = o[c].file
    <3>1. c \in AllChildren /\ o[c] \in SeekChild(c)
      BY <2>1 DEF IInv, Typed
    <3>2. CASE chstatus[c] = "OK"
      <4>1. o[c] \in LoadFrom(c, 1)
        BY <3>1, <3>2 DEF SeekChild
      <4> QED
        BY <3>1, <4>1, LoadOutcome DEF IInv
    <3>3. CASE chstatus[c] # "OK"
      <4>1. o[c] = At(c, file[c], pos[c], "error", held[c])
        BY <3>1, <3>3 DEF SeekChild
      <4> QED
        BY <3>1, <4>1 DEF At, ChildValid, IInv, Typed
    <3> QED
      BY <3>2, <3>3
  <2>4. ASSUME NEW c \in heap' PROVE Placed(c)'
    <3>1. c \in children /\ c \in asked(o) /\ ChildValid(c, o[c])
      BY <2>1
    <3>2. file'[c] = o[c].file /\ held'[c] = o[c].held
      BY <2>1, <2>2, <3>1
    <3> QED
      BY <1>1, <2>3, <3>1, <3>2 DEF Placed, Tables
  <2> HIDE DEF asked
  <2>5. \A c \in asked(o) : c \in children
    BY DEF asked
  <2> QED
    BY <1>1, <2>1, <2>2, <2>3, <2>4, <2>5, Moved
<1> QED
  BY <1>3, <1>4

\* Next: the child on top moves on; it may leave the heap, which no other child joins.
LEMMA NextStep == IInv /\ Next_ => IInv'
<1> SUFFICES ASSUME IInv, Next_ PROVE IInv'
  OBVIOUS
<1>1. phase = "open" /\ UNCHANGED <<tree, phase, children>>
  BY DEF Next_
<1>2. AllTables' = AllTables /\ AllChildren' = AllChildren
  BY <1>1 DEF AllTables, AllChildren, Tables
<1>3. PICK out_ \in NextChild(Top) :
        /\ file' = [file EXCEPT ![Top] = out_.file]
        /\ held' = [held EXCEPT ![Top] = out_.held]
        /\ refs' = [t \in AllTables |-> IF t[1] = Top THEN Reload(t, out_.held) ELSE refs[t]]
        /\ heap' = HeapAfter(out_)
  BY DEF Next_
<1> DEFINE c0 == Top
<1> HIDE DEF c0
<1>4. heap' \subseteq heap /\ (c0 \in heap' => ChildValid(c0, out_))
  BY <1>3 DEF HeapAfter, c0
<1>5. CASE c0 \notin AllChildren
  <2>1. UNCHANGED <<file, held>>
    BY <1>3, <1>5 DEF IInv, Typed, c0
  <2>2. \A t \in AllTables : refs'[t] = refs[t]
    BY <1>3, <1>5, TableOf DEF IInv, c0
  <2>3. refs' = refs
    BY <1>3, <2>2 DEF IInv, Typed
  <2> QED
    BY <1>1, <1>2, <1>4, <2>1, <2>3
    DEF IInv, Typed, NoHandleLeaked, Counted, Released, Placed, Tables
<1>6. CASE c0 \in AllChildren
  <2>1. /\ file[c0] \in Nat /\ held[c0] \in Nat
        /\ tree[c0].kind # "level" => held[c0] = 0
    BY <1>6 DEF IInv, Typed
  <2>2. \/ out_ \in LoadFrom(c0, file[c0] + 1)
        \/ \E p, s : out_ = At(c0, file[c0], p, s, held[c0])
    BY <1>3 DEF NextChild, c0
  <2>3. /\ out_.file \in Nat /\ out_.held \in Nat
        /\ tree[c0].kind # "level" => out_.held = 0
        /\ c0 \in heap' => /\ out_.file \in DOMAIN Tables(c0)
                           /\ tree[c0].kind = "level" => out_.held = out_.file
    <3>1. CASE out_ \in LoadFrom(c0, file[c0] + 1)
      BY <1>4, <1>6, <2>1, <3>1, LoadOutcome DEF IInv
    <3>2. CASE \E p, s : out_ = At(c0, file[c0], p, s, held[c0])
      BY <1>4, <2>1, <3>2 DEF At, IInv, Placed
    <3> QED
      BY <2>2, <3>1, <3>2
  <2>4. ASSUME NEW c \in heap' PROVE Placed(c)'
    <3>1. c \in AllChildren /\ Placed(c)
      BY <1>4 DEF IInv, Typed
    <3> QED
      BY <1>1, <1>3, <2>3, <3>1 DEF Placed, Tables, IInv, Typed, c0
  <2> DEFINE o == [c \in {c0} |-> out_]
  <2>5. /\ file' = [c \in AllChildren |-> IF c \in {c0} THEN o[c].file ELSE file[c]]
        /\ held' = [c \in AllChildren |-> IF c \in {c0} THEN o[c].held ELSE held[c]]
        /\ refs' = [t \in AllTables |-> IF t[1] \in {c0} THEN Reload(t, o[t[1]].held)
                                                         ELSE refs[t]]
    BY <1>3 DEF IInv, Typed, c0
  <2>6. \A c \in {c0} : /\ o[c].file \in Nat /\ o[c].held \in Nat
                        /\ tree[c].kind # "level" => o[c].held = 0
    BY <2>3
  <2> HIDE DEF o
  <2>7. heap' \subseteq children /\ {c0} \in SUBSET AllChildren
    BY <1>4, <1>6 DEF IInv, Typed
  <2> QED
    BY <1>1, <2>4, <2>5, <2>6, <2>7, Moved
<1> QED
  BY <1>5, <1>6

\* The destructors give every reference back.
LEMMA DestroyStep == IInv /\ Destroy => IInv'
<1> SUFFICES ASSUME IInv, Destroy PROVE IInv'
  OBVIOUS
<1>1. /\ phase = "open" /\ phase' = "destroyed"
      /\ UNCHANGED <<tree, children, file, heap, held>>
      /\ refs' = [t \in AllTables |-> refs[t] - Released(t)]
  BY DEF Destroy
<1>2. AllTables' = AllTables /\ AllChildren' = AllChildren
  BY <1>1 DEF AllTables, AllChildren, Tables
<1>3. \A t \in AllTables : refs'[t] = 0
  BY <1>1 DEF IInv, Typed, Counted, Released, One
<1> QED
  BY <1>1, <1>2, <1>3 DEF IInv, Typed, NoHandleLeaked, Placed, Tables

\* Every step of the merge keeps the books.
LEMMA Step == IInv /\ [Next]_vars => IInv'
<1>1. IInv /\ UNCHANGED vars => IInv'
  BY DEF IInv, Typed, NoHandleLeaked, Counted, Released, Placed, Tables, AllTables,
         AllChildren, vars
<1> QED
  BY <1>1, ConstructStep, SeekStep, NextStep, DestroyStep DEF Next, Gone

\* The handles of the table cache balance: whatever tables fail to open or to read, and
\* however often the scan restarts, the destroyed iterator has given back every one.
THEOREM HandlesBalance == Spec => []NoHandleLeaked
<1>1. IInv => NoHandleLeaked
  BY DEF IInv
<1> QED
  BY <1>1, InitHolds, Step, PTL DEF Spec

\* The merge never reads from a table the cache may have evicted.
THEOREM TablesPinned == Spec => []ReadTablesPinned
<1>1. IInv => ReadTablesPinned
  <2> SUFFICES ASSUME IInv, phase = "open", NEW c \in heap, CanFail(c)
               PROVE  refs[<<c, file[c]>>] > 0
    BY DEF ReadTablesPinned
  <2>1. <<c, file[c]>> \in AllTables
    BY DEF IInv, Typed, Placed, AllTables
  <2>2. refs[<<c, file[c]>>] = Released(<<c, file[c]>>)
    BY <2>1 DEF IInv, Counted
  <2>3. tree[c].kind = "l0" \/ tree[c].kind = "level"
    BY MergeAssumption DEF IInv, Typed, CanFail, AllChildren
  <2> QED
    BY <2>2, <2>3 DEF IInv, Typed, Placed, Released, One
<1> QED
  BY <1>1, InitHolds, Step, PTL DEF Spec
==============================================================================
