--------------------------- MODULE TableScanProofs ---------------------------
(***************************************************************************)
(* Proofs about the block prefetch queue, for files of any layout, any     *)
(* depth of the window and any number of restarts.                         *)
(***************************************************************************)
EXTENDS TableScan, TLAPS

\* A slot whose submit went through holds the block of the target it was submitted for.
\* The target may be one the scan has passed, or one of before a restart.
SlotHoldsItsTarget(s) == slots[s].submitted => slots[s].holds = Target(slots[s].target)

\* BufferHoldsItsBlock looks at the buffer handed out; this invariant looks at all those
\* that could be.
IInv ==
  /\ cur \in Int
  /\ next_submit \in Nat
  /\ DOMAIN slots = 0 .. Depth - 1
  /\ \A s \in 0 .. Depth - 1 : SlotHoldsItsTarget(s)
  /\ BufferHoldsItsBlock

\* The empty queue of Prepare holds nothing.
LEMMA InitHolds == Init => IInv
BY TableAssumption DEF Init, IInv, SlotHoldsItsTarget, BufferHoldsItsBlock

\* Submit fills the slot with the block it notes as target, or clears its flag.
LEMMA SubmitStep == IInv /\ Submit => IInv'
<1> SUFFICES ASSUME IInv, Submit PROVE IInv'
  OBVIOUS
<1> USE TableAssumption
<1> DEFINE n == next_submit % Depth
           skip == [target |-> next_submit, submitted |-> FALSE, holds |-> slots[n].holds]
           full == [target |-> next_submit, submitted |-> TRUE, holds |-> Target(next_submit)]
<1>1. /\ UNCHANGED <<cur, target_blocks, served>>
      /\ next_submit' = next_submit + 1
  BY DEF Submit, fileVars
<1>2. \/ slots' = [slots EXCEPT ![n] = skip]
      \/ slots' = [slots EXCEPT ![n] = full]
  BY DEF Submit
<1>3. DOMAIN slots' = 0 .. Depth - 1
  BY <1>2 DEF IInv
<1>4. ASSUME NEW s \in 0 .. Depth - 1 PROVE SlotHoldsItsTarget(s)'
  <2>1. CASE s # n
    BY <1>1, <1>2, <2>1 DEF IInv, SlotHoldsItsTarget, Target
  <2>2. CASE s = n /\ slots' = [slots EXCEPT ![n] = full]
    BY <1>1, <2>2 DEF IInv, SlotHoldsItsTarget, Target
  <2>3. CASE s = n /\ slots' = [slots EXCEPT ![n] = skip]
    BY <2>3 DEF IInv, SlotHoldsItsTarget
  <2> QED
    BY <1>2, <2>1, <2>2, <2>3
<1> QED
  BY <1>1, <1>3, <1>4 DEF IInv, BufferHoldsItsBlock

\* BufferFor hands out the slot of the target asked for, and only if the slot's own
\* target is that one.
LEMMA ReadStep == IInv /\ ReadBlock => IInv'
<1> SUFFICES ASSUME IInv, ReadBlock PROVE IInv'
  OBVIOUS
<1> USE TableAssumption
<1>1. UNCHANGED <<cur, next_submit, slots, target_blocks>>
  BY DEF ReadBlock, queueVars, fileVars
<1>2. BufferHoldsItsBlock'
  <2>1. CASE Serves
    <3>1. cur % Depth \in 0 .. Depth - 1
      BY <2>1 DEF Serves, IInv
    <3>2. slots[cur % Depth].holds = Target(cur)
      BY <2>1, <3>1 DEF Serves, IInv, SlotHoldsItsTarget
    <3> QED
      BY <2>1, <3>2 DEF ReadBlock, BufferHoldsItsBlock
  <2>2. CASE ~Serves
    BY <2>2 DEF ReadBlock, IInv, BufferHoldsItsBlock
  <2> QED
    BY <2>1, <2>2
<1> QED
  BY <1>1, <1>2 DEF IInv, SlotHoldsItsTarget, Target

\* A restart moves the cursor and leaves the queue, with what is in flight, alone.
LEMMA OtherStep ==
  IInv /\ (\/ Prepared \/ NextBlock \/ ReadFails \/ SeekToFirst \/ Next_ \/ CacheChanges
           \/ NoteAsyncReadUnavailable \/ UNCHANGED vars) => IInv'
<1> SUFFICES ASSUME IInv,
                    \/ Prepared \/ NextBlock \/ ReadFails \/ SeekToFirst \/ Next_
                    \/ CacheChanges \/ NoteAsyncReadUnavailable \/ UNCHANGED vars
             PROVE  IInv'
  OBVIOUS
<1>1. UNCHANGED <<next_submit, slots, served, target_blocks>>
  BY DEF Prepared, NextBlock, ReadFails, SeekToFirst, Next_, CacheChanges,
         NoteAsyncReadUnavailable, vars, queueVars, fileVars
<1>2. cur' \in {cur, cur + 1, -1}
  BY DEF Prepared, NextBlock, ReadFails, SeekToFirst, Next_, CacheChanges,
         NoteAsyncReadUnavailable, vars
<1> QED
  BY <1>1, <1>2 DEF IInv, SlotHoldsItsTarget, Target, BufferHoldsItsBlock

\* A block is never decoded from the bytes of another one: although slots are reused, a
\* submit is skipped or fails and SeekToFirst rewinds past reads in flight, the buffer
\* BufferFor hands out was filled for the block asked for.
THEOREM BuffersRight == Spec => []BufferHoldsItsBlock
<1>1. IInv /\ [Next]_vars => IInv'
  BY SubmitStep, ReadStep, OtherStep DEF Next, Iterating
<1>2. IInv => BufferHoldsItsBlock
  BY DEF IInv
<1> QED
  BY <1>1, <1>2, InitHolds, PTL DEF Spec
==============================================================================
