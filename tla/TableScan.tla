------------------------------ MODULE TableScan ------------------------------
(***************************************************************************)
(* The scan of one SST file: SABITableIterator from its query bitmap on    *)
(* (sabi_table_iterator.cpp), with the BlockPrefetchQueue that keeps its   *)
(* block reads in flight (block_prefetch_queue.cpp).                       *)
(*                                                                         *)
(* Rows and blocks count from 0.  The bitmap and the rows that survive     *)
(* re-verification are arbitrary; the block cache and the process-wide     *)
(* async flag change under the iterator, because other scans share them.   *)
(***************************************************************************)
EXTENDS Integers, FiniteSets, Sequences, SequencesExt, FiniteSetsExt

CONSTANTS
  Layouts,      \* data_entries_cnt_psum of the files considered
  Depth,        \* scan_prefetch_depth
  IOErrors,     \* may a block read fail?
  MaxSeeks      \* calls of SeekToFirst (bound)

ASSUME TableAssumption ==
  /\ \A l \in Layouts : l \in Seq(Nat \ {0})
  /\ Depth \in Nat
  /\ IOErrors \in BOOLEAN
  /\ MaxSeeks \in Nat

VARIABLES
  psum,             \* data_entries_cnt_psum
  query_bitmap,
  passing,          \* rows that pass the seqno, deletion and query filters
  target_blocks,    \* the blocks with a bit set, in file order
  pc,               \* "prepare", "ready", "advance", "fetch", "valid" or "end"
  cur,              \* cur_target_block_idx_
  rest,             \* the bitmap from bitmap_iter_ on
  local,            \* local_indexes_, as row ids
  buffer,           \* rows of the loaded block still to be shown
  status,
  slots,            \* the queue's slots: target, submitted, and the block held
  next_submit,
  async_unavailable,
  cached,           \* blocks in the block cache
  served,           \* the last buffer BufferFor handed out (history)
  seeks,
  out               \* rows shown since SeekToFirst (history)

vars == <<psum, query_bitmap, passing, target_blocks, pc, cur, rest, local, buffer,
          status, slots, next_submit, async_unavailable, cached, served, seeks, out>>
fileVars == <<psum, query_bitmap, passing, target_blocks>>
queueVars == <<slots, next_submit, async_unavailable>>

kNoTarget == -1
NoBlock == -1
InOrder(S) == SetToSortSeq(S, <)
Blocks == 0 .. Len(psum) - 1
EndOf(b) == psum[b + 1]
StartOf(b) == IF b = 0 THEN 0 ELSE psum[b]
Target(t) == target_blocks[t + 1]

\* psum is a 1-based count and ids are 0-based: upper_bound finds the block.
BlockOf(counts, id) == Min({b \in 0 .. Len(counts) - 1 : counts[b + 1] > id})

\* The constructor, up to the queue's Prepare.
Init ==
  /\ psum \in Layouts
  /\ query_bitmap \in SUBSET (0 .. Last(psum) - 1)
  /\ passing \in SUBSET query_bitmap
  /\ target_blocks = InOrder({BlockOf(psum, id) : id \in query_bitmap})
  /\ pc = "prepare"
  /\ cur = -1
  /\ rest = query_bitmap
  /\ local = {}
  /\ buffer = <<>>
  /\ status = "OK"
  /\ slots = [s \in 0 .. Depth - 1 |->
                [target |-> kNoTarget, submitted |-> FALSE, holds |-> NoBlock]]
  /\ next_submit = 0
  /\ async_unavailable = FALSE
  /\ cached \in {{}, Blocks}
  /\ served = [asked |-> NoBlock, holds |-> NoBlock]
  /\ seeks = 0
  /\ out = <<>>

------------------------------------------------------------------------------
(* BlockPrefetchQueue.                                                     *)

\* One past idx + depth is the slot serving idx.
Limit(idx) == IF Depth = 0 THEN 0 ELSE Min({idx + Depth, Len(target_blocks)})

WindowFull == next_submit >= Limit(Max({cur, 0}))

\* Mutant: a submit that is skipped leaves the slot's submitted flag as it was.
Submit_StaleFlag ==
  /\ pc \in {"prepare", "fetch"} /\ ~WindowFull
  /\ LET s == next_submit % Depth
         b == Target(next_submit)
     IN  \/ /\ async_unavailable \/ b \in cached
            /\ slots' = [slots EXCEPT ![s].target = next_submit]
            /\ UNCHANGED async_unavailable
         \/ /\ ~async_unavailable /\ b \notin cached
            /\ slots' = [slots EXCEPT ![s] =
                           [target |-> next_submit, submitted |-> TRUE, holds |-> b]]
            /\ UNCHANGED async_unavailable
  /\ next_submit' = next_submit + 1
  /\ UNCHANGED <<fileVars, pc, cur, rest, local, buffer, status, cached, served, seeks, out>>

\* TopUp submits the targets of the window one by one.  A submit is skipped when async
\* reads are unavailable or the block is cached; PrefetchAsync starts the read, fails,
\* or is not supported at all, which the whole process remembers.
Submit ==
  /\ pc \in {"prepare", "fetch"} /\ ~WindowFull
  /\ LET s == next_submit % Depth
         b == Target(next_submit)
         not_submitted == [target |-> next_submit, submitted |-> FALSE, holds |-> slots[s].holds]
     IN  \/ /\ async_unavailable \/ b \in cached
            /\ slots' = [slots EXCEPT ![s] = not_submitted]
            /\ UNCHANGED async_unavailable
         \/ /\ ~async_unavailable /\ b \notin cached
            /\ \/ /\ slots' = [slots EXCEPT ![s] =
                                 [target |-> next_submit, submitted |-> TRUE, holds |-> b]]
                  /\ UNCHANGED async_unavailable
               \/ /\ slots' = [slots EXCEPT ![s] = not_submitted]
                  /\ async_unavailable' \in {async_unavailable, TRUE}
  /\ next_submit' = next_submit + 1
  /\ UNCHANGED <<fileVars, pc, cur, rest, local, buffer, status, cached, served, seeks, out>>

Prepared ==
  /\ pc = "prepare" /\ WindowFull
  /\ pc' = "ready"
  /\ UNCHANGED <<fileVars, cur, rest, local, buffer, status, queueVars, cached, served,
                 seeks, out>>

\* BufferFor(cur) after its TopUp: a buffer, or none if the slot serves another target.
Serves == Depth > 0 /\ slots[cur % Depth].target = cur /\ slots[cur % Depth].submitted

------------------------------------------------------------------------------
(* SABITableIterator.                                                      *)

\* Mutant: bitmap_iter_ is not rewound.
SeekToFirst_KeepsCursor ==
  /\ pc \in {"ready", "valid", "end"} /\ seeks < MaxSeeks
  /\ seeks' = seeks + 1
  /\ \/ /\ status = "OK"
        /\ pc' = "advance" /\ cur' = -1
        /\ buffer' = <<>> /\ out' = <<>>
     \/ /\ status # "OK"
        /\ pc' = "end" /\ UNCHANGED <<cur, buffer, out>>
  /\ UNCHANGED <<fileVars, rest, local, status, queueVars, cached, served>>

\* A failure is sticky; otherwise the cursors are rewound.  The queue is not prepared
\* again.
SeekToFirst ==
  /\ pc \in {"ready", "valid", "end"} /\ seeks < MaxSeeks
  /\ seeks' = seeks + 1
  /\ \/ /\ status = "OK"
        /\ pc' = "advance" /\ cur' = -1 /\ rest' = query_bitmap
        /\ buffer' = <<>> /\ out' = <<>>
     \/ /\ status # "OK"
        /\ pc' = "end" /\ UNCHANGED <<cur, rest, buffer, out>>
  /\ UNCHANGED <<fileVars, local, status, queueVars, cached, served>>

\* LoadNextBlock: the next target block and the bits of the bitmap that fall in it.
NextBlock ==
  /\ pc = "advance"
  /\ cur' = cur + 1
  /\ \/ /\ cur + 1 >= Len(target_blocks)
        /\ pc' = "end" /\ UNCHANGED <<rest, local>>
     \/ /\ cur + 1 < Len(target_blocks)
        /\ LET b == Target(cur + 1)
           IN  /\ local' = {id \in rest : StartOf(b) <= id /\ id < EndOf(b)}
               /\ rest' = {id \in rest : id >= EndOf(b)}
        /\ pc' = IF local' = {} THEN "advance" ELSE "fetch"
  /\ UNCHANGED <<fileVars, buffer, status, queueVars, cached, served, seeks, out>>

\* Mutant: a block without a surviving row is read again instead of skipped.
ReadBlock_Again ==
  /\ pc = "fetch" /\ WindowFull
  /\ served' = IF Serves THEN [asked |-> Target(cur), holds |-> slots[cur % Depth].holds]
                         ELSE served
  /\ cached' = cached \cup {Target(cur)}
  /\ \/ /\ local \cap passing # {}
        /\ buffer' = InOrder(local \cap passing)
        /\ out' = Append(out, Head(buffer'))
        /\ pc' = "valid"
     \/ /\ local \cap passing = {}
        /\ pc' = "fetch" /\ UNCHANGED <<buffer, out>>
  /\ UNCHANGED <<fileVars, cur, rest, local, status, queueVars, seeks>>

\* The block is read, from the prefetched buffer if one serves it, its rows filtered
\* and the first survivor shown; a block without one is skipped.
ReadBlock ==
  /\ pc = "fetch" /\ WindowFull
  /\ served' = IF Serves THEN [asked |-> Target(cur), holds |-> slots[cur % Depth].holds]
                         ELSE served
  /\ cached' = cached \cup {Target(cur)}
  /\ \/ /\ local \cap passing # {}
        /\ buffer' = InOrder(local \cap passing)
        /\ out' = Append(out, Head(buffer'))
        /\ pc' = "valid"
     \/ /\ local \cap passing = {}
        /\ pc' = "advance" /\ UNCHANGED <<buffer, out>>
  /\ UNCHANGED <<fileVars, cur, rest, local, status, queueVars, seeks>>

\* The block cannot be read: the scan stops.
ReadFails ==
  /\ pc = "fetch" /\ WindowFull /\ IOErrors
  /\ status' = "error"
  /\ pc' = "end"
  /\ UNCHANGED <<fileVars, cur, rest, local, buffer, queueVars, cached, served, seeks, out>>

\* The next row of the block, or LoadNextBlock after its last one.
Next_ ==
  /\ pc = "valid"
  /\ buffer' = Tail(buffer)
  /\ \/ /\ Len(buffer) > 1
        /\ out' = Append(out, buffer[2]) /\ UNCHANGED pc
     \/ /\ Len(buffer) = 1
        /\ pc' = "advance" /\ UNCHANGED out
  /\ UNCHANGED <<fileVars, cur, rest, local, status, queueVars, cached, served, seeks>>

------------------------------------------------------------------------------
(* Other scans of the process.                                             *)

CacheChanges ==
  /\ \E b \in Blocks : cached' \in {cached \cup {b}, cached \ {b}} \ {cached}
  /\ UNCHANGED <<fileVars, pc, cur, rest, local, buffer, status, queueVars, served, seeks, out>>

NoteAsyncReadUnavailable ==
  /\ ~async_unavailable /\ async_unavailable' = TRUE
  /\ UNCHANGED <<fileVars, pc, cur, rest, local, buffer, status, slots, next_submit, cached,
                 served, seeks, out>>

Iterating == Submit \/ Prepared \/ NextBlock \/ ReadBlock \/ ReadFails
Next == Iterating \/ SeekToFirst \/ Next_ \/ CacheChanges \/ NoteAsyncReadUnavailable

\* A call that has begun runs on.
Spec == Init /\ [][Next]_vars /\ WF_vars(Iterating)

------------------------------------------------------------------------------
(* Properties.                                                             *)

\* A buffer handed to the block reader was filled for that block, although slots are
\* reused, submits skipped and scans restarted.
BufferHoldsItsBlock == served.asked = served.holds

\* The scan is an ordered scan of the rows that are in the bitmap and survive
\* re-verification: none is skipped or repeated across block boundaries, refills and
\* restarts, and none is missing at the end unless the status says so.
ShowsAllRows ==
  INSTANCE OrderedScan WITH
    rows   <- InOrder(passing),
    out    <- out,
    state  <- CASE pc \in {"prepare", "ready"} -> "new"
                [] pc \in {"advance", "fetch"} -> "moving"
                [] OTHER -> pc,
    failed <- status # "OK"
IsOrderedScan == ShowsAllRows!Spec

\* LoadNextBlock's loop ends: a row is shown, or the scan is over.
LoadNextBlockReturns == (pc = "advance") ~> (pc \in {"valid", "end"})
==============================================================================
