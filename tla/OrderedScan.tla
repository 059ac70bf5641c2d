----------------------------- MODULE OrderedScan -----------------------------
(***************************************************************************)
(* What every iterator below the top-level one promises its consumer (the  *)
(* contract of SABIInternalIterator in bit_lsm_iterator.h): SeekToFirst    *)
(* and Next show the rows one after the other, each once, in order; an     *)
(* iterator that is no longer valid has shown them all or has failed; and  *)
(* a failure is final, since a scan that lost rows must not be restarted.  *)
(***************************************************************************)
EXTENDS Naturals, Sequences

VARIABLES
  rows,     \* the rows to show, in order
  out,      \* the rows shown since the last SeekToFirst
  state,    \* "new", "moving" (inside SeekToFirst or Next), "valid" or "end"
  failed

vars == <<rows, out, state, failed>>

Init ==
  /\ out = <<>>
  /\ state = "new"
  /\ failed = FALSE

\* Where a call that has shown the rows o goes on from: it is still under way, shows
\* the next row, or finds that there is none.
Land(o) ==
  \/ out' = o /\ state' = "moving"
  \/ /\ Len(o) < Len(rows)
     /\ out' = Append(o, rows[Len(o) + 1])
     /\ state' = "valid"
  \/ /\ Len(o) = Len(rows)
     /\ out' = o
     /\ state' = "end"

Seek ==
  /\ state # "moving" /\ ~failed
  /\ Land(<<>>)
  /\ UNCHANGED <<rows, failed>>

Advance ==
  /\ state \in {"moving", "valid"}
  /\ Land(out)
  /\ UNCHANGED <<rows, failed>>

Fail ==
  /\ failed' = TRUE
  /\ out' \in {out, <<>>}
  /\ state' = "end"
  /\ UNCHANGED rows

Next == Seek \/ Advance \/ Fail

Spec == Init /\ [][Next]_vars
==============================================================================
