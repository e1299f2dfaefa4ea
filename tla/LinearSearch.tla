---------------------------- MODULE LinearSearch ----------------------------
(***************************************************************************)
(* src/searches/linear_search.h: std::find_if from `start` on, a test of the *)
(* row it ends at, `stop` included, and the summation.                       *)
(***************************************************************************)
EXTENDS SearchBase

vars == <<data, size, key, start, stop, pc, it, rows>>

Init == Call /\ pc = "locate" /\ it = start /\ rows = {}

(* One turn of std::find_if.                                                *)
Advance ==
  /\ pc = "locate"
  /\ it < stop
  /\ data[it] # key
  /\ it' = it + 1
  /\ UNCHANGED <<input, pc, rows>>

(* find_if ends on the key or at `stop`; the code looks at that row as well. *)
Check ==
  /\ pc = "locate"
  /\ it < stop => data[it] = key
  /\ pc' = IF it < size /\ data[it] = key THEN "sum" ELSE "done"
  /\ UNCHANGED <<input, it, rows>>

Terminated == pc = "done" /\ UNCHANGED vars

Next == Advance \/ Check \/ Sum \/ Terminated

Spec == Init /\ [][Next]_vars /\ WF_vars(Next)
-----------------------------------------------------------------------------
TypeOK ==
  /\ Call
  /\ pc \in {"locate", "sum", "done"}
  /\ it \in start .. size
  /\ rows \in SUBSET Rows

(***************************************************************************)
(* One search can stand in for the other: on every call the linear search   *)
(* adds up the rows the branching binary search adds up, hits and misses.    *)
(***************************************************************************)
AsBinary ==
  LET first == LowerBound(start, stop)
      run == {p \in Matching : first <= p}
      hit == first < size /\ data[first] = key
  IN  pc = "done" => rows = IF hit THEN run ELSE {}
=============================================================================
