------------------------ MODULE BranchingBinarySearch ------------------------
(***************************************************************************)
(* src/searches/branching_binary_search.h: std::lower_bound over the window, *)
(* a test of the row it ends at, `stop` included, and the summation.         *)
(***************************************************************************)
EXTENDS SearchBase

vars == <<data, size, key, start, stop, pc, it, rows>>

Init == Call /\ pc = "locate" /\ it = start /\ rows = {}

LocateFromZero ==
  /\ pc = "locate"
  /\ it' = LowerBound(0, stop)
  /\ pc' = "check"
  /\ UNCHANGED <<input, rows>>

Locate ==
  /\ pc = "locate"
  /\ it' = LowerBound(start, stop)
  /\ pc' = "check"
  /\ UNCHANGED <<input, rows>>

FoundInside == it < stop /\ data[it] = key

(* if (it == data.end() || it->key != lookup_key) return 0 *)
Found == it < size /\ data[it] = key

Check ==
  /\ pc = "check"
  /\ pc' = IF Found THEN "sum" ELSE "done"
  /\ UNCHANGED <<input, it, rows>>

Terminated == pc = "done" /\ UNCHANGED vars

Next == Locate \/ Check \/ Sum \/ Terminated

Spec == Init /\ [][Next]_vars /\ WF_vars(Next)
-----------------------------------------------------------------------------
TypeOK ==
  /\ Call
  /\ pc \in {"locate", "check", "sum", "done"}
  /\ it \in start .. size
  /\ rows \in SUBSET Rows

(***************************************************************************)
(* The answer is exact if and only if the prediction holds the FIRST row of *)
(* the key.  Unlike the branchless search this one does not scroll back: a  *)
(* window that starts inside a run of duplicates silently loses those in    *)
(* front of it.                                                             *)
(***************************************************************************)
ExactIffCovered == pc = "done" => (rows = Matching <=> Covered)
=============================================================================
