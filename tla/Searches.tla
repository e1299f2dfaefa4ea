------------------------------ MODULE Searches ------------------------------
(***************************************************************************)
(* The searches that --search chooses from (src/benchmark.cc): one call of    *)
(* the one that was chosen.  The interpolation search, which uses the         *)
(* branching one, is in InterpolationSearch.                                 *)
(***************************************************************************)
EXTENDS SearchBase

VARIABLES searcher,   \* "binary", "branchless_binary" or "linear"
          n           \* see BranchlessBinarySearch

vars == <<data, size, key, start, stop, pc, it, rows, n, searcher>>

Binary == INSTANCE BranchingBinarySearch
Branchless == INSTANCE BranchlessBinarySearch
Linear == INSTANCE LinearSearch

Init ==
  \/ searcher = "binary" /\ Binary!Init /\ n = 0
  \/ searcher = "branchless_binary" /\ Branchless!Init
  \/ searcher = "linear" /\ Linear!Init /\ n = 0

BinarySearch == searcher = "binary" /\ Binary!Next /\ UNCHANGED <<searcher, n>>

BranchlessSearch ==
  searcher = "branchless_binary" /\ Branchless!Next /\ UNCHANGED searcher

LinearFind == searcher = "linear" /\ Linear!Next /\ UNCHANGED <<searcher, n>>

Next == BinarySearch \/ BranchlessSearch \/ LinearFind

(* A call runs on one thread and nothing in it waits.                       *)
Spec == Init /\ [][Next]_vars /\ WF_vars(Next)
-----------------------------------------------------------------------------
(***************************************************************************)
(* The branchless search gets exact answers from any window with a row of     *)
(* the key, for it scrolls back (see BranchlessBinarySearch).                *)
(***************************************************************************)
AnswerExact == searcher = "branchless_binary" => Branchless!AnswerExact

(***************************************************************************)
(* It reads at most one row past the end, and that only for a window that     *)
(* reaches there, or where it adds up rows of the key that end the data.      *)
(***************************************************************************)
ReadsInside == searcher = "branchless_binary" => Branchless!ReadsInside

(***************************************************************************)
(* The branching one does if and only if the window has the FIRST row, and    *)
(* the linear search adds up what the branching one does.                   *)
(***************************************************************************)
ExactIffCovered ==
  /\ searcher = "binary" => Binary!ExactIffCovered
  /\ searcher = "linear" => Linear!AsBinary

(***************************************************************************)
(* Whichever search is chosen, a call keeps the promise of LookupSpec, and    *)
(* returns.                                                                 *)
(***************************************************************************)
Promise == INSTANCE LookupSpec WITH
             done <- pc = "done",
             rows <- IF pc = "done" THEN rows ELSE {}

KeepsPromise == Promise!Spec

(* ... the part of it that fairness has no say in.                           *)
PromisedSteps == Promise!Init /\ [][Promise!Next]_(Promise!vars)
=============================================================================
