----------------------- MODULE BranchlessBinarySearch -----------------------
(***************************************************************************)
(* src/searches/branchless_binary_search.h.  `n` rows, the last of them      *)
(* possibly `stop` itself ("`end` is inclusive"), are left to look at from   *)
(* row `it` (the code's `lower`) on; every turn halves them.                 *)
(***************************************************************************)
EXTENDS SearchBase

VARIABLE n          \* rows left in the window

vars == <<data, size, key, start, stop, pc, it, rows, n>>

InitOneMore ==
  /\ Call
  /\ pc = "locate"
  /\ it = start
  /\ n = stop - start + 2
  /\ rows = {}

Init ==
  /\ Call
  /\ pc = "locate"
  /\ it = start
  /\ n = stop - start + 1
  /\ rows = {}

HalveStrict ==
  /\ pc = "locate"
  /\ n \div 2 # 0
  /\ LET half == n \div 2 IN
       /\ \E k \in Peek(it + half) : it' = IF k < key THEN it + half ELSE it
       /\ n' = n - half
  /\ UNCHANGED <<input, pc, rows>>

(* while (const int half = n / 2) *)
Halve ==
  /\ pc = "locate"
  /\ n \div 2 # 0
  /\ LET half == n \div 2 IN
       /\ \E k \in Peek(it + half) : it' = IF k <= key THEN it + half ELSE it
       /\ n' = n - half
  /\ UNCHANGED <<input, pc, rows>>

StopHalving ==
  /\ pc = "locate"
  /\ n \div 2 = 0
  /\ pc' = "scroll"
  /\ UNCHANGED <<input, it, rows, n>>

(* while (lower > 0 && data[lower - 1].key == lookup_key) --lower *)
CanScroll == it > 0 /\ data[it - 1] = key

ScrollBack ==
  /\ pc = "scroll"
  /\ CanScroll
  /\ it' = it - 1
  /\ UNCHANGED <<input, pc, rows, n>>

(* if (data[lower].key != lookup_key) ... return 0 *)
Check ==
  /\ pc = "scroll"
  /\ ~CanScroll
  /\ \E k \in Peek(it) : pc' = IF k = key THEN "sum" ELSE "done"
  /\ UNCHANGED <<input, it, rows, n>>

(* for (i = lower; data[i].key == lookup_key && i < data.size(); ++i): this  *)
(* loop reads the row BEFORE it tests the bound.                            *)
AddNext ==
  /\ pc = "sum"
  /\ \E k \in Peek(it) : k = key /\ it < size
  /\ rows' = rows \cup {it}
  /\ it' = it + 1
  /\ UNCHANGED <<input, pc, n>>

StopAtOther ==
  /\ pc = "sum"
  /\ \E k \in Peek(it) : ~ (k = key /\ it < size)
  /\ pc' = "done"
  /\ UNCHANGED <<input, it, rows, n>>

Terminated == pc = "done" /\ UNCHANGED vars

Next ==
  \/ Halve
  \/ StopHalving
  \/ ScrollBack
  \/ Check
  \/ AddNext
  \/ StopAtOther
  \/ Terminated

Spec == Init /\ [][Next]_vars /\ WF_vars(Next)
-----------------------------------------------------------------------------
TypeOK ==
  /\ Call
  /\ pc \in {"locate", "scroll", "sum", "done"}
  /\ it \in 0 .. size
  /\ n \in 1 .. size + 1
  /\ rows \in SUBSET Rows

(***************************************************************************)
(* The answer is right whenever the window holds ANY row of the key, the    *)
(* last one included: the search scrolls back to the first occurrence, and  *)
(* a window that reaches one past the end cannot mislead it whatever value  *)
(* the read there yields.  Stronger than what callers are promised.         *)
(***************************************************************************)
Touched == Matching = {} \/ \E p \in start .. stop : p \in Matching

AnswerExact == pc = "done" /\ Touched => rows = Matching

(* The rows whose keys the next step reads.                                 *)
Reads ==
  CASE pc = "locate" -> IF n \div 2 = 0 THEN {} ELSE {it + n \div 2}
    [] pc = "scroll" -> (IF it > 0 THEN {it - 1} ELSE {})
                          \cup (IF CanScroll THEN {} ELSE {it})
    [] pc = "sum"    -> {it}
    [] OTHER         -> {}

(***************************************************************************)
(* No step reads further than one past the last row, and whether one reads  *)
(* there can be told from the call (see ReadsBehind): either the window      *)
(* reaches there, or the summation, which reads before it tests the bound,   *)
(* comes there because the rows of the key end the data.                     *)
(***************************************************************************)
ReadsInside == Reads \subseteq 0 .. size /\ (size \in Reads => ReadsBehind)

(***************************************************************************)
(* The search keeps the promise of LookupSpec; its steps before the return  *)
(* are stuttering steps there.                                              *)
(***************************************************************************)
Promise == INSTANCE LookupSpec WITH
             done <- pc = "done",
             rows <- IF pc = "done" THEN rows ELSE {}

PromisedSteps == Promise!Init /\ [][Promise!Next]_(Promise!vars)
=============================================================================
