----------------------------- MODULE SearchBase -----------------------------
(***************************************************************************)
(* What the searches of src/searches share: the call's arguments, the       *)
(* position they move, and the loop that ends each of them, which walks      *)
(* forward from the first occurrence and adds up the values.                 *)
(***************************************************************************)
EXTENDS Integers

CONSTANTS Keys, MaxRows

ASSUME KeysAssumption == Keys \subseteq Nat /\ Keys # {}
ASSUME MaxRowsAssumption == MaxRows \in Nat \ {0}

VARIABLES data, size, key, start, stop,   \* the arguments, never assigned
          pc,       \* "locate", "scroll", "sum" or "done"
          it,       \* the row the search is at
          rows      \* rows added to `result` so far

input == <<data, size, key, start, stop>>

Rows == 0 .. size - 1
Matching == {p \in Rows : data[p] = key}

(* Rows of the key in front of which there is none. *)
FirstMatch(p) == p \in Matching /\ \A q \in Matching : p <= q

(* The index's prediction holds the first occurrence of the key, if any.    *)
Covered ==
  Matching = {} \/ \E p \in start .. stop : FirstMatch(p)

(* Reading data[p].  One past the end lies memory the vector does not own:  *)
(* the read yields any value of the type.                                   *)
Peek(p) == IF p < size THEN {data[p]} ELSE Keys

Call ==
  /\ size \in 1 .. MaxRows
  /\ data \in [0 .. size - 1 -> Keys]
  /\ \A p, q \in Rows : p <= q => data[p] <= data[q]
  /\ key \in Keys
  /\ start \in 0 .. size - 1
  /\ stop \in start .. size

(* std::lower_bound over the rows first .. last - 1: `last` if all are less, *)
(* `first` if there are none.                                               *)
LowerBound(first, last) ==
  IF last < first THEN first
  ELSE CHOOSE p \in first .. last :
         /\ \A q \in first .. p - 1 : data[q] < key
         /\ p = last \/ data[p] >= key

(* When the branchless search reads the row behind the last: for a window that *)
(* ends there if no key in it is larger or only the last row is left of it, and *)
(* for one that holds a row of the key, if the rows of the key end the data.  *)
ReadsBehind ==
  \/ stop = size /\ (start >= size - 1 \/ data[size - 1] <= key)
  \/ size - 1 \in Matching /\ \E p \in start .. stop : p \in Matching

(* One turn of the summation loop, or its exit, where the loop tests the    *)
(* bound before it reads the row (all searches but the branchless one).     *)
AddRow ==
  /\ pc = "sum"
  /\ it < size
  /\ data[it] = key
  /\ rows' = rows \cup {it}
  /\ it' = it + 1
  /\ UNCHANGED <<input, pc>>

StopAdding ==
  /\ pc = "sum"
  /\ ~ (it < size /\ data[it] = key)
  /\ pc' = "done"
  /\ UNCHANGED <<input, it, rows>>

Sum == AddRow \/ StopAdding
=============================================================================
