----------------------------- MODULE LookupSpec -----------------------------
(***************************************************************************)
(* What Search::search of src/searches/search.h promises to its callers:   *)
(* given data sorted by key, a lookup key and the window start .. stop an   *)
(* index predicts, one call returns "the sum over all values with the       *)
(* given lookup key".  The sum is abstracted to the set of rows it adds up. *)
(*                                                                          *)
(* The promise depends on the prediction.  When the window holds the first  *)
(* row with the key (or no row has it) the answer is exact; otherwise a     *)
(* search may miss rows but never adds a row of another key.                *)
(***************************************************************************)
EXTENDS Integers

CONSTANTS Keys,      \* the values of KeyType
          MaxRows    \* bound on the number of rows of a dataset

VARIABLES data,      \* key of each row, rows are numbered from 0
          size,      \* data.size()
          key,       \* lookup_key
          start,     \* first row of the predicted window
          stop,      \* last row of it: every search also looks at `stop`
          done,      \* has the call returned?
          rows       \* the rows whose values the returned sum adds up

input == <<data, size, key, start, stop>>
vars == <<data, size, key, start, stop, done, rows>>

Rows == 0 .. size - 1

(* The rows a lookup is about. *)
Matching == {p \in Rows : data[p] = key}

(* Row p is the first occurrence of the lookup key. *)
FirstMatch(p) == p \in Matching /\ \A q \in Matching : p <= q

(* The prediction is good: the window holds the first occurrence, if any. *)
Covered ==
  Matching = {} \/ \E p \in start .. stop : FirstMatch(p)

(* A legal call: non-empty sorted data and a window inside it.  A stop of   *)
(* size is legal: "stop is exclusive" for the indexes that predict it.      *)
Call ==
  /\ size \in 1 .. MaxRows
  /\ data \in [0 .. size - 1 -> Keys]
  /\ \A p, q \in Rows : p <= q => data[p] <= data[q]
  /\ key \in Keys
  /\ start \in 0 .. size - 1
  /\ stop \in start .. size

Init == Call /\ done = FALSE /\ rows = {}

Return ==
  /\ ~done
  /\ done' = TRUE
  /\ rows' \in IF Covered THEN {Matching} ELSE SUBSET Matching
  /\ UNCHANGED input

Next == Return

Spec == Init /\ [][Next]_vars /\ WF_vars(Return)
=============================================================================
