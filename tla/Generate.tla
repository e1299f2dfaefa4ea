------------------------------ MODULE Generate ------------------------------
(***************************************************************************)
(* src/generate.cc: draws the lookups of a benchmark and the answers the      *)
(* benchmark checks against, or takes the lookups of a recorded trace.        *)
(*                                                                          *)
(* As elsewhere a result is the set of the rows summed up in it.             *)
(***************************************************************************)
EXTENDS Integers, Sequences, FiniteSets

CONSTANTS Keys,                 \* values of KeyType
          MaxRows,              \* bound on the rows of the dataset
          MaxLookups,           \* bound on the lookups
          max_num_qualifying,   \* 100 in the code
          max_num_retries,      \* 100 in the code
          Grain                 \* distance of two floats as large as the keys

ASSUME GenerateAssumption ==
  /\ Keys \subseteq Nat /\ Keys # {}
  /\ MaxRows \in Nat \ {0} /\ MaxLookups \in Nat
  /\ max_num_qualifying \in Nat /\ max_num_retries \in Nat
  /\ Grain \in Nat \ {0}

VARIABLES data,           \* key of each row, numbered from 0
          mode,           \* "random", or "trace" for a dataset named corp
          num_lookups,
          ratio,          \* is negative_lookup_ratio above 0?
          trace,          \* the keys of the trace
          pc,             \* "main", "draw", "negative", "trace", "done",
                          \* "failed" or "undefined"
          num_retries,
          lookups

input == <<data, mode, num_lookups, ratio, trace>>
vars == <<data, mode, num_lookups, ratio, trace, pc, num_retries, lookups>>

Size == Cardinality(DOMAIN data)
NotFound == {-1}              \* util::NOT_FOUND, no sum of rows

At(key, start, stop) == INSTANCE SearchBase WITH
                          size <- Size, it <- 0, rows <- {}

MatchingRows(key) == {p \in DOMAIN data : data[p] = key}

(* bbs.search(data, key, &nq, 0, stop): the rows that it sums up and counts.  *)
Found(key, stop) ==
  LET first == At(key, 0, stop)!LowerBound(0, stop)
  IN  IF first < Size /\ data[first] = key
      THEN {p \in MatchingRows(key) : p >= first} ELSE {}

Init ==
  /\ \E n \in 1 .. MaxRows : data \in [0 .. n - 1 -> Keys]
  /\ mode \in {"random", "trace"}
  /\ IF mode = "trace"
     THEN /\ \E n \in 0 .. MaxLookups : trace \in [1 .. n -> Keys]
          /\ num_lookups = Len(trace) /\ ratio = FALSE
     ELSE trace = <<>> /\ num_lookups \in 0 .. MaxLookups /\ ratio \in BOOLEAN
  /\ pc = "main" /\ num_retries = 0 /\ lookups = <<>>

Sorted == \A p, q \in DOMAIN data : p <= q => data[p] <= data[q]

(* main.  A trace longer than the data has std::lower_bound read beyond it.  *)
Start ==
  /\ pc = "main"
  /\ \/ ~Sorted /\ pc' = "failed"
     \/ Sorted /\ mode = "random" /\ pc' = "draw"
     \/ /\ Sorted /\ mode = "trace"
        /\ pc' = IF Len(trace) > Size THEN "undefined" ELSE "trace"
  /\ UNCHANGED <<input, num_retries, lookups>>

Push(key, result) ==
  lookups' = Append(lookups, [key |-> key, result |-> result])

(* The random number is compared with the ratio except during a retry.       *)
TurnNegative ==
  /\ pc = "draw" /\ Len(lookups) < num_lookups
  /\ num_retries = 0 /\ ratio
  /\ pc' = "negative"
  /\ UNCHANGED <<input, num_retries, lookups>>

(* The floats next to v.                                                     *)
Rounded(v) ==
  {f \in {(v \div Grain) * Grain, (v \div Grain + 1) * Grain} :
     2 * (f - v) <= Grain /\ 2 * (v - f) <= Grain}

(* (ranny.ScaleFactor() * (max_key - min_key)) + min_key is computed in       *)
(* floats: min_key is rounded to one, and then the sum.  The product is       *)
(* taken as exact: the domain is small against the keys in it.              *)
Drawable ==
  LET min == data[0]
      max == data[Size - 1]
  IN  UNION {Rounded(f + r) : f \in Rounded(min), r \in 0 .. max - min}

NegativeUnchecked ==
  /\ pc = "negative"
  /\ \E key \in Drawable :
       Push(key, NotFound) /\ pc' = "draw"
  /\ UNCHANGED <<input, num_retries>>

(* One turn of the loop that draws keys until one is not in the data.        *)
DrawNegative ==
  /\ pc = "negative"
  /\ \E key \in Drawable :
       IF Found(key, Size) = {}
       THEN Push(key, NotFound) /\ pc' = "draw"
       ELSE UNCHANGED <<lookups, pc>>
  /\ UNCHANGED <<input, num_retries>>

TooManyOrAsMany(rows) == Cardinality(rows) >= max_num_qualifying

TooMany(rows) == Cardinality(rows) > max_num_qualifying

Exhausted(retries) == retries > max_num_retries

DrawPositiveUncounted ==
  /\ pc = "draw" /\ Len(lookups) < num_lookups
  /\ \E key \in {data[p] : p \in DOMAIN data} :
       LET rows == Found(key, Size) IN
       IF TooMany(rows)
       THEN UNCHANGED <<lookups, pc, num_retries>>
       ELSE Push(key, rows) /\ num_retries' = 0 /\ UNCHANGED pc
  /\ UNCHANGED input

(* A lookup of a key of the data, or a retry, of which there are not many in  *)
(* a row.                                                                   *)
DrawPositive ==
  /\ pc = "draw" /\ Len(lookups) < num_lookups
  /\ \E key \in {data[p] : p \in DOMAIN data} :
       LET rows == Found(key, Size) IN
       IF TooMany(rows)
       THEN /\ num_retries' = num_retries + 1
            /\ pc' = IF Exhausted(num_retries') THEN "failed" ELSE pc
            /\ UNCHANGED lookups
       ELSE Push(key, rows) /\ num_retries' = 0 /\ UNCHANGED pc
  /\ UNCHANGED input

TraceStopLess == IF Len(trace) = 0 THEN 0 ELSE Len(trace) - 1

(* How far the search for a key of a trace goes: keys.size(), where the       *)
(* other searches of the file have data.size().                             *)
TraceStop == Len(trace)

TakeFromTrace ==
  /\ pc = "trace" /\ Len(lookups) < Len(trace)
  /\ LET key == trace[Len(lookups) + 1] IN Push(key, Found(key, TraceStop))
  /\ UNCHANGED <<input, pc, num_retries>>

Finish ==
  /\ pc \in {"draw", "trace"} /\ Len(lookups) >= num_lookups
  /\ pc' = "done"
  /\ UNCHANGED <<input, num_retries, lookups>>

Over == pc \in {"done", "failed", "undefined"}

Terminated == Over /\ UNCHANGED vars

Next ==
  \/ Start \/ TurnNegative \/ DrawNegative \/ DrawPositive
  \/ TakeFromTrace \/ Finish \/ Terminated

(* A draw that hits the data again leaves no trace in the state, so fairness *)
(* says that some draw misses it, if there is one that can.                 *)
Spec == Init /\ [][Next]_vars /\ WF_vars(Next)
-----------------------------------------------------------------------------
(***************************************************************************)
(* The answers written down for drawn lookups are those of the data: not      *)
(* found where the key is absent, else all of its rows, and not too many.    *)
(***************************************************************************)
LookupsTrue ==
  mode = "random" =>
    \A i \in DOMAIN lookups :
      LET rows == MatchingRows(lookups[i].key) IN
      IF rows = {} THEN lookups[i].result = NotFound
      ELSE lookups[i].result = rows /\ ~ (Cardinality(rows) > max_num_qualifying)

(***************************************************************************)
(* The generator gives up only on datasets that are unsorted or have a key    *)
(* with too many rows; if no key has as few as allowed it never gets through  *)
(* with a lookup of a key of the data.                                      *)
(***************************************************************************)
Crowded(key) == Cardinality(MatchingRows(key)) > max_num_qualifying

FailsOnlyIfCrowded ==
  /\ pc = "failed" => ~Sorted \/ \E p \in DOMAIN data : Crowded(data[p])
  /\ mode = "random" /\ pc = "done" /\ (\A p \in DOMAIN data : Crowded(data[p])) =>
       \A i \in DOMAIN lookups : lookups[i].result = NotFound

(***************************************************************************)
(* The answer to a lookup of a trace is all rows of the key exactly if the    *)
(* first of them is no further back than the trace is long; otherwise the    *)
(* key counts as absent.  (Nothing makes a trace as long as the data.)        *)
(***************************************************************************)
TraceRightIffReached ==
  mode = "trace" =>
    \A i \in DOMAIN lookups :
      LET rows == MatchingRows(lookups[i].key) IN
      lookups[i].result =
        IF \E p \in rows : p <= Len(trace) THEN rows ELSE {}

(***************************************************************************)
(* The generator ends, or draws negative lookups for ever because every key   *)
(* that it can draw is in the data.                                         *)
(***************************************************************************)
EndsUnlessDense ==
  <>Over \/ <>[](pc = "negative" /\ Drawable \subseteq {data[p] : p \in DOMAIN data})
=============================================================================
