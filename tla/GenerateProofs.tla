---------------------------- MODULE GenerateProofs ----------------------------
(***************************************************************************)
(* The answers that the workload generator writes down are right, for every   *)
(* dataset, number of lookups and limit, and it fails only for the reasons     *)
(* it has.                                                                  *)
(***************************************************************************)
EXTENDS Generate, Foundations

(* The dataset: rows 0 .. Size - 1, whose keys are numbers.                  *)
Dataset ==
  /\ Size \in Nat \ {0} /\ DOMAIN data = 0 .. Size - 1
  /\ \A p \in DOMAIN data : data[p] \in Nat

LEMMA DatasetOfRows ==
  ASSUME NEW n \in Nat \ {0}, data \in [0 .. n - 1 -> Keys]
  PROVE  Dataset
<1>1. DOMAIN data = 0 .. n - 1
  OBVIOUS
<1>2. Size = n
  BY <1>1, FS_Interval DEF Size
<1>3. \A p \in DOMAIN data : data[p] \in Nat
  BY GenerateAssumption
<1> QED
  BY <1>1, <1>2, <1>3 DEF Dataset

(***************************************************************************)
(* What the search of the generator sums up: all rows of the key if the first *)
(* of them is not behind `stop`, and none otherwise.                         *)
(***************************************************************************)
THEOREM FoundFromFirst ==
  ASSUME Dataset, Sorted, NEW key \in Int, NEW stop \in 0 .. Size
  PROVE  Found(key, stop) = IF \E p \in MatchingRows(key) : p <= stop
                            THEN MatchingRows(key) ELSE {}
<1> DEFINE first == At(key, 0, stop)!LowerBound(0, stop)
<1>1. Size \in Nat /\ stop \in Nat /\ stop <= Size /\ DOMAIN data = 0 .. Size - 1
      /\ \A p \in DOMAIN data : data[p] \in Nat
  BY DEF Dataset
<1>2. \E p \in 0 .. stop :
        /\ \A q \in 0 .. p - 1 : data[q] < key
        /\ p = stop \/ data[p] >= key
  <2>1. \A q \in 0 .. stop - 1 : data[q] \in Int
    BY <1>1
  <2>2. 0 \in Nat /\ 0 <= stop /\ stop \in Nat
    BY <1>1
  <2> QED
    BY <2>1, <2>2, LowerBoundExists, Zenon
<1>3. /\ first \in 0 .. stop
      /\ \A q \in 0 .. first - 1 : data[q] < key
      /\ first = stop \/ data[first] >= key
  <2>1. first = CHOOSE p \in 0 .. stop :
                  /\ \A q \in 0 .. p - 1 : data[q] < key
                  /\ p = stop \/ data[p] >= key
    BY <1>1 DEF At!LowerBound
  <2> HIDE DEF first
  <2> QED
    BY <1>2, <2>1
<1>4. Found(key, stop) = IF first < Size /\ data[first] = key
                         THEN {p \in MatchingRows(key) : p >= first} ELSE {}
  BY DEF Found
<1> HIDE DEF first
<1>5. \A p \in MatchingRows(key) : p \in 0 .. Size - 1 /\ data[p] = key /\ first <= p
  BY <1>1, <1>3 DEF MatchingRows
<1>6. CASE first < Size /\ data[first] = key
  <2>1. first \in MatchingRows(key) /\ first <= stop
    BY <1>1, <1>3, <1>6 DEF MatchingRows
  <2>2. {p \in MatchingRows(key) : p >= first} = MatchingRows(key)
    BY <1>3, <1>5
  <2> QED
    BY <1>4, <1>6, <2>1, <2>2
<1>7. CASE ~ (first < Size /\ data[first] = key)
  <2>1. ASSUME NEW p \in MatchingRows(key), p <= stop PROVE FALSE
    <3>1. p \in 0 .. Size - 1 /\ data[p] = key /\ first <= p /\ first \in DOMAIN data
          /\ p \in DOMAIN data
      BY <1>1, <1>3, <1>5
    <3>2. data[first] # key /\ data[first] <= data[p] /\ data[first] \in Nat
      BY <1>1, <1>3, <1>7, <3>1 DEF Sorted
    <3>3. first = stop
      BY <1>3, <3>1, <3>2
    <3>4. p = first
      BY <1>1, <2>1, <3>1, <3>3
    <3> QED
      BY <3>1, <3>2, <3>4
  <2> QED
    BY <1>4, <1>7, <2>1
<1> QED
  BY <1>6, <1>7

(* Searched to the end, the rows of the key.                                 *)
LEMMA FoundAll ==
  ASSUME Dataset, Sorted, NEW key \in Int
  PROVE  Found(key, Size) = MatchingRows(key)
<1>1. \A p \in MatchingRows(key) : p <= Size
  BY DEF MatchingRows, Dataset
<1>2. Size \in 0 .. Size
  BY DEF Dataset
<1> QED
  BY <1>1, <1>2, FoundFromFirst
-----------------------------------------------------------------------------
(* The invariant: which mode and what data a place in the program implies,    *)
(* and that the answers written down so far are right.                       *)
Answers == [key : Int, result : SUBSET Int]

Placed ==
  /\ pc \in {"main", "draw", "negative", "trace", "done", "failed", "undefined"}
  /\ pc \notin {"main", "failed"} => Sorted
  /\ pc \in {"draw", "negative", "failed"} /\ Sorted => mode = "random"
  /\ pc = "trace" => mode = "trace" /\ Len(trace) <= Size
  /\ mode \in {"random", "trace"}
  /\ mode = "trace" => trace \in Seq(Keys)

(* A retry in progress has met a key with too many rows.                     *)
Retried ==
  /\ num_retries \in Nat
  /\ num_retries > 0 \/ pc = "failed" =>
       ~Sorted \/ \E p \in DOMAIN data : Crowded(data[p])

IInv ==
  /\ Dataset /\ Placed /\ Retried
  /\ lookups \in Seq(Answers)
  /\ LookupsTrue /\ TraceRightIffReached

LEMMA InitInvariant == Init => IInv
<1> SUFFICES ASSUME Init PROVE IInv
  OBVIOUS
<1>1. Dataset
  BY DatasetOfRows, GenerateAssumption DEF Init
<1>2. Placed /\ Retried
  BY DEF Init, Placed, Retried
<1>3. lookups = <<>>
  BY DEF Init
<1>4. lookups \in Seq(Answers) /\ LookupsTrue /\ TraceRightIffReached
  BY <1>3 DEF LookupsTrue, TraceRightIffReached
<1> QED
  BY <1>1, <1>2, <1>4 DEF IInv

LEMMA InputFixed ==
  ASSUME [Next]_vars
  PROVE  /\ UNCHANGED input
         /\ Size' = Size /\ Sorted' = Sorted
         /\ Dataset => Dataset'
         /\ \A key : /\ MatchingRows(key)' = MatchingRows(key)
                     /\ Crowded(key)' = Crowded(key)
<1>1. UNCHANGED input
  BY DEF Next, Start, TurnNegative, DrawNegative, DrawPositive, TakeFromTrace, Finish,
         Terminated, vars, input
<1> QED
  BY <1>1 DEF input, Size, Sorted, Dataset, MatchingRows, Crowded

(* A right answer is added to right answers.                                 *)
LEMMA PushStep ==
  ASSUME IInv, [Next]_vars, NEW key \in Int, NEW result \in SUBSET Int,
         Push(key, result),
         mode = "random" =>
           IF MatchingRows(key) = {} THEN result = NotFound
           ELSE result = MatchingRows(key) /\ ~ Crowded(key),
         mode = "trace" =>
           result = IF \E p \in MatchingRows(key) : p <= Len(trace)
                    THEN MatchingRows(key) ELSE {}
  PROVE  lookups' \in Seq(Answers) /\ LookupsTrue' /\ TraceRightIffReached'
<1> DEFINE e == [key |-> key, result |-> result]
<1>1. e \in Answers /\ lookups \in Seq(Answers) /\ lookups' = Append(lookups, e)
  BY DEF Answers, IInv, Push
<1>2. /\ lookups' \in Seq(Answers)
      /\ DOMAIN lookups' = 1 .. Len(lookups) + 1
      /\ DOMAIN lookups = 1 .. Len(lookups)
      /\ \A i \in 1 .. Len(lookups) : lookups'[i] = lookups[i]
      /\ lookups'[Len(lookups) + 1] = e /\ Len(lookups) \in Nat
  <2> HIDE DEF e
  <2> QED
    BY <1>1
<1>3. \A i \in DOMAIN lookups' : (i \in DOMAIN lookups /\ lookups'[i] = lookups[i])
                                 \/ lookups'[i] = e
  <2> HIDE DEF e
  <2> QED
    BY <1>2
<1>4. e.key = key /\ e.result = result
  OBVIOUS
<1> HIDE DEF e
<1>5. LookupsTrue'
  <2> SUFFICES ASSUME mode = "random", NEW i \in DOMAIN lookups'
               PROVE  LET rows == MatchingRows(lookups'[i].key) IN
                      IF rows = {} THEN lookups'[i].result = NotFound
                      ELSE /\ lookups'[i].result = rows
                           /\ ~ (Cardinality(rows) > max_num_qualifying)
    BY InputFixed DEF LookupsTrue, input, NotFound
  <2>1. CASE i \in DOMAIN lookups /\ lookups'[i] = lookups[i]
    BY <2>1 DEF IInv, LookupsTrue
  <2>2. CASE lookups'[i] = e
    BY <1>4, <2>2 DEF Crowded
  <2> QED
    BY <1>3, <2>1, <2>2
<1>6. TraceRightIffReached'
  <2> SUFFICES ASSUME mode = "trace", NEW i \in DOMAIN lookups'
               PROVE  LET rows == MatchingRows(lookups'[i].key) IN
                      lookups'[i].result =
                        IF \E p \in rows : p <= Len(trace) THEN rows ELSE {}
    BY InputFixed DEF TraceRightIffReached, input
  <2>1. CASE i \in DOMAIN lookups /\ lookups'[i] = lookups[i]
    BY <2>1 DEF IInv, TraceRightIffReached
  <2>2. CASE lookups'[i] = e
    BY <1>4, <2>2
  <2> QED
    BY <1>3, <2>1, <2>2
<1> QED
  BY <1>2, <1>5, <1>6

(* And one that writes nothing down leaves them right.                       *)
LEMMA SilentStep ==
  ASSUME IInv, [Next]_vars, UNCHANGED lookups
  PROVE  lookups' \in Seq(Answers) /\ LookupsTrue' /\ TraceRightIffReached'
<1>1. mode' = mode /\ trace' = trace
  BY InputFixed DEF input
<1> QED
  BY <1>1, InputFixed DEF IInv, LookupsTrue, TraceRightIffReached, NotFound

(* The keys drawn at random are numbers.                                     *)
LEMMA DrawableNumbers == Dataset => Drawable \subseteq Int
<1>1. ASSUME NEW v \in Int PROVE Rounded(v) \subseteq Int
  BY GenerateAssumption DEF Rounded
<1> SUFFICES ASSUME Dataset, NEW k \in Drawable PROVE k \in Int
  OBVIOUS
<1>2. data[0] \in Int /\ data[Size - 1] \in Int
  BY DEF Dataset
<1>3. PICK f \in Rounded(data[0]), r \in 0 .. data[Size - 1] - data[0] :
        k \in Rounded(f + r)
  BY DEF Drawable
<1>4. f + r \in Int
  BY <1>1, <1>2, <1>3
<1> QED
  BY <1>1, <1>3, <1>4

LEMMA NextInvariant == IInv /\ [Next]_vars => IInv'
<1> SUFFICES ASSUME IInv, [Next]_vars PROVE IInv'
  OBVIOUS
<1>1. /\ Dataset /\ Dataset' /\ UNCHANGED input /\ Sorted' = Sorted /\ Size' = Size
      /\ mode' = mode /\ trace' = trace /\ data' = data
      /\ \A key : Crowded(key)' = Crowded(key)
  BY InputFixed DEF IInv, input
<1>2. (\E p \in DOMAIN data : Crowded(data[p]))' <=> \E p \in DOMAIN data : Crowded(data[p])
  BY <1>1
<1>3. ASSUME UNCHANGED lookups, Placed', Retried' PROVE IInv'
  BY <1>1, <1>3, SilentStep DEF IInv
<1>4. Placed /\ Retried
  BY DEF IInv
<1>5. CASE Start
  <2>1. UNCHANGED lookups /\ UNCHANGED num_retries
    BY <1>5 DEF Start
  <2>2. Placed'
    BY <1>1, <1>4, <1>5 DEF Start, Placed, Dataset
  <2>3. Retried'
    BY <1>1, <1>2, <1>4, <1>5 DEF Start, Retried
  <2> QED
    BY <1>3, <2>1, <2>2, <2>3
<1>6. CASE TurnNegative
  BY <1>1, <1>2, <1>3, <1>4, <1>6 DEF TurnNegative, Placed, Retried
<1>7. CASE DrawNegative
  <2>1. pc = "negative" /\ mode = "random" /\ Sorted /\ num_retries' = num_retries
        /\ pc' \in {"negative", "draw"}
    BY <1>4, <1>7 DEF DrawNegative, Placed
  <2>2. Placed' /\ Retried'
    BY <1>1, <1>2, <1>4, <2>1 DEF Placed, Retried
  <2>3. PICK key \in Drawable : IF Found(key, Size) = {}
                               THEN Push(key, NotFound)
                               ELSE UNCHANGED lookups
    BY <1>7 DEF DrawNegative
  <2>4. CASE Found(key, Size) = {}
    <3>1. key \in Int
      BY <1>1, DrawableNumbers
    <3>2. MatchingRows(key) = {} /\ NotFound \in SUBSET Int
      BY <1>1, <2>1, <2>4, <3>1, FoundAll DEF NotFound
    <3>3. lookups' \in Seq(Answers) /\ LookupsTrue' /\ TraceRightIffReached'
      BY <2>1, <2>3, <2>4, <3>1, <3>2, PushStep
    <3> QED
      BY <1>1, <2>2, <3>3 DEF IInv
  <2>5. CASE Found(key, Size) # {}
    BY <1>3, <2>2, <2>3, <2>5
  <2> QED
    BY <2>4, <2>5
<1>8. CASE DrawPositive
  <2>1. pc = "draw" /\ mode = "random" /\ Sorted
    BY <1>4, <1>8 DEF DrawPositive, Placed
  <2>2. PICK key \in {data[p] : p \in DOMAIN data} :
          IF TooMany(Found(key, Size))
          THEN /\ num_retries' = num_retries + 1
               /\ pc' = IF Exhausted(num_retries') THEN "failed" ELSE pc
               /\ UNCHANGED lookups
          ELSE Push(key, Found(key, Size)) /\ num_retries' = 0 /\ UNCHANGED pc
    BY <1>8 DEF DrawPositive
  <2>3. key \in Int /\ Found(key, Size) = MatchingRows(key) /\ MatchingRows(key) # {}
        /\ MatchingRows(key) \in SUBSET Int
    <3>1. PICK p \in DOMAIN data : key = data[p]
      BY <2>2
    <3>2. key \in Int /\ p \in MatchingRows(key)
      BY <1>1, <3>1 DEF Dataset, MatchingRows
    <3>3. MatchingRows(key) \in SUBSET Int
      BY <1>1 DEF Dataset, MatchingRows
    <3> QED
      BY <1>1, <2>1, <3>2, <3>3, FoundAll
  <2>4. CASE TooMany(Found(key, Size))
    <3>1. Crowded(key) /\ \E p \in DOMAIN data : Crowded(data[p])
      BY <2>2, <2>3, <2>4 DEF TooMany, Crowded
    <3>2. Retried'
      BY <1>2, <1>4, <2>2, <2>4, <3>1 DEF Retried
    <3>3. Placed'
      BY <1>1, <1>4, <2>1, <2>2, <2>4 DEF Placed
    <3> QED
      BY <1>3, <2>2, <2>4, <3>2, <3>3
  <2>5. CASE ~ TooMany(Found(key, Size))
    <3>1. Push(key, MatchingRows(key)) /\ num_retries' = 0 /\ pc' = pc
      BY <2>2, <2>3, <2>5
    <3>2. ~ Crowded(key)
      BY <2>3, <2>5 DEF TooMany, Crowded
    <3>3. lookups' \in Seq(Answers) /\ LookupsTrue' /\ TraceRightIffReached'
      BY <2>1, <2>3, <3>1, <3>2, PushStep
    <3>4. Placed' /\ Retried'
      BY <1>1, <1>2, <1>4, <2>1, <3>1 DEF Placed, Retried
    <3> QED
      BY <1>1, <3>3, <3>4 DEF IInv
  <2> QED
    BY <2>4, <2>5
<1>9. CASE TakeFromTrace
  <2>1. /\ pc = "trace" /\ mode = "trace" /\ Sorted /\ UNCHANGED <<pc, num_retries>>
        /\ trace \in Seq(Keys) /\ Len(trace) <= Size /\ Len(lookups) < Len(trace)
    BY <1>4, <1>9 DEF TakeFromTrace, Placed
  <2> DEFINE key == trace[Len(lookups) + 1]
  <2>2. key \in Int /\ Len(trace) \in 0 .. Size
    <3>1. Len(lookups) + 1 \in 1 .. Len(trace) /\ Len(trace) \in Nat
      BY <2>1 DEF IInv
    <3>2. key \in Keys
      BY <2>1, <3>1
    <3>3. Len(trace) \in 0 .. Size
      BY <1>1, <2>1, <3>1 DEF Dataset
    <3> HIDE DEF key
    <3> QED
      BY <3>2, <3>3, GenerateAssumption
  <2>3. Push(key, Found(key, Len(trace)))
    BY <1>9 DEF TakeFromTrace, TraceStop
  <2> HIDE DEF key
  <2>4. Found(key, Len(trace)) = IF \E p \in MatchingRows(key) : p <= Len(trace)
                                 THEN MatchingRows(key) ELSE {}
    BY <1>1, <2>1, <2>2, FoundFromFirst
  <2>5. Found(key, Len(trace)) \in SUBSET Int
    BY <1>1, <2>4 DEF MatchingRows, Dataset
  <2>6. lookups' \in Seq(Answers) /\ LookupsTrue' /\ TraceRightIffReached'
    BY <2>1, <2>2, <2>3, <2>4, <2>5, PushStep
  <2>7. Placed' /\ Retried'
    BY <1>1, <1>2, <1>4, <2>1 DEF Placed, Retried
  <2> QED
    BY <1>1, <2>6, <2>7 DEF IInv
<1>10. CASE Finish
  BY <1>1, <1>2, <1>3, <1>4, <1>10 DEF Finish, Placed, Retried
<1>11. CASE UNCHANGED vars
  BY <1>1, <1>2, <1>3, <1>4, <1>11 DEF vars, Placed, Retried
<1> QED
  BY <1>5, <1>6, <1>7, <1>8, <1>9, <1>10, <1>11 DEF Next, Terminated

LEMMA Invariant == Spec => []IInv
  BY InitInvariant, NextInvariant, PTL DEF Spec
-----------------------------------------------------------------------------
(***************************************************************************)
(* Every answer written down for a drawn lookup is that of the data.         *)
(***************************************************************************)
THEOREM AnswersAreTrue == Spec => []LookupsTrue
<1>1. IInv => LookupsTrue
  BY DEF IInv
<1> QED
  BY <1>1, Invariant, PTL

(***************************************************************************)
(* The answers to the lookups of a trace are right up to the row that the     *)
(* length of the trace names, and no further.                                *)
(***************************************************************************)
THEOREM TraceAnswers == Spec => []TraceRightIffReached
<1>1. IInv => TraceRightIffReached
  BY DEF IInv
<1> QED
  BY <1>1, Invariant, PTL

(***************************************************************************)
(* The generator fails only for unsorted or crowded data, and where all keys  *)
(* are crowded it writes down no lookup of any.                              *)
(***************************************************************************)
THEOREM FailsForAReason == Spec => []FailsOnlyIfCrowded
<1>1. IInv => FailsOnlyIfCrowded
  <2> SUFFICES ASSUME IInv PROVE FailsOnlyIfCrowded
    OBVIOUS
  <2>1. pc = "failed" => ~Sorted \/ \E p \in DOMAIN data : Crowded(data[p])
    BY DEF IInv, Retried
  <2>2. ASSUME mode = "random", \A p \in DOMAIN data : Crowded(data[p]),
               NEW i \in DOMAIN lookups
        PROVE  lookups[i].result = NotFound
    <3> DEFINE key == lookups[i].key
    <3>1. IF MatchingRows(key) = {} THEN lookups[i].result = NotFound
          ELSE ~ Crowded(key)
      BY <2>2 DEF IInv, LookupsTrue, Crowded
    <3>2. MatchingRows(key) # {} => \E p \in DOMAIN data : data[p] = key
      BY DEF MatchingRows
    <3> QED
      BY <2>2, <3>1, <3>2
  <2> QED
    BY <2>1, <2>2 DEF FailsOnlyIfCrowded
<1> QED
  BY <1>1, Invariant, PTL
=============================================================================
