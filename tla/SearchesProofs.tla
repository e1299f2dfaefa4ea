--------------------------- MODULE SearchesProofs ---------------------------
(***************************************************************************)
(* Whichever search a caller has chosen, it keeps the promise of LookupSpec,  *)
(* for every dataset, key and window.  First the branchless search by itself; *)
(* then the other two, which are shown to add up the run of the key that      *)
(* starts where std::lower_bound gets to.                                   *)
(***************************************************************************)
EXTENDS Searches, Foundations

(* The halving loop keeps what it still has to look at inside the window,   *)
(* has only larger keys to the right of that, and once it has moved stands  *)
(* on a key no larger than the lookup key.  The exception is a window of    *)
(* the last row and the place past it, where the read past the end decides. *)
Halving ==
  pc = "locate" =>
    /\ start <= it
    /\ it + n - 1 <= stop
    /\ \A p \in Branchless!Rows : it + n <= p /\ p <= stop => key < data[p]
    /\ \/ it = start
       \/ \A p \in Branchless!Rows : p <= it => data[p] <= key
       \/ it = size /\ start = size - 1

(* After it, if the window held any row of the key, the search stands on     *)
(* one, or one past the end behind one.                                      *)
Scrolling ==
  pc = "scroll" /\ Branchless!Touched /\ Branchless!Matching # {} =>
    IF it < size THEN data[it] = key ELSE data[size - 1] = key

(* The rows added are those of the key in front of `it`, which stands on or  *)
(* behind one.  It may start past the end only if the window held none.      *)
AddingBehind ==
  pc = "sum" =>
    /\ \/ rows = {p \in Branchless!Matching : p < it}
       \/ it = size /\ ~Branchless!Touched
    /\ it < size => data[it] = key \/ (it > 0 /\ data[it - 1] = key)

(* Once the halving is done the search stands past the end, or is to get     *)
(* there by adding up the rows of the key, only as ReadsBehind has it.       *)
Reaching ==
  /\ pc \in {"scroll", "sum"} /\ it = size => Branchless!ReadsBehind
  /\ pc = "scroll" /\ it < size /\ data[it] = key /\ data[size - 1] = key =>
       Branchless!ReadsBehind
  /\ pc = "sum" /\ data[size - 1] = key => Branchless!ReadsBehind

Collected ==
  /\ rows \subseteq Branchless!Matching
  /\ pc \in {"locate", "scroll"} => rows = {}
  /\ pc = "done" /\ Branchless!Touched => rows = Branchless!Matching

BranchlessInv ==
  /\ Branchless!TypeOK
  /\ Halving /\ Scrolling /\ AddingBehind /\ Reaching /\ Collected

USE KeysAssumption, MaxRowsAssumption

LEMMA InitInvariant == Branchless!Init => BranchlessInv
<1> SUFFICES ASSUME Branchless!Init PROVE BranchlessInv
  OBVIOUS
<1>1. Branchless!TypeOK
  BY DEF Branchless!Init, Branchless!Call, Branchless!TypeOK, Branchless!Rows
<1>2. Halving
  BY DEF Branchless!Init, Branchless!Call, Halving, Branchless!Rows
<1>3. Scrolling /\ AddingBehind /\ Reaching /\ Collected
  BY DEF Branchless!Init, Scrolling, AddingBehind, Reaching, Collected
<1> QED
  BY <1>1, <1>2, <1>3 DEF BranchlessInv

(* What every step leaves alone.                                            *)
LEMMA InputsFixed ==
  ASSUME [Branchless!Next]_(Branchless!vars)
  PROVE  /\ UNCHANGED Branchless!input
         /\ Branchless!Rows' = Branchless!Rows
         /\ Branchless!Matching' = Branchless!Matching
         /\ Branchless!Touched' = Branchless!Touched
         /\ Branchless!ReadsBehind' = Branchless!ReadsBehind
         /\ Branchless!Call => Branchless!Call'
<1>1. UNCHANGED Branchless!input
  BY DEF Branchless!Next, Branchless!vars, Branchless!input, Branchless!Halve,
         Branchless!StopHalving, Branchless!ScrollBack, Branchless!Check,
         Branchless!AddNext, Branchless!StopAtOther, Branchless!Terminated
<1> QED
  BY <1>1
     DEF Branchless!input, Branchless!Rows, Branchless!Matching,
         Branchless!Touched, Branchless!ReadsBehind, Branchless!Call

(* The type invariant in the form the arithmetic needs.                     *)
BranchlessTyped ==
  /\ size \in Nat \ {0} /\ start \in 0 .. size - 1 /\ stop \in start .. size
  /\ n \in 1 .. size + 1 /\ it \in 0 .. size /\ key \in Nat
  /\ \A p \in Branchless!Rows : data[p] \in Nat
  /\ \A p, q \in Branchless!Rows : p <= q => data[p] <= data[q]

LEMMA TypedValues == BranchlessInv => BranchlessTyped
<1>1. SUFFICES ASSUME Branchless!TypeOK PROVE BranchlessTyped
  BY DEF BranchlessInv
<1>2. /\ size \in Nat \ {0} /\ start \in 0 .. size - 1 /\ stop \in start .. size
      /\ n \in 1 .. size + 1 /\ it \in 0 .. size /\ key \in Nat
  BY <1>1 DEF Branchless!TypeOK, Branchless!Call
<1>3. \A p \in Branchless!Rows : data[p] \in Keys
  BY <1>1 DEF Branchless!TypeOK, Branchless!Call, Branchless!Rows
<1>4. \A p \in Branchless!Rows : data[p] \in Nat
  BY <1>3
<1>5. \A p, q \in Branchless!Rows : p <= q => data[p] <= data[q]
  BY <1>1 DEF Branchless!TypeOK, Branchless!Call
<1> QED
  BY <1>2, <1>4, <1>5 DEF BranchlessTyped

LEMMA HalveStep ==
  ASSUME BranchlessInv, Branchless!Halve
  PROVE  BranchlessInv'
<1> DEFINE half == n \div 2
<1>0. [Branchless!Next]_(Branchless!vars)
  BY DEF Branchless!Halve, Branchless!Next
<1>1. PICK k \in Branchless!Peek(it + half) :
        /\ it' = IF k <= key THEN it + half ELSE it
        /\ n' = n - half
  BY DEF Branchless!Halve
<1>2. /\ pc = "locate" /\ pc' = "locate" /\ rows' = rows
      /\ UNCHANGED Branchless!input
  BY DEF Branchless!Halve
<1>3. BranchlessTyped
  BY TypedValues
<1>4. half \in Nat /\ half >= 1 /\ 2 * half <= n /\ n <= 2 * half + 1
  BY <1>3 DEF Branchless!Halve, BranchlessTyped
<1>5. it + half <= stop
  BY <1>2, <1>3, <1>4 DEF BranchlessInv, Halving, BranchlessTyped
<1>6. it + half < size => k = data[it + half]
  BY <1>1 DEF Branchless!Peek
<1>7. it + half = size => n = 2 /\ it = size - 1
  BY <1>2, <1>3, <1>4 DEF BranchlessInv, Halving, BranchlessTyped
<1>8. Branchless!TypeOK'
  <2> HIDE DEF half
  <2>1. it' \in 0 .. size /\ n' \in 1 .. size + 1
    BY <1>1, <1>3, <1>4, <1>5 DEF BranchlessTyped
  <2> QED
    BY <1>0, <1>2, <2>1, InputsFixed
       DEF BranchlessInv, Branchless!TypeOK, Branchless!input
<1>9. Halving'
  <2> HIDE DEF half
  <2>1. start <= it' /\ it' + n' - 1 <= stop
    BY <1>1, <1>2, <1>3, <1>4 DEF BranchlessInv, Halving, BranchlessTyped
  <2>2. ASSUME NEW p \in Branchless!Rows, it' + n' <= p, p <= stop
        PROVE  key < data[p]
    <3>1. CASE k <= key
      BY <1>1, <1>2, <1>3, <1>4, <2>2, <3>1
         DEF BranchlessInv, Halving, Branchless!Rows, BranchlessTyped
    <3>2. CASE ~(k <= key)
      <4>1. it + half <= p
        BY <1>1, <1>3, <1>4, <2>2, <3>2 DEF Branchless!Rows, BranchlessTyped
      <4>2. it + half \in Branchless!Rows /\ data[it + half] <= data[p]
        BY <1>3, <1>4, <4>1 DEF Branchless!Rows, BranchlessTyped
      <4>3. k = data[it + half]
        BY <1>3, <1>6, <4>2 DEF Branchless!Rows, BranchlessTyped
      <4> QED
        BY <1>3, <3>2, <4>2, <4>3 DEF BranchlessTyped
    <3> QED BY <3>1, <3>2
  <2>3. \/ it' = start
        \/ \A p \in Branchless!Rows : p <= it' => data[p] <= key
        \/ it' = size /\ start = size - 1
    <3>1. CASE ~(k <= key)
      BY <1>1, <1>2, <3>1 DEF BranchlessInv, Halving
    <3>2. CASE k <= key /\ it + half < size
      <4>1. it + half \in Branchless!Rows /\ data[it + half] <= key
        BY <1>3, <1>4, <1>6, <3>2 DEF Branchless!Rows, BranchlessTyped
      <4>2. \A p \in Branchless!Rows : p <= it + half => data[p] <= data[it + half]
        BY <1>3, <4>1 DEF BranchlessTyped
      <4>3. \A p \in Branchless!Rows : p <= it + half => data[p] <= key
        BY <1>3, <4>1, <4>2 DEF BranchlessTyped
      <4> QED
        BY <1>1, <3>2, <4>3
    <3>3. CASE k <= key /\ it + half = size
      <4>1. it' = size /\ it = size - 1
        BY <1>1, <1>7, <3>3
      <4>2. (\A p \in Branchless!Rows : p <= it => data[p] <= key)
              => \A p \in Branchless!Rows : p <= it' => data[p] <= key
        BY <1>3, <4>1 DEF Branchless!Rows, BranchlessTyped
      <4> QED
        BY <1>2, <1>3, <4>1, <4>2 DEF BranchlessInv, Halving, BranchlessTyped
    <3> QED
      BY <1>3, <1>4, <1>5, <3>1, <3>2, <3>3 DEF BranchlessTyped
  <2> QED
    BY <1>0, <1>2, <2>1, <2>2, <2>3, InputsFixed DEF Halving, Branchless!input
<1>10. Scrolling' /\ AddingBehind' /\ Reaching' /\ Collected'
  BY <1>0, <1>2, InputsFixed DEF BranchlessInv, Scrolling, AddingBehind,
                                 Reaching, Collected
<1> QED
  BY <1>8, <1>9, <1>10 DEF BranchlessInv

LEMMA StopHalvingStep ==
  ASSUME BranchlessInv, Branchless!StopHalving
  PROVE  BranchlessInv'
<1>0. [Branchless!Next]_(Branchless!vars)
  BY DEF Branchless!StopHalving, Branchless!Next
<1>1. /\ pc = "locate" /\ pc' = "scroll" /\ n \div 2 = 0
      /\ it' = it /\ rows' = rows /\ n' = n /\ UNCHANGED Branchless!input
  BY DEF Branchless!StopHalving
<1>2. BranchlessTyped
  BY TypedValues
<1>3. n = 1
  BY <1>1, <1>2 DEF BranchlessTyped
<1>4. Branchless!TypeOK'
  BY <1>0, <1>1, InputsFixed DEF BranchlessInv, Branchless!TypeOK,
                                 Branchless!input
<1>5. ASSUME Branchless!Touched, Branchless!Matching # {}
      PROVE  IF it < size THEN data[it] = key ELSE data[size - 1] = key
  <2>1. PICK p \in Branchless!Rows : data[p] = key /\ start <= p /\ p <= stop
    BY <1>5 DEF Branchless!Touched, Branchless!Matching
  <2>2. p <= it
    BY <1>1, <1>2, <1>3, <2>1
       DEF BranchlessInv, Halving, Branchless!Rows, BranchlessTyped
  <2>3. CASE it = start
    BY <1>2, <2>1, <2>2, <2>3 DEF Branchless!Rows, BranchlessTyped
  <2>4. CASE \A q \in Branchless!Rows : q <= it => data[q] <= key
    <3> DEFINE last == IF it < size THEN it ELSE size - 1
    <3>1. last \in Branchless!Rows /\ p <= last /\ last <= it
      BY <1>2, <2>1, <2>2 DEF Branchless!Rows, BranchlessTyped
    <3>2. data[last] <= key /\ data[p] <= data[last] /\ data[last] \in Nat
      BY <1>2, <2>1, <2>4, <3>1 DEF BranchlessTyped
    <3>3. data[last] = key
      BY <1>2, <2>1, <3>2 DEF BranchlessTyped
    <3> QED
      BY <3>3
  <2>5. CASE it = size /\ start = size - 1
    BY <1>2, <2>1, <2>5 DEF Branchless!Rows, BranchlessTyped
  <2> QED
    BY <1>1, <2>3, <2>4, <2>5 DEF BranchlessInv, Halving
<1>6. Scrolling'
  BY <1>0, <1>1, <1>5, InputsFixed DEF Scrolling, Branchless!input
<1>7. Halving' /\ AddingBehind' /\ Collected'
  BY <1>0, <1>1, InputsFixed DEF BranchlessInv, Halving, AddingBehind, Collected
<1>8. Reaching'
  <2>1. it <= stop /\ start <= it
    BY <1>1, <1>2, <1>3 DEF BranchlessInv, Halving, BranchlessTyped
  <2>2. ASSUME it = size PROVE Branchless!ReadsBehind
    <3>1. stop = size /\ it # start /\ size - 1 \in Branchless!Rows /\ size - 1 <= it
      BY <1>2, <2>1, <2>2 DEF BranchlessTyped, Branchless!Rows
    <3>2. data[size - 1] <= key \/ start = size - 1
      BY <1>1, <3>1 DEF BranchlessInv, Halving
    <3>3. start = size - 1 => start >= size - 1
      BY <1>2 DEF BranchlessTyped
    <3> QED
      BY <3>1, <3>2, <3>3 DEF Branchless!ReadsBehind
  <2>3. ASSUME it < size, data[it] = key, data[size - 1] = key
        PROVE  Branchless!ReadsBehind
    <3>1. it \in Branchless!Matching /\ it \in start .. stop
      BY <1>2, <2>1, <2>3 DEF BranchlessTyped, Branchless!Matching, Branchless!Rows
    <3>2. size - 1 \in Branchless!Matching
      BY <1>2, <2>3 DEF BranchlessTyped, Branchless!Matching, Branchless!Rows
    <3> QED
      BY <3>1, <3>2 DEF Branchless!ReadsBehind
  <2> QED
    BY <1>0, <1>1, <2>2, <2>3, InputsFixed DEF Reaching, Branchless!input
<1> QED
  BY <1>4, <1>6, <1>7, <1>8 DEF BranchlessInv

LEMMA ScrollBackStep ==
  ASSUME BranchlessInv, Branchless!ScrollBack
  PROVE  BranchlessInv'
<1>0. [Branchless!Next]_(Branchless!vars)
  BY DEF Branchless!ScrollBack, Branchless!Next
<1>1. /\ pc = "scroll" /\ pc' = "scroll" /\ it > 0 /\ data[it - 1] = key
      /\ it' = it - 1 /\ rows' = rows /\ n' = n /\ UNCHANGED Branchless!input
  BY DEF Branchless!ScrollBack, Branchless!CanScroll
<1>2. BranchlessTyped
  BY TypedValues
<1>3. Branchless!TypeOK'
  BY <1>0, <1>1, <1>2, InputsFixed
     DEF BranchlessInv, Branchless!TypeOK, BranchlessTyped, Branchless!input
<1>4. Scrolling'
  BY <1>1, <1>2 DEF Scrolling, BranchlessTyped, Branchless!input
<1>5. Halving' /\ AddingBehind' /\ Collected'
  BY <1>0, <1>1, InputsFixed DEF BranchlessInv, Halving, AddingBehind, Collected
<1>6. Reaching'
  <2>1. ASSUME data[size - 1] = key PROVE Branchless!ReadsBehind
    <3>1. CASE it = size
      BY <1>1, <3>1 DEF BranchlessInv, Reaching
    <3>2. CASE it < size
      <4>1. /\ it - 1 \in Branchless!Rows /\ it \in Branchless!Rows
            /\ size - 1 \in Branchless!Rows /\ it - 1 <= it /\ it <= size - 1
        BY <1>1, <1>2, <3>2 DEF BranchlessTyped, Branchless!Rows
      <4>2. data[it - 1] <= data[it] /\ data[it] <= data[size - 1]
        BY <1>2, <4>1 DEF BranchlessTyped
      <4>3. data[it] = key
        BY <1>1, <1>2, <2>1, <4>1, <4>2 DEF BranchlessTyped
      <4> QED
        BY <1>1, <2>1, <3>2, <4>3 DEF BranchlessInv, Reaching
    <3> QED
      BY <1>2, <3>1, <3>2 DEF BranchlessTyped
  <2>2. it' # size'
    BY <1>1, <1>2 DEF BranchlessTyped, Branchless!input
  <2> QED
    BY <1>0, <1>1, <2>1, <2>2, InputsFixed DEF Reaching, Branchless!input
<1> QED
  BY <1>3, <1>4, <1>5, <1>6 DEF BranchlessInv

LEMMA GiveUpStep ==
  ASSUME BranchlessInv, Branchless!Check
  PROVE  BranchlessInv'
<1>0. [Branchless!Next]_(Branchless!vars)
  BY DEF Branchless!Check, Branchless!Next
<1>1. /\ pc = "scroll" /\ ~Branchless!CanScroll
      /\ it' = it /\ rows' = rows /\ n' = n /\ UNCHANGED Branchless!input
  BY DEF Branchless!Check
<1>2. PICK k \in Branchless!Peek(it) : pc' = IF k = key THEN "sum" ELSE "done"
  BY DEF Branchless!Check
<1>3. BranchlessTyped /\ rows = {}
  BY <1>1, TypedValues DEF BranchlessInv, Collected
<1>4. Branchless!TypeOK'
  BY <1>0, <1>1, <1>2, InputsFixed
     DEF BranchlessInv, Branchless!TypeOK, Branchless!input
(* With nothing to scroll back to, a row of the key is the first.            *)
<1>5. ASSUME it < size, data[it] = key
      PROVE  {p \in Branchless!Matching : p < it} = {}
  <2> SUFFICES ASSUME NEW p \in Branchless!Rows, data[p] = key, p < it
               PROVE  FALSE
    BY DEF Branchless!Matching
  <2>1. it - 1 \in Branchless!Rows /\ p <= it - 1 /\ it \in Branchless!Rows
    BY <1>3, <1>5 DEF BranchlessTyped, Branchless!Rows
  <2>2. data[p] <= data[it - 1] /\ data[it - 1] <= data[it]
    BY <1>3, <2>1 DEF BranchlessTyped
  <2>3. data[it - 1] = key
    BY <1>3, <1>5, <2>1, <2>2 DEF BranchlessTyped
  <2> QED
    BY <1>1, <1>3, <2>1, <2>3
       DEF Branchless!CanScroll, BranchlessTyped, Branchless!Rows
<1>6. Reaching'
  <2>1. it = size => Branchless!ReadsBehind
    BY <1>1 DEF BranchlessInv, Reaching
  <2>2. ASSUME it < size, pc' = "sum" PROVE data[it] = key
    BY <1>2, <2>2 DEF Branchless!Peek
  <2>3. pc' = "sum" /\ data[size - 1] = key => Branchless!ReadsBehind
    BY <1>1, <1>3, <2>1, <2>2 DEF BranchlessInv, Reaching, BranchlessTyped
  <2>4. pc' # "scroll"
    BY <1>2
  <2> QED
    BY <1>0, <1>1, <2>1, <2>3, <2>4, InputsFixed DEF Reaching, Branchless!input
<1>7. CASE it < size
  <2>1. pc' = IF data[it] = key THEN "sum" ELSE "done"
    BY <1>2, <1>7 DEF Branchless!Peek
  <2>2. AddingBehind'
    BY <1>0, <1>1, <1>3, <1>5, <1>7, <2>1, InputsFixed
       DEF AddingBehind, Branchless!input
  <2>3. pc' = "done" /\ Branchless!Touched => rows' = Branchless!Matching'
    BY <1>0, <1>1, <1>3, <1>7, <2>1, InputsFixed DEF BranchlessInv, Scrolling
  <2> QED
    BY <1>0, <1>1, <1>3, <1>4, <1>6, <2>1, <2>2, <2>3, InputsFixed
       DEF BranchlessInv, Halving, Scrolling, Collected
<1>8. CASE it = size
  <2>1. Branchless!Touched => Branchless!Matching = {}
    BY <1>1, <1>3, <1>8
       DEF BranchlessInv, Scrolling, Branchless!CanScroll, BranchlessTyped
  <2>2. AddingBehind'
    BY <1>0, <1>1, <1>2, <1>3, <1>8, <2>1, InputsFixed
       DEF AddingBehind, BranchlessTyped, Branchless!input
  <2> QED
    BY <1>0, <1>1, <1>2, <1>3, <1>4, <1>6, <2>1, <2>2, InputsFixed
       DEF BranchlessInv, Halving, Scrolling, Collected
<1> QED
  BY <1>3, <1>7, <1>8 DEF BranchlessTyped

LEMMA AddNextStep ==
  ASSUME BranchlessInv, Branchless!AddNext
  PROVE  BranchlessInv'
<1>0. [Branchless!Next]_(Branchless!vars)
  BY DEF Branchless!Next
<1>1. /\ pc = "sum" /\ pc' = "sum" /\ it < size /\ data[it] = key
      /\ it' = it + 1 /\ rows' = rows \cup {it} /\ n' = n
      /\ UNCHANGED Branchless!input
  BY DEF Branchless!AddNext, Branchless!Peek
<1>2. BranchlessTyped /\ it \in Branchless!Matching
  BY <1>1, TypedValues DEF BranchlessTyped, Branchless!Matching, Branchless!Rows
<1>3. Branchless!TypeOK'
  BY <1>0, <1>1, <1>2, InputsFixed
     DEF BranchlessInv, Branchless!TypeOK, Branchless!Matching, BranchlessTyped,
         Branchless!input
<1>4. rows = {p \in Branchless!Matching : p < it}
  BY <1>1, <1>2 DEF BranchlessInv, AddingBehind, BranchlessTyped
<1>5. rows' = {p \in Branchless!Matching : p < it'}
  BY <1>1, <1>2, <1>4 DEF Branchless!Matching, Branchless!Rows, BranchlessTyped
<1>6. AddingBehind'
  BY <1>0, <1>1, <1>2, <1>5, InputsFixed
     DEF AddingBehind, BranchlessTyped, Branchless!input
<1>7. Halving' /\ Scrolling' /\ Collected'
  BY <1>0, <1>1, <1>2, InputsFixed DEF BranchlessInv, Halving, Scrolling,
                                       Collected
<1>8. Reaching'
  <2>1. it' = size => size - 1 = it
    BY <1>1, <1>2 DEF BranchlessTyped
  <2>2. data[size - 1] = key => Branchless!ReadsBehind
    BY <1>1 DEF BranchlessInv, Reaching
  <2>3. it' = size => Branchless!ReadsBehind
    BY <1>1, <2>1, <2>2
  <2> QED
    BY <1>0, <1>1, <2>2, <2>3, InputsFixed DEF Reaching, Branchless!input
<1> QED
  BY <1>3, <1>6, <1>7, <1>8 DEF BranchlessInv

LEMMA StopAtOtherStep ==
  ASSUME BranchlessInv, Branchless!StopAtOther
  PROVE  BranchlessInv'
<1>0. [Branchless!Next]_(Branchless!vars)
  BY DEF Branchless!Next
<1>1. /\ pc = "sum" /\ pc' = "done" /\ ~ (it < size /\ data[it] = key)
      /\ it' = it /\ rows' = rows /\ n' = n /\ UNCHANGED Branchless!input
  BY DEF Branchless!StopAtOther, Branchless!Peek
<1>2. BranchlessTyped
  BY TypedValues
<1>3. Branchless!TypeOK'
  BY <1>0, <1>1, InputsFixed DEF BranchlessInv, Branchless!TypeOK,
                                 Branchless!input
<1>4. ASSUME Branchless!Touched PROVE rows = Branchless!Matching
  <2>1. CASE it < size
    (* Behind a row of the key stands one of another key: the run is over. *)
    <3>1. it \in Branchless!Rows /\ it - 1 \in Branchless!Rows /\ data[it - 1] = key
      BY <1>1, <1>2, <2>1
         DEF BranchlessInv, AddingBehind, BranchlessTyped, Branchless!Rows
    <3>2. data[it] # key /\ data[it - 1] <= data[it]
      BY <1>1, <1>2, <2>1, <3>1 DEF BranchlessTyped, Branchless!Rows
    <3>3. ASSUME NEW p \in Branchless!Rows, data[p] = key PROVE p < it
      BY <1>2, <3>1, <3>2, <3>3 DEF BranchlessTyped, Branchless!Rows
    <3>4. rows = {p \in Branchless!Matching : p < it}
      BY <1>1, <1>2, <2>1 DEF BranchlessInv, AddingBehind, BranchlessTyped
    <3> QED
      BY <3>3, <3>4 DEF Branchless!Matching
  <2>2. CASE it = size
    <3>1. rows = {p \in Branchless!Matching : p < it}
      BY <1>1, <1>4 DEF BranchlessInv, AddingBehind
    <3> QED
      BY <1>2, <2>2, <3>1 DEF Branchless!Matching, Branchless!Rows,
                              BranchlessTyped
  <2> QED
    BY <1>2, <2>1, <2>2 DEF BranchlessTyped
<1>5. Halving' /\ Scrolling' /\ AddingBehind' /\ Reaching' /\ Collected'
  BY <1>0, <1>1, <1>4, InputsFixed
     DEF BranchlessInv, Halving, Scrolling, AddingBehind, Reaching, Collected
<1> QED
  BY <1>3, <1>5 DEF BranchlessInv

LEMMA NextInvariant ==
  BranchlessInv /\ [Branchless!Next]_(Branchless!vars) => BranchlessInv'
<1> SUFFICES ASSUME BranchlessInv, [Branchless!Next]_(Branchless!vars)
             PROVE  BranchlessInv'
  OBVIOUS
<1>1. CASE UNCHANGED Branchless!vars
  BY <1>1
     DEF Branchless!vars, BranchlessInv, Branchless!TypeOK, Branchless!Call,
         Halving, Scrolling, AddingBehind, Reaching, Collected, Branchless!Rows,
         Branchless!Matching, Branchless!Touched, Branchless!ReadsBehind
<1> QED
  BY <1>1, HalveStep, StopHalvingStep, ScrollBackStep, GiveUpStep, AddNextStep,
     StopAtOtherStep
     DEF Branchless!Next, Branchless!Terminated

(***************************************************************************)
(* Type correctness: among the rest, the search never stands further than   *)
(* one past the last row.                                                   *)
(***************************************************************************)
THEOREM TypeCorrect == Branchless!Spec => []Branchless!TypeOK
<1>1. BranchlessInv => Branchless!TypeOK
  BY DEF BranchlessInv
<1> QED
  BY <1>1, InitInvariant, NextInvariant, PTL DEF Branchless!Spec

(***************************************************************************)
(* For every sorted dataset, every key and every window that holds a row of *)
(* it, the branchless search adds up exactly the rows of the key, whatever  *)
(* its reads one past the end yield.                                        *)
(***************************************************************************)
THEOREM AnswerIsExact == Branchless!Spec => []Branchless!AnswerExact
<1>1. BranchlessInv => Branchless!AnswerExact
  BY DEF BranchlessInv, Collected, Branchless!AnswerExact
<1> QED
  BY <1>1, InitInvariant, NextInvariant, PTL DEF Branchless!Spec

(* What the invariant says of the reads of the next step.                    *)
LEMMA ReadsBounded == BranchlessInv => Branchless!ReadsInside
<1> SUFFICES ASSUME BranchlessInv PROVE Branchless!ReadsInside
  OBVIOUS
<1>1. BranchlessTyped
  BY TypedValues
<1>2. CASE pc = "locate"
  <2> SUFFICES ASSUME n \div 2 # 0
               PROVE  /\ it + n \div 2 \in 0 .. size
                      /\ it + n \div 2 = size => Branchless!ReadsBehind
    BY <1>2 DEF Branchless!ReadsInside, Branchless!Reads
  <2>1. n \div 2 \in Nat /\ 1 <= n \div 2 /\ n \div 2 <= n - 1
    BY <1>1 DEF BranchlessTyped
  <2>2. it + n - 1 <= stop /\ start <= it
    BY <1>2 DEF BranchlessInv, Halving
  <2>3. it + n \div 2 \in 0 .. size
    BY <1>1, <2>1, <2>2 DEF BranchlessTyped
  <2>4. ASSUME it + n \div 2 = size PROVE Branchless!ReadsBehind
    (* Two rows were left, the last one and that behind it.                   *)
    <3>1. stop = size /\ n \div 2 = n - 1
      BY <1>1, <2>1, <2>2, <2>4 DEF BranchlessTyped
    <3>2. it = size - 1
      BY <1>1, <2>1, <2>4, <3>1 DEF BranchlessTyped
    <3>3. size - 1 \in Branchless!Rows /\ size - 1 <= it /\ it # size
      BY <1>1, <3>2 DEF BranchlessTyped, Branchless!Rows
    <3>4. start >= size - 1 \/ data[size - 1] <= key
      BY <1>1, <1>2, <3>2, <3>3 DEF BranchlessInv, Halving, BranchlessTyped
    <3> QED
      BY <3>1, <3>4 DEF Branchless!ReadsBehind
  <2> QED
    BY <2>3, <2>4
<1>3. CASE pc = "scroll"
  <2>1. it = size => Branchless!ReadsBehind
    BY <1>3 DEF BranchlessInv, Reaching
  <2>2. it \in 0 .. size /\ (it > 0 => it - 1 \in 0 .. size /\ it - 1 # size)
    BY <1>1 DEF BranchlessTyped
  <2> QED
    BY <1>3, <2>1, <2>2 DEF Branchless!ReadsInside, Branchless!Reads
<1>4. CASE pc = "sum"
  BY <1>1, <1>4 DEF BranchlessInv, Reaching, BranchlessTyped,
                    Branchless!ReadsInside, Branchless!Reads
<1>5. CASE pc = "done"
  BY <1>5 DEF Branchless!ReadsInside, Branchless!Reads
<1> QED
  BY <1>2, <1>3, <1>4, <1>5 DEF BranchlessInv, Branchless!TypeOK

(***************************************************************************)
(* For every dataset, key and window: no step of the branchless search reads *)
(* further than one past the last row, and it reads there only as            *)
(* ReadsBehind has it: for a window that reaches there, or while it adds up   *)
(* rows of the key that end the data.                                       *)
(***************************************************************************)
THEOREM ReadsAreInside == Branchless!Spec => []Branchless!ReadsInside
BY ReadsBounded, InitInvariant, NextInvariant, PTL DEF Branchless!Spec

LEMMA CoveredIsTouched == Branchless!Covered => Branchless!Touched
BY DEF Branchless!Covered, Branchless!Touched, Branchless!FirstMatch

(***************************************************************************)
(* The search implements LookupSpec: it starts where that starts, and every *)
(* step is its Return or leaves its variables alone.                        *)
(***************************************************************************)
THEOREM ImplementsPromise == Branchless!Spec => Branchless!PromisedSteps
<1> USE DEF Branchless!Promise!vars, Branchless!Promise!input,
            Branchless!Promise!Rows, Branchless!Promise!Matching
<1>1. Branchless!Init => Branchless!Promise!Init
  BY DEF Branchless!Init, Branchless!Call, Branchless!Rows,
         Branchless!Promise!Init, Branchless!Promise!Call
<1>2. ASSUME BranchlessInv, BranchlessInv', [Branchless!Next]_(Branchless!vars)
      PROVE  [Branchless!Promise!Next]_(Branchless!Promise!vars)
  <2>1. UNCHANGED Branchless!input
    BY <1>2, InputsFixed
  <2>2. CASE pc = "done"
    <3>1. pc' = pc /\ rows' = rows
      BY <1>2, <2>2
         DEF Branchless!Next, Branchless!vars, Branchless!Halve,
             Branchless!StopHalving, Branchless!ScrollBack, Branchless!Check,
             Branchless!AddNext, Branchless!StopAtOther, Branchless!Terminated
    <3> QED
      BY <2>1, <3>1 DEF Branchless!input
  <2>3. CASE pc # "done" /\ pc' # "done"
    BY <2>1, <2>3 DEF Branchless!input
  <2>4. CASE pc # "done" /\ pc' = "done"
    <3>1. rows' \in IF Branchless!Covered THEN {Branchless!Matching}
                    ELSE SUBSET Branchless!Matching
      BY <1>2, <2>4, InputsFixed, CoveredIsTouched DEF BranchlessInv, Collected
    <3>2. Branchless!Promise!Covered = Branchless!Covered
      BY DEF Branchless!Promise!Covered, Branchless!Covered,
             Branchless!Promise!FirstMatch, Branchless!FirstMatch,
             Branchless!Matching, Branchless!Rows
    <3> QED
      BY <2>1, <2>4, <3>1, <3>2
         DEF Branchless!Promise!Next, Branchless!Promise!Return,
             Branchless!Matching, Branchless!Rows, Branchless!input
  <2> QED
    BY <2>2, <2>3, <2>4
<1> QED
  BY <1>1, <1>2, InitInvariant, NextInvariant, PTL
     DEF Branchless!Spec, Branchless!PromisedSteps
-----------------------------------------------------------------------------
(* The invariant of the branchless search, if that is chosen.                *)
ChosenInv == searcher = "branchless_binary" => BranchlessInv

LEMMA InitChosen == Init => ChosenInv
BY InitInvariant DEF Init, ChosenInv

LEMMA NextChosen == ChosenInv /\ [Next]_vars => ChosenInv'
<1> SUFFICES ASSUME ChosenInv, [Next]_vars, searcher' = "branchless_binary"
             PROVE  BranchlessInv'
  BY DEF ChosenInv
<1>1. searcher = "branchless_binary" /\ [Branchless!Next]_(Branchless!vars)
  BY DEF Next, vars, BinarySearch, BranchlessSearch, LinearFind, Branchless!vars
<1> QED
  BY <1>1, NextInvariant DEF ChosenInv

(***************************************************************************)
(* For every dataset, key and window the branchless search, if chosen, is     *)
(* exact when the window holds a row of the key.                             *)
(***************************************************************************)
THEOREM ChosenIsExact == Spec => []AnswerExact
<1>1. ChosenInv => AnswerExact
  BY DEF ChosenInv, AnswerExact, Branchless!AnswerExact, Branchless!Touched,
         Branchless!Matching, Branchless!Rows, BranchlessInv, Collected,
         Branchless!Touched, Branchless!Matching, Branchless!Rows
<1> QED
  BY <1>1, InitChosen, NextChosen, PTL DEF Spec

(***************************************************************************)
(* It never reads more than one row past the end, and that only for a window  *)
(* that reaches there, or while it adds up rows of the key that end the data. *)
(***************************************************************************)
THEOREM ChosenReadsInside == Spec => []ReadsInside
<1>1. ChosenInv => ReadsInside
  BY ReadsBounded DEF ChosenInv, ReadsInside
<1> QED
  BY <1>1, InitChosen, NextChosen, PTL DEF Spec
-----------------------------------------------------------------------------
(* The branching and the linear search.  First is where std::lower_bound gets *)
(* to in the window, Hit whether a row of the key is there, Run that row and  *)
(* those of the key behind it.                                              *)
First == LowerBound(start, stop)
Hit == First < size /\ data[First] = key
Run == {p \in Matching : First <= p}

(* The arguments of a call in the form the arithmetic needs.                 *)
Arguments ==
  /\ size \in Nat \ {0} /\ start \in 0 .. size - 1 /\ stop \in start .. size
  /\ key \in Nat
  /\ \A p \in Rows : data[p] \in Nat
  /\ \A p, q \in Rows : p <= q => data[p] <= data[q]

(* Before it adds, the linear search stands in the window and has passed no   *)
(* row of the key, the branching one where std::lower_bound got to.  While it *)
(* adds, either stands behind the rows of Run that it has added.             *)
Locating ==
  pc = "locate" /\ searcher = "linear" =>
    it \in start .. stop /\ \A p \in start .. it - 1 : data[p] # key

Checking == pc = "check" => it = First

Adding ==
  pc = "sum" =>
    /\ Hit /\ it \in First .. size
    /\ rows = {p \in Run : p < it}
    /\ it = First \/ data[it - 1] = key

Answered ==
  /\ pc \in {"locate", "check"} => rows = {}
  /\ pc = "done" => rows = IF Hit THEN Run ELSE {}

OtherInv ==
  searcher \in {"binary", "linear"} =>
    Call /\ Locating /\ Checking /\ Adding /\ Answered

LEMMA CallArguments == Call => Arguments
<1> SUFFICES ASSUME Call PROVE Arguments
  OBVIOUS
<1>1. \A p \in Rows : data[p] \in Keys
  BY DEF Call, Rows
<1>2. \A p \in Rows : data[p] \in Nat
  BY <1>1, KeysAssumption
<1> QED
  BY <1>2, KeysAssumption, MaxRowsAssumption DEF Call, Arguments

LEMMA FirstIsLowerBound ==
  ASSUME Arguments
  PROVE  /\ First \in start .. stop
         /\ \A q \in start .. First - 1 : data[q] < key
         /\ First = stop \/ data[First] >= key
<1>1. /\ \A q \in start .. stop - 1 : data[q] \in Int
      /\ key \in Int /\ start \in Nat /\ stop \in Nat /\ start <= stop
  BY DEF Arguments, Rows
<1>2. \E p \in start .. stop :
        /\ \A q \in start .. p - 1 : data[q] < key
        /\ p = stop \/ data[p] >= key
  BY <1>1, LowerBoundExists
<1> QED
  BY <1>2 DEF First, LowerBound, Arguments

(* A row of the key in the window, or at `stop`, comes not before First; and  *)
(* if there is one, one is at First.                                        *)
LEMMA WindowRow ==
  ASSUME Arguments, NEW p \in Rows, start <= p, p <= stop, data[p] = key
  PROVE  First <= p /\ Hit
<1>1. /\ First \in start .. stop
      /\ \A q \in start .. First - 1 : data[q] < key
      /\ First = stop \/ data[First] >= key
  BY FirstIsLowerBound
<1>2. First <= p
  BY <1>1 DEF Arguments, Rows
<1>3. First \in Rows /\ data[First] <= data[p]
  BY <1>1, <1>2 DEF Arguments, Rows
<1>4. data[First] = key
  BY <1>1, <1>2, <1>3 DEF Arguments, Rows
<1> QED
  BY <1>2, <1>3, <1>4 DEF Hit, Rows, Arguments

LEMMA InitOther == Init => OtherInv
<1> SUFFICES ASSUME Init, searcher \in {"binary", "linear"}
             PROVE  Call /\ Locating /\ Checking /\ Adding /\ Answered
  BY DEF OtherInv
<1>1. Call /\ pc = "locate" /\ it = start /\ rows = {}
  BY DEF Init, Binary!Init, Linear!Init, Branchless!Init, Binary!Call, Linear!Call, Call,
         Binary!Rows, Linear!Rows, Rows
<1> QED
  BY <1>1, CallArguments DEF Arguments, Locating, Checking, Adding, Answered

(* What a step of either leaves alone.                                      *)
LEMMA ArgumentsFixed ==
  ASSUME [Next]_vars
  PROVE  /\ UNCHANGED <<input, searcher>>
         /\ Rows' = Rows /\ Matching' = Matching /\ Covered' = Covered
         /\ First' = First /\ Run' = Run /\ Hit' = Hit
         /\ Call => Call'
<1>1. UNCHANGED <<input, searcher>>
  <2>1. CASE BinarySearch
    BY <2>1 DEF BinarySearch, Binary!Next, Binary!Locate, Binary!Check, Binary!Sum,
                Binary!AddRow, Binary!StopAdding, Binary!Terminated, Binary!vars,
                Binary!input, input
  <2>2. CASE BranchlessSearch
    BY <2>2 DEF BranchlessSearch, Branchless!Next, Branchless!Halve,
                Branchless!StopHalving, Branchless!ScrollBack, Branchless!Check,
                Branchless!AddNext, Branchless!StopAtOther, Branchless!Terminated,
                Branchless!vars, Branchless!input, input
  <2>3. CASE LinearFind
    BY <2>3 DEF LinearFind, Linear!Next, Linear!Advance, Linear!Check, Linear!Sum,
                Linear!AddRow, Linear!StopAdding, Linear!Terminated, Linear!vars,
                Linear!input, input
  <2>4. CASE UNCHANGED vars
    BY <2>4 DEF vars, input
  <2> QED
    BY <2>1, <2>2, <2>3, <2>4 DEF Next
<1>2. Rows' = Rows /\ Matching' = Matching /\ Covered' = Covered
  BY <1>1 DEF input, Rows, Matching, Covered, FirstMatch
<1>3. First' = First
  BY <1>1 DEF input, First, LowerBound
<1> QED
  BY <1>1, <1>2, <1>3 DEF input, Run, Hit, Call

LEMMA AddingStep ==
  ASSUME [Next]_vars, Arguments, Adding, pc = "sum",
         AddRow \/ StopAdding
  PROVE  /\ Adding' /\ Answered'
         /\ pc' \in {"sum", "done"}
<1>1. /\ Hit /\ it \in First .. size /\ rows = {p \in Run : p < it}
      /\ it = First \/ data[it - 1] = key
      /\ First \in start .. stop
  BY FirstIsLowerBound DEF Adding
<1>2. CASE AddRow
  <2>1. it \in Run /\ it + 1 \in First .. size
    BY <1>1, <1>2 DEF AddRow, Run, Matching, Rows, Arguments
  <2>2. rows' = {p \in Run : p < it + 1}
    BY <1>1, <1>2, <2>1 DEF AddRow, Run, Matching, Rows, Arguments
  <2>3. (it + 1) - 1 = it
    BY <1>1 DEF Arguments
  <2> QED
    BY <1>1, <1>2, <2>1, <2>2, <2>3, ArgumentsFixed
       DEF AddRow, Adding, Answered, Arguments, input
<1>3. CASE StopAdding
  <2>1. ASSUME NEW p \in Run PROVE p < it
    <3>1. /\ p \in Rows /\ data[p] = key /\ First <= p
          /\ First \in Nat /\ it \in Nat /\ size \in Nat
      BY <1>1 DEF Run, Matching, Arguments
    <3>2. CASE it = size
      BY <3>1, <3>2 DEF Rows
    <3>3. CASE it < size
      (* The run is over: behind a row of the key stands one of another.    *)
      <4>1. /\ it \in Rows /\ it - 1 \in Rows
            /\ data[it] # key /\ data[it - 1] = key
        BY <1>1, <1>3, <3>1, <3>3 DEF StopAdding, Rows, Hit, Arguments
      <4>2. data[it - 1] <= data[it]
        BY <3>1, <4>1 DEF Arguments
      <4>3. ~ (it <= p)
        BY <3>1, <4>1, <4>2 DEF Arguments
      <4> QED
        BY <3>1, <4>3 DEF Rows
    <3> QED
      BY <1>1, <3>1, <3>2, <3>3
  <2>2. rows = Run
    BY <1>1, <2>1
  <2> QED
    BY <1>1, <1>3, <2>2, ArgumentsFixed DEF StopAdding, Adding, Answered
<1> QED
  BY <1>2, <1>3

(* Both searches end up at First when a row of the key is there, and return   *)
(* nothing when none is.                                                    *)
LEMMA CheckStep ==
  ASSUME [Next]_vars, Arguments, pc \in {"check", "locate"}, rows = {},
         it \in start .. stop,
         it < size /\ data[it] = key <=> Hit,
         Hit => it = First,
         pc' = (IF it < size /\ data[it] = key THEN "sum" ELSE "done"),
         UNCHANGED <<it, rows>>
  PROVE  Adding' /\ Answered'
<1>1. CASE Hit
  <2>1. it = First /\ pc' = "sum" /\ it \in First .. size
    BY <1>1 DEF Arguments
  <2>2. {p \in Run : p < it} = {}
    BY <2>1 DEF Run, Matching, Rows, Arguments
  <2>3. Hit' /\ First' = First /\ Run' = Run
    BY <1>1, ArgumentsFixed
  <2>4. it' = First' /\ rows' = {p \in Run' : p < it'}
    BY <2>1, <2>2, <2>3
  <2>5. size' = size
    BY ArgumentsFixed DEF input
  <2>6. it' \in First' .. size'
    BY <2>1, <2>3, <2>5
  <2>7. Adding'
    BY <2>3, <2>4, <2>6 DEF Adding
  <2> QED
    BY <2>1, <2>7 DEF Answered
<1>2. CASE ~Hit
  BY <1>2, ArgumentsFixed DEF Adding, Answered
<1> QED
  BY <1>1, <1>2

LEMMA BinaryStep ==
  ASSUME OtherInv, BinarySearch
  PROVE  OtherInv'
<1>1. /\ [Next]_vars /\ searcher = "binary" /\ searcher' = "binary"
      /\ Call /\ Locating /\ Checking /\ Adding /\ Answered
  BY DEF BinarySearch, Next, OtherInv
<1>2. Arguments /\ Call'
  BY <1>1, ArgumentsFixed, CallArguments
<1>3. CASE Binary!Locate
  <2>1. Binary!LowerBound(start, stop) = First
    BY DEF Binary!LowerBound, First, LowerBound
  <2>2. pc' = "check" /\ it' = First /\ rows' = {}
    BY <1>1, <1>3, <2>1 DEF Binary!Locate, Answered
  <2> QED
    BY <1>1, <1>2, <2>2, ArgumentsFixed
       DEF OtherInv, Locating, Checking, Adding, Answered
<1>4. CASE Binary!Check
  <2>1. /\ pc = "check" /\ it = First /\ rows = {} /\ it' = it /\ rows' = rows
        /\ pc' = IF Hit THEN "sum" ELSE "done"
    BY <1>1, <1>4 DEF Binary!Check, Binary!Found, Checking, Answered, Hit
  <2>2. it \in start .. stop
    BY <1>2, <2>1, FirstIsLowerBound
  <2>3. Adding' /\ Answered'
    BY <1>1, <1>2, <2>1, <2>2, CheckStep DEF Hit
  <2> QED
    BY <1>1, <1>2, <2>1, <2>3 DEF OtherInv, Locating, Checking
<1>5. CASE Binary!Sum
  <2>1. pc = "sum" /\ (AddRow \/ StopAdding)
    BY <1>5 DEF Binary!Sum, Binary!AddRow, Binary!StopAdding, Binary!input,
                AddRow, StopAdding, input
  <2> QED
    BY <1>1, <1>2, <2>1, AddingStep DEF OtherInv, Locating, Checking
<1>6. CASE Binary!Terminated
  BY <1>1, <1>2, <1>6, ArgumentsFixed
     DEF Binary!Terminated, Binary!vars, OtherInv, Locating, Checking, Adding, Answered
<1> QED
  BY <1>3, <1>4, <1>5, <1>6 DEF BinarySearch, Binary!Next

LEMMA LinearStep ==
  ASSUME OtherInv, LinearFind
  PROVE  OtherInv'
<1>1. /\ [Next]_vars /\ searcher = "linear" /\ searcher' = "linear"
      /\ Call /\ Locating /\ Checking /\ Adding /\ Answered
  BY DEF LinearFind, Next, OtherInv
<1>2. Arguments /\ Call'
  BY <1>1, ArgumentsFixed, CallArguments
<1>3. CASE Linear!Advance
  <2>1. /\ pc = "locate" /\ pc' = pc /\ rows' = rows /\ it' = it + 1
        /\ it \in start .. stop - 1
        /\ \A p \in start .. it : data[p] # key
    BY <1>1, <1>2, <1>3 DEF Linear!Advance, Locating, Arguments
  <2>2. Locating'
    BY <1>1, <1>2, <2>1, ArgumentsFixed DEF Locating, Arguments, input
  <2> QED
    BY <1>1, <1>2, <2>1, <2>2, ArgumentsFixed DEF OtherInv, Checking, Adding, Answered
<1>4. CASE Linear!Check
  <2>1. /\ pc = "locate" /\ it' = it /\ rows' = rows /\ rows = {}
        /\ pc' = IF it < size /\ data[it] = key THEN "sum" ELSE "done"
        /\ it < stop => data[it] = key
        /\ it \in start .. stop /\ \A p \in start .. it - 1 : data[p] # key
    BY <1>1, <1>4 DEF Linear!Check, Locating, Answered
  <2>2. First \in start .. stop
    BY <1>2, FirstIsLowerBound
  <2>3. ASSUME it < size, data[it] = key PROVE Hit /\ it = First
    <3>1. it \in Rows /\ start <= it /\ it <= stop
      BY <1>2, <2>1, <2>3 DEF Arguments, Rows
    <3>2. First <= it /\ Hit
      BY <1>2, <2>3, <3>1, WindowRow
    <3> QED
      BY <1>2, <2>1, <2>2, <3>2 DEF Hit, Arguments
  <2>4. ASSUME Hit PROVE it < size /\ data[it] = key
    BY <1>2, <2>1, <2>2, <2>4 DEF Hit, Arguments
  <2>5. Adding' /\ Answered'
    BY <1>1, <1>2, <2>1, <2>3, <2>4, CheckStep
  <2> QED
    BY <1>1, <1>2, <2>1, <2>5 DEF OtherInv, Locating, Checking
<1>5. CASE Linear!Sum
  <2>1. pc = "sum" /\ (AddRow \/ StopAdding)
    BY <1>5 DEF Linear!Sum, Linear!AddRow, Linear!StopAdding, Linear!input,
                AddRow, StopAdding, input
  <2> QED
    BY <1>1, <1>2, <2>1, AddingStep DEF OtherInv, Locating, Checking
<1>6. CASE Linear!Terminated
  BY <1>1, <1>2, <1>6, ArgumentsFixed
     DEF Linear!Terminated, Linear!vars, OtherInv, Locating, Checking, Adding, Answered
<1> QED
  BY <1>3, <1>4, <1>5, <1>6 DEF LinearFind, Linear!Next

LEMMA NextOther == OtherInv /\ [Next]_vars => OtherInv'
<1> SUFFICES ASSUME OtherInv, [Next]_vars PROVE OtherInv'
  OBVIOUS
<1>1. CASE BranchlessSearch
  BY <1>1 DEF BranchlessSearch, OtherInv
<1>2. CASE UNCHANGED vars
  BY <1>2, ArgumentsFixed
     DEF vars, OtherInv, Locating, Checking, Adding, Answered
<1> QED
  BY <1>1, <1>2, BinaryStep, LinearStep DEF Next

(***************************************************************************)
(* For every dataset, key and window the branching search is exact if and     *)
(* only if the window holds the first row of the key (or there is none), and  *)
(* the linear search adds up the rows the branching one does.                *)
(***************************************************************************)
LEMMA RunIsAllIffCovered ==
  ASSUME Arguments
  PROVE  (IF Hit THEN Run ELSE {}) = Matching <=> Covered
<1>1. First \in start .. stop /\ First \in Nat
  BY FirstIsLowerBound DEF Arguments
<1>2. CASE Matching = {}
  BY <1>2 DEF Covered, Run
<1>3. ASSUME NEW p \in start .. stop, FirstMatch(p)
      PROVE  Hit /\ Run = Matching
  <2>1. p \in Rows /\ data[p] = key /\ start <= p /\ p <= stop
    BY <1>3 DEF FirstMatch, Matching
  <2>2. First <= p /\ Hit
    BY <2>1, WindowRow
  <2> QED
    BY <1>1, <1>3, <2>1, <2>2 DEF FirstMatch, Run, Matching, Rows, Arguments
<1>4. ASSUME Matching # {}, (IF Hit THEN Run ELSE {}) = Matching
      PROVE  FirstMatch(First)
  <2>1. Hit /\ Run = Matching
    BY <1>4
  <2>2. First \in Matching
    BY <1>1, <2>1 DEF Hit, Matching, Rows, Arguments
  <2> QED
    BY <2>1, <2>2 DEF FirstMatch, Run
<1> QED
  BY <1>1, <1>2, <1>3, <1>4 DEF Covered

THEOREM OthersExactIffCovered == Spec => []ExactIffCovered
<1>1. OtherInv => ExactIffCovered
  <2> SUFFICES ASSUME OtherInv PROVE ExactIffCovered
    OBVIOUS
  <2>1. ASSUME searcher = "binary" PROVE Binary!ExactIffCovered
    <3>1. pc = "done" => (rows = Matching <=> Covered)
      BY <2>1, CallArguments, RunIsAllIffCovered DEF OtherInv, Answered
    <3>2. Binary!Matching = Matching /\ Binary!Covered = Covered
      BY DEF Binary!Matching, Binary!Rows, Matching, Rows, Binary!Covered, Covered,
             Binary!FirstMatch, FirstMatch
    <3> QED
      BY <3>1, <3>2 DEF Binary!ExactIffCovered
  <2>2. ASSUME searcher = "linear" PROVE Linear!AsBinary
    <3>1. pc = "done" => rows = IF Hit THEN Run ELSE {}
      BY <2>2 DEF OtherInv, Answered
    <3>2. Linear!LowerBound(start, stop) = First
      BY DEF Linear!LowerBound, First, LowerBound
    <3>3. Linear!Matching = Matching
      BY DEF Linear!Matching, Linear!Rows, Matching, Rows
    <3> QED
      BY <3>1, <3>2, <3>3 DEF Linear!AsBinary, Hit, Run
  <2> QED
    BY <2>1, <2>2 DEF ExactIffCovered
<1> QED
  BY <1>1, InitOther, NextOther, PTL DEF Spec

(***************************************************************************)
(* Whichever search is chosen, a call starts where LookupSpec does and its    *)
(* steps are the Return of LookupSpec or leave what that speaks of alone.      *)
(***************************************************************************)
LEMMA ReturnsPromised ==
  ASSUME ChosenInv, OtherInv, searcher \in {"binary", "branchless_binary", "linear"},
         pc = "done"
  PROVE  rows \in IF Covered THEN {Matching} ELSE SUBSET Matching
<1>1. CASE searcher = "branchless_binary"
  <2>1. /\ rows \subseteq Branchless!Matching
        /\ Branchless!Touched => rows = Branchless!Matching
    BY <1>1 DEF ChosenInv, BranchlessInv, Collected
  <2>2. Branchless!Matching = Matching /\ (Covered => Branchless!Touched)
    BY DEF Branchless!Matching, Branchless!Rows, Matching, Rows, Covered, FirstMatch,
           Branchless!Touched
  <2> QED
    BY <2>1, <2>2
<1>2. CASE searcher \in {"binary", "linear"}
  <2>1. rows = IF Hit THEN Run ELSE {}
    BY <1>2 DEF OtherInv, Answered
  <2>2. Covered => rows = Matching
    BY <1>2, <2>1, CallArguments, RunIsAllIffCovered DEF OtherInv
  <2> QED
    BY <2>1, <2>2 DEF Run
<1> QED
  BY <1>1, <1>2

THEOREM EveryStepPromised == Spec => PromisedSteps
<1> DEFINE Chosen == searcher \in {"binary", "branchless_binary", "linear"}
           Inv == Chosen /\ ChosenInv /\ OtherInv
<1> USE DEF Promise!vars, Promise!input
<1>1. Init => Promise!Init /\ Inv
  <2>1. Init => Promise!Init
    BY DEF Init, Binary!Init, Branchless!Init, Linear!Init, Promise!Init,
           Binary!Call, Branchless!Call, Linear!Call, Promise!Call,
           Binary!Rows, Branchless!Rows, Linear!Rows, Promise!Rows
  <2>2. Init => Chosen
    BY DEF Init
  <2> QED
    BY <2>1, <2>2, InitChosen, InitOther
<1>2. Inv /\ [Next]_vars => Inv'
  BY NextChosen, NextOther, ArgumentsFixed
<1>3. ASSUME Inv, Inv', [Next]_vars
      PROVE  [Promise!Next]_(Promise!vars)
  <2>1. UNCHANGED input
    BY <1>3, ArgumentsFixed
  <2>2. CASE pc = "done"
    <3>1. pc' = pc /\ rows' = rows
      <4>1. CASE BinarySearch
        BY <2>2, <4>1 DEF BinarySearch, Binary!Next, Binary!Locate, Binary!Check,
                          Binary!Sum, Binary!AddRow, Binary!StopAdding,
                          Binary!Terminated, Binary!vars
      <4>2. CASE BranchlessSearch
        BY <2>2, <4>2 DEF BranchlessSearch, Branchless!Next, Branchless!Halve,
                          Branchless!StopHalving, Branchless!ScrollBack,
                          Branchless!Check, Branchless!AddNext,
                          Branchless!StopAtOther, Branchless!Terminated,
                          Branchless!vars
      <4>3. CASE LinearFind
        BY <2>2, <4>3 DEF LinearFind, Linear!Next, Linear!Advance, Linear!Check,
                          Linear!Sum, Linear!AddRow, Linear!StopAdding,
                          Linear!Terminated, Linear!vars
      <4> QED
        BY <1>3, <4>1, <4>2, <4>3 DEF Next, vars
    <3> QED
      BY <2>1, <3>1 DEF input
  <2>3. CASE pc # "done" /\ pc' # "done"
    BY <2>1, <2>3 DEF input
  <2>4. CASE pc # "done" /\ pc' = "done"
    <3>1. rows' \in IF Covered' THEN {Matching'} ELSE SUBSET Matching'
      <4>1. (pc = "done" => rows \in IF Covered THEN {Matching} ELSE SUBSET Matching)'
        BY <1>3, ReturnsPromised, PTL
      <4> QED
        BY <2>4, <4>1
    <3>2. Covered' = Covered /\ Matching' = Matching
      BY <1>3, ArgumentsFixed
    <3>3. Promise!Covered = Covered /\ Promise!Matching = Matching
      BY DEF Promise!Covered, Covered, Promise!FirstMatch, FirstMatch,
             Promise!Matching, Matching, Promise!Rows, Rows
    <3> QED
      BY <2>1, <2>4, <3>1, <3>2, <3>3 DEF Promise!Next, Promise!Return, input
  <2> QED
    BY <2>2, <2>3, <2>4
<1> QED
  BY <1>1, <1>2, <1>3, PTL DEF Spec, PromisedSteps
=============================================================================
