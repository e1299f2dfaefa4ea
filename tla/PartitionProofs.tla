-------------------------- MODULE PartitionProofs --------------------------
(***************************************************************************)
(* The write partition loses no entry, puts aside exactly the entries drawn, *)
(* and leaves every entry of a lookup key to the index, for every dataset,   *)
(* every set of lookups and every choice of ids.                             *)
(***************************************************************************)
EXTENDS WritePartition, TLAPS

(* The invariant of the extraction loop.  Up to the largest id still to come *)
(* index_data_ is untouched, because entries are only moved into gaps above. *)
Untouched ==
  \A i \in DOMAIN index_data :
    (\E id \in ids : i <= id) => index_data[i] = before[i]

Kept == {before[i] : i \in DOMAIN before \ (drawn \ ids)}

Extracting ==
  pc = "extract" => Untouched

Gathering ==
  pc = "gather" => \A id \in ids : MayDraw(id)

Drawn ==
  pc \in {"extract", "sort", "build"} =>
    /\ NoRepeats(before) /\ ids \subseteq drawn
    /\ \A i \in drawn :
         write_portion = Percent \/ data[before[i]] \notin lookupKeys
    /\ ToSet(index_data) = Kept
    /\ \A i \in drawn \ ids : before[i] \in ToSet(insertion_data)
    /\ pc # "extract" => ids = {}

Distinct ==
  /\ NoRepeats(index_data)
  /\ NoRepeats(insertion_data)
  /\ ToSet(index_data) \cap ToSet(insertion_data) = {}

IInv == TypeOK /\ Gathering /\ Extracting /\ Drawn /\ Distinct

USE PartitionAssumption

LEMMA InitInvariant == Init => IInv
<1> SUFFICES ASSUME Init PROVE IInv
  OBVIOUS
<1>1. PICK n \in 1 .. MaxRows : \E m \in 1 .. n :
        /\ data \in [0 .. n - 1 -> Keys]
        /\ index_data \in [1 .. m -> 0 .. n - 1]
        /\ NoRepeats(index_data)
        /\ insertion_data \in
             {<<>>} \cup {<<p>> : p \in (0 .. n - 1) \ ToSet(index_data)}
  BY DEF Init
<1>2. Positions = 0 .. n - 1
  BY <1>1 DEF Positions
<1>3. index_data \in Seq(Positions) /\ insertion_data \in Seq(Positions)
  <2>1. PICK m \in 1 .. n : index_data \in [1 .. m -> Positions]
    BY <1>1, <1>2
  <2>2. m \in Nat
    OBVIOUS
  <2>3. index_data \in Seq(Positions)
    BY <2>1, <2>2
  <2>4. insertion_data \in Seq(Positions)
    <3>1. CASE insertion_data = <<>>
      BY <3>1
    <3>2. CASE \E p \in Positions : insertion_data = <<p>>
      BY <3>2
    <3> QED
      BY <1>1, <1>2, <3>1, <3>2
  <2> QED
    BY <2>3, <2>4
<1>4. TypeOK
  BY <1>3 DEF Init, TypeOK
<1>5. Distinct
  <2>1. CASE insertion_data = <<>>
    BY <1>1, <2>1 DEF Distinct, NoRepeats, ToSet
  <2>2. CASE insertion_data # <<>>
    <3>1. PICK p \in (0 .. n - 1) \ ToSet(index_data) : insertion_data = <<p>>
      BY <1>1, <2>2
    <3>2. NoRepeats(insertion_data) /\ ToSet(insertion_data) = {p}
      BY <3>1 DEF NoRepeats, ToSet
    <3> QED
      BY <1>1, <3>1, <3>2 DEF Distinct
  <2> QED
    BY <2>1, <2>2
<1> QED
  BY <1>4, <1>5 DEF Init, IInv, Gathering, Extracting, Drawn

LEMMA DrawStep ==
  ASSUME IInv, Draw, UNCHANGED inputs
  PROVE  IInv'
<1>1. PICK id \in DOMAIN index_data :
        ids' = IF MayDraw(id) THEN ids \cup {id} ELSE ids
  BY DEF Draw
<1>2. /\ pc = "gather" /\ pc' = pc /\ index_data' = index_data
      /\ insertion_data' = insertion_data /\ before' = before /\ drawn' = drawn
      /\ UNCHANGED <<data, lookupKeys, numLookups, write_portion>>
  BY DEF Draw, inputs
<1>3. TypeOK'
  BY <1>1, <1>2 DEF IInv, TypeOK, Positions
<1>4. Gathering'
  BY <1>1, <1>2 DEF IInv, Gathering, MayDraw
<1>5. Extracting' /\ Drawn' /\ Distinct'
  BY <1>2 DEF IInv, Extracting, Drawn, Distinct, NoRepeats
<1> QED
  BY <1>3, <1>4, <1>5 DEF IInv

LEMMA EndGatherStep ==
  ASSUME IInv, EndGather, UNCHANGED inputs
  PROVE  IInv'
<1>1. /\ pc = "gather" /\ pc' \in {"crashed", "extract"}
      /\ before' = index_data /\ drawn' = ids
      /\ index_data' = index_data /\ insertion_data' = insertion_data
      /\ ids' = ids
      /\ UNCHANGED <<data, lookupKeys, numLookups, write_portion>>
  BY DEF EndGather, inputs
<1>2. TypeOK'
  BY <1>1 DEF IInv, TypeOK, Positions
<1>3. Gathering' /\ Extracting' /\ Distinct'
  BY <1>1 DEF IInv, Gathering, Extracting, Untouched, Distinct, NoRepeats
<1>4. Drawn'
  <2>1. NoRepeats(before') /\ drawn' \ ids' = {}
    BY <1>1 DEF IInv, Distinct, NoRepeats
  <2>2. (ToSet(index_data) = Kept)'
    BY <1>1, <2>1 DEF ToSet, Kept
  <2>3. \A i \in drawn' :
          write_portion' = Percent \/ data'[before'[i]] \notin lookupKeys'
    BY <1>1 DEF IInv, Gathering, MayDraw
  <2> QED
    BY <1>1, <2>1, <2>2, <2>3 DEF Drawn, NoRepeats
<1> QED
  BY <1>2, <1>3, <1>4 DEF IInv

LEMMA ExtractStep ==
  ASSUME IInv, Extract, UNCHANGED inputs
  PROVE  IInv'
<1> DEFINE n == Len(index_data)
           m == Len(insertion_data)
           source(i, id) == IF i = id THEN n ELSE i
<1>1. PICK id \in ids :
        /\ LargestLeft(id)
        /\ insertion_data' = Append(insertion_data, index_data[id])
        /\ index_data' = [i \in 1 .. n - 1 |-> index_data[source(i, id)]]
        /\ ids' = ids \ {id}
  BY DEF Extract
<1>2. /\ pc = "extract" /\ pc' = pc /\ before' = before /\ drawn' = drawn
      /\ UNCHANGED <<data, lookupKeys, numLookups, write_portion>>
  BY DEF Extract, inputs
<1>3. /\ index_data \in Seq(Positions) /\ insertion_data \in Seq(Positions)
      /\ before \in Seq(Positions) /\ drawn \subseteq DOMAIN before
      /\ DOMAIN index_data = 1 .. n /\ n \in Nat /\ ids \subseteq 1 .. n
      /\ id \in 1 .. n /\ Positions' = Positions
  BY <1>1, <1>2 DEF IInv, TypeOK, Positions
<1> HIDE DEF n, m
<1>4. /\ index_data' \in Seq(Positions) /\ DOMAIN index_data' = 1 .. n - 1
      /\ \A i \in 1 .. n - 1 :
           source(i, id) \in 1 .. n /\ index_data'[i] = index_data[source(i, id)]
  <2>1. \A i \in 1 .. n - 1 : source(i, id) \in 1 .. n
    BY <1>3
  <2>2. \A i \in 1 .. n - 1 : index_data[source(i, id)] \in Positions
    BY <1>3, <2>1
  <2> HIDE DEF source
  <2>3. n - 1 \in Nat
    BY <1>3
  <2>4. index_data' \in [1 .. n - 1 -> Positions]
    BY <1>1, <2>2
  <2>5. index_data' \in Seq(Positions)
    BY <2>3, <2>4
  <2>6. \A i \in 1 .. n - 1 : index_data'[i] = index_data[source(i, id)]
    BY <1>1
  <2> QED
    BY <2>1, <2>4, <2>5, <2>6
<1>5. insertion_data' \in Seq(Positions)
  BY <1>1, <1>3
<1>6. ids' \subseteq 1 .. n - 1
  BY <1>1, <1>3 DEF LargestLeft
<1>7. TypeOK'
  BY <1>2, <1>3, <1>4, <1>5, <1>6 DEF IInv, TypeOK
(* The gap is above every id still to come.                                 *)
<1>8. Untouched'
  <2> SUFFICES ASSUME NEW i \in 1 .. n - 1, NEW other \in ids', i <= other
               PROVE  index_data'[i] = before[i]
    BY <1>2, <1>4 DEF Untouched
  <2>1. other \in ids /\ i < id
    BY <1>1, <1>3 DEF LargestLeft
  <2>2. index_data'[i] = index_data[i]
    BY <1>1, <1>3, <2>1
  <2> QED
    BY <1>2, <1>3, <2>1, <2>2 DEF IInv, Extracting, Untouched
<1>9. index_data[id] = before[id]
  <2>1. id \in DOMAIN index_data /\ id <= id
    BY <1>3
  <2> QED
    BY <1>1, <1>2, <2>1 DEF IInv, Extracting, Untouched
<1>10. ToSet(index_data') = ToSet(index_data) \ {index_data[id]}
  <2>1. \A i \in 1 .. n : index_data[i] = index_data[id] => i = id
    BY <1>3 DEF IInv, Distinct, NoRepeats
  <2>2. ASSUME NEW i \in 1 .. n, i # id
        PROVE  \E j \in 1 .. n - 1 : source(j, id) = i
    <3>1. CASE i = n
      <4>1. id \in 1 .. n - 1 /\ source(id, id) = n
        BY <1>3, <2>2, <3>1
      <4> HIDE DEF source
      <4> QED
        BY <3>1, <4>1
    <3>2. CASE i # n
      <4>1. i \in 1 .. n - 1 /\ source(i, id) = i
        BY <1>3, <2>2, <3>2
      <4> HIDE DEF source
      <4> QED
        BY <4>1
    <3> QED
      BY <3>1, <3>2
  <2>3. \A j \in 1 .. n - 1 : source(j, id) # id
    BY <1>3
  <2> HIDE DEF source
  <2>4. ToSet(index_data') = {index_data[source(j, id)] : j \in 1 .. n - 1}
    BY <1>4 DEF ToSet
  <2>5. ToSet(index_data) = {index_data[i] : i \in 1 .. n}
    BY <1>3 DEF ToSet
  <2>6. ASSUME NEW e \in ToSet(index_data') PROVE e \in ToSet(index_data) \ {index_data[id]}
    <3>1. PICK j \in 1 .. n - 1 : e = index_data[source(j, id)]
      BY <2>4, <2>6
    <3> QED
      BY <1>3, <1>4, <2>1, <2>3, <2>5, <3>1
  <2>7. ASSUME NEW e \in ToSet(index_data), e # index_data[id] PROVE e \in ToSet(index_data')
    <3>1. PICK i \in 1 .. n : e = index_data[i]
      BY <2>5, <2>7
    <3> QED
      BY <2>2, <2>4, <2>7, <3>1
  <2> QED
    BY <2>6, <2>7
<1>11. NoRepeats(index_data')
  <2> SUFFICES ASSUME NEW i \in 1 .. n - 1, NEW j \in 1 .. n - 1,
                      index_data'[i] = index_data'[j]
               PROVE  i = j
    BY <1>4 DEF NoRepeats
  <2>1. index_data[source(i, id)] = index_data[source(j, id)]
    <3> HIDE DEF source
    <3> QED
      BY <1>4
  <2>2. source(i, id) = source(j, id)
    <3> HIDE DEF source
    <3> QED
      BY <1>3, <1>4, <2>1 DEF IInv, Distinct, NoRepeats
  <2> QED
    BY <1>3, <2>2
<1>12. /\ DOMAIN insertion_data = 1 .. m /\ m \in Nat
       /\ DOMAIN insertion_data' = 1 .. m + 1
       /\ \A k \in 1 .. m : insertion_data'[k] = insertion_data[k]
       /\ insertion_data'[m + 1] = index_data[id]
  BY <1>1, <1>3 DEF m
<1>13. ToSet(insertion_data') = ToSet(insertion_data) \cup {index_data[id]}
  BY <1>12 DEF ToSet
<1>14. NoRepeats(insertion_data')
  <2>1. index_data[id] \notin ToSet(insertion_data)
    BY <1>3 DEF IInv, Distinct, ToSet
  <2> QED
    BY <1>12, <2>1 DEF IInv, Distinct, NoRepeats, ToSet
<1>15. Distinct'
  BY <1>10, <1>11, <1>13, <1>14 DEF IInv, Distinct
<1>16. Drawn'
  <2>1. id \in drawn /\ drawn \subseteq DOMAIN before /\ NoRepeats(before)
        /\ ToSet(index_data) = Kept /\ ids \subseteq drawn
    BY <1>1, <1>2, <1>3 DEF IInv, Drawn
  <2>2. drawn' \ ids' = (drawn \ ids) \cup {id}
    BY <1>1, <1>2, <2>1
  <2>3. (ToSet(index_data) = Kept)'
    <3>1. Kept' = Kept \ {before[id]}
      BY <1>2, <2>1, <2>2, <1>1 DEF Kept, NoRepeats
    <3> QED
      BY <1>9, <1>10, <2>1, <3>1
  <2>4. \A i \in drawn' \ ids' : before'[i] \in ToSet(insertion_data')
    BY <1>2, <1>9, <1>13, <2>2 DEF IInv, Drawn
  <2> QED
    BY <1>1, <1>2, <2>1, <2>3, <2>4 DEF IInv, Drawn
<1> QED
  BY <1>2, <1>7, <1>8, <1>15, <1>16 DEF IInv, Gathering, Extracting

LEMMA EndExtractStep ==
  ASSUME IInv, EndExtract, UNCHANGED inputs
  PROVE  IInv'
<1>1. /\ pc = "extract" /\ pc' = "sort" /\ ids = {}
      /\ UNCHANGED <<index_data, insertion_data, ids, before, drawn>>
      /\ UNCHANGED <<data, lookupKeys, numLookups, write_portion>>
  BY DEF EndExtract, inputs
<1>2. TypeOK' /\ Gathering' /\ Extracting' /\ Distinct'
  BY <1>1 DEF IInv, TypeOK, Positions, Gathering, Extracting, Distinct, NoRepeats
<1>3. Drawn'
  BY <1>1 DEF IInv, Drawn, Kept, NoRepeats
<1> QED
  BY <1>2, <1>3 DEF IInv

LEMMA SortStep ==
  ASSUME IInv, Sort, UNCHANGED inputs
  PROVE  IInv'
<1>1. /\ pc = "sort" /\ pc' \in {"crashed", "build"}
      /\ index_data' \in SortedForms(index_data)
      /\ UNCHANGED <<insertion_data, ids, before, drawn>>
      /\ UNCHANGED <<data, lookupKeys, numLookups, write_portion>>
  BY DEF Sort, inputs
<1>2. /\ index_data' \in [DOMAIN index_data -> ToSet(index_data)]
      /\ ToSet(index_data') = ToSet(index_data) /\ NoRepeats(index_data')
  BY <1>1 DEF SortedForms
<1>3. index_data' \in Seq(Positions) /\ DOMAIN index_data' = DOMAIN index_data
  <2>1. index_data \in Seq(Positions)
    BY DEF IInv, TypeOK
  <2>2. Len(index_data) \in Nat /\ DOMAIN index_data = 1 .. Len(index_data)
        /\ ToSet(index_data) \subseteq Positions
    BY <2>1 DEF ToSet
  <2>3. index_data' \in [1 .. Len(index_data) -> Positions]
    BY <1>2, <2>2
  <2> QED
    BY <2>2, <2>3
<1>4. TypeOK'
  BY <1>1, <1>3 DEF IInv, TypeOK, Positions
<1>5. Gathering' /\ Extracting' /\ Distinct'
  BY <1>1, <1>2 DEF IInv, Gathering, Extracting, Distinct, NoRepeats
<1>6. Drawn'
  BY <1>1, <1>2 DEF IInv, Drawn, Kept, NoRepeats
<1> QED
  BY <1>4, <1>5, <1>6 DEF IInv

LEMMA NextInvariant == IInv /\ [Next]_vars => IInv'
<1> SUFFICES ASSUME IInv, [Next]_vars PROVE IInv'
  OBVIOUS
<1>1. CASE UNCHANGED vars
  <2>1. TypeOK' /\ Gathering' /\ Extracting' /\ Distinct'
    BY <1>1 DEF vars, IInv, TypeOK, Positions, Gathering, MayDraw, Extracting,
                Untouched, Distinct, NoRepeats
  <2>2. Drawn'
    BY <1>1 DEF vars, IInv, Drawn, Kept, NoRepeats
  <2> QED
    BY <2>1, <2>2 DEF IInv
<1> QED
  BY <1>1, DrawStep, EndGatherStep, ExtractStep, EndExtractStep, SortStep
     DEF Next, Step, Terminated

(***************************************************************************)
(* Type correctness.                                                        *)
(***************************************************************************)
THEOREM TypeCorrect == Spec => []TypeOK
<1>1. IInv => TypeOK
  BY DEF IInv
<1> QED
  BY <1>1, InitInvariant, NextInvariant, PTL DEF Spec

(***************************************************************************)
(* No entry of index_data_ is lost or doubled by the partition.             *)
(***************************************************************************)
THEOREM NothingLost == Spec => []Partitioned
<1>1. IInv => Partitioned
  <2> SUFFICES ASSUME IInv, pc \in {"extract", "sort", "build"}
               PROVE  /\ ToSet(before) \subseteq
                           ToSet(index_data) \cup ToSet(insertion_data)
                      /\ ToSet(index_data) \subseteq ToSet(before)
    BY DEF IInv, Distinct, Partitioned
  <2>1. /\ ToSet(index_data) = Kept
        /\ \A i \in drawn \ ids : before[i] \in ToSet(insertion_data)
    BY DEF IInv, Drawn
  <2> QED
    BY <2>1 DEF Kept, ToSet
<1> QED
  BY <1>1, InitInvariant, NextInvariant, PTL DEF Spec

(***************************************************************************)
(* What the index is built on is index_data_ without the entries drawn.     *)
(***************************************************************************)
THEOREM ExactlyTheDrawn == Spec => []WithheldAsDrawn
<1>1. IInv => WithheldAsDrawn
  BY DEF IInv, Drawn, Kept, WithheldAsDrawn
<1> QED
  BY <1>1, InitInvariant, NextInvariant, PTL DEF Spec

(***************************************************************************)
(* Every entry of a key that will be looked up stays with the index.        *)
(***************************************************************************)
THEOREM LookupsAreServed == Spec => []LookupsServed
<1>1. IInv => LookupsServed
  <2> SUFFICES ASSUME IInv, pc = "build", write_portion < Percent,
                      NEW i \in DOMAIN before, data[before[i]] \in lookupKeys
               PROVE  before[i] \in ToSet(index_data)
    BY DEF LookupsServed
  <2>1. write_portion # Percent
    OBVIOUS
  <2>2. i \notin drawn
    BY <2>1 DEF IInv, Drawn
  <2> QED
    BY <2>2 DEF IInv, Drawn, Kept
<1> QED
  BY <1>1, InitInvariant, NextInvariant, PTL DEF Spec
=============================================================================
