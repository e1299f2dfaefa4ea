--------------------------- MODULE WritePartition ---------------------------
(***************************************************************************)
(* The write partition of Benchmark::Run (src/benchmark.h, lines 138 to      *)
(* 206): before an index is built, random entries of index_data_ are put     *)
(* aside in insertion_data_, to be inserted while the benchmark runs.        *)
(*                                                                          *)
(* An entry {key, position} of index_data_ is represented by its position,  *)
(* which determines the key.  Vectors are sequences, so ids are counted      *)
(* from 1 here; positions are rows of data_ and counted from 0.              *)
(***************************************************************************)
EXTENDS Integers, Sequences, FiniteSets, SequencesExt

CONSTANTS Keys,           \* values of KeyType
          MaxRows,        \* bound on the number of rows of the dataset
          MaxLookups,     \* bound on the number of lookups
          Percent,        \* 100 in the code: the whole of write_portion_
          SlackDivisor    \* one extra entry per this many lookups: 1000

ASSUME PartitionAssumption ==
  /\ Keys \subseteq Nat /\ Keys # {}
  /\ MaxRows \in Nat \ {0} /\ MaxLookups \in Nat
  /\ Percent \in Nat \ {0} /\ SlackDivisor \in Nat \ {0}

VARIABLES data,            \* key of each row of data_, numbered from 0
          lookupKeys,       \* keys of lookups_
          numLookups,       \* lookups_.size()
          write_portion,    \* write_portion_, out of Percent
          pc,               \* "gather", "extract", "sort", "build", "crashed"
          index_data,       \* index_data_
          insertion_data,   \* insertion_data_
          ids,              \* ids gathered and not extracted yet
          before,           \* history: index_data_ when gathering ended
          drawn             \* history: the ids gathered

inputs == <<data, lookupKeys, numLookups, write_portion>>
vars == <<data, lookupKeys, numLookups, write_portion,
          pc, index_data, insertion_data, ids, before, drawn>>

Positions == DOMAIN data

SortedByKey(s) ==
  \A i, j \in DOMAIN s : i <= j => data[s[i]] <= data[s[j]]

NoRepeats(s) == \A i, j \in DOMAIN s : s[i] = s[j] => i = j

Init ==
  /\ \E n \in 1 .. MaxRows : \E m \in 1 .. n :
       /\ data \in [0 .. n - 1 -> Keys]
       /\ \A p, q \in 0 .. n - 1 : p <= q => data[p] <= data[q]
       /\ index_data \in [1 .. m -> 0 .. n - 1]
       /\ NoRepeats(index_data) /\ SortedByKey(index_data)
       /\ insertion_data \in
            {<<>>} \cup {<<p>> : p \in (0 .. n - 1) \ ToSet(index_data)}
  /\ lookupKeys \in SUBSET Keys
  /\ numLookups \in Cardinality(lookupKeys) .. MaxLookups
  /\ numLookups = 0 <=> lookupKeys = {}
  /\ write_portion \in 1 .. Percent
  /\ pc = "gather"
  /\ ids = {}
  /\ before = <<>> /\ drawn = {}

(* Number of ids to gather: with less than 100% writes a few more than the   *)
(* write requests to expect.  The code counts them, and the rows, in ints:     *)
(* no dataset or lookup file here has 2^31 of either.                        *)
Target ==
  IF write_portion = Percent THEN numLookups
  ELSE (numLookups * write_portion) \div Percent + numLookups \div SlackDivisor

MayDrawAny(id) == TRUE

(* Ids that may be gathered: "we need to ensure we don't have a conflict     *)
(* with the lookup keys", unless nothing will be looked up.                  *)
MayDraw(id) ==
  write_portion = Percent \/ data[index_data[id]] \notin lookupKeys

DrawShort ==
  /\ pc = "gather"
  /\ Cardinality(ids) < Target
  /\ \E id \in 1 .. Len(index_data) - 1 :
       ids' = IF MayDraw(id) THEN ids \cup {id} ELSE ids
  /\ UNCHANGED <<pc, index_data, insertion_data, before, drawn>>

(* One turn of a while loop that draws ids.  A draw of an unwanted or known  *)
(* id changes nothing.                                                      *)
Draw ==
  /\ pc = "gather"
  /\ Cardinality(ids) < Target
  /\ \E id \in DOMAIN index_data :
       ids' = IF MayDraw(id) THEN ids \cup {id} ELSE ids
  /\ UNCHANGED <<pc, index_data, insertion_data, before, drawn>>

(* The ids are sorted downwards, and the first of them printed: ids[0] of an  *)
(* empty vector reads through a null pointer.                               *)
EndGather ==
  /\ pc = "gather"
  /\ Cardinality(ids) >= Target
  /\ before' = index_data /\ drawn' = ids
  /\ pc' \in IF ids = {} THEN {"crashed", "extract"} ELSE {"extract"}
  /\ UNCHANGED <<index_data, insertion_data, ids>>

(* The ids come in falling order.                                           *)
LargestLeft(id) == \A other \in ids : other <= id

ExtractGap ==
  /\ pc = "extract"
  /\ \E id \in ids :
       /\ LargestLeft(id)
       /\ insertion_data' = Append(insertion_data, index_data[id])
       /\ index_data' = [i \in 1 .. Len(index_data) - 1 |-> index_data[i]]
       /\ ids' = ids \ {id}
  /\ UNCHANGED <<pc, before, drawn>>

(* for (int id : ids): the entry goes to the insertion data, the last entry   *)
(* of index_data_ takes its place.                                          *)
Extract ==
  /\ pc = "extract"
  /\ \E id \in ids :
       /\ LargestLeft(id)
       /\ insertion_data' = Append(insertion_data, index_data[id])
       /\ index_data' = [i \in 1 .. Len(index_data) - 1 |->
                           index_data[IF i = id THEN Len(index_data) ELSE i]]
       /\ ids' = ids \ {id}
  /\ UNCHANGED <<pc, before, drawn>>

EndExtract ==
  /\ pc = "extract"
  /\ ids = {}
  /\ pc' = "sort"
  /\ UNCHANGED <<index_data, insertion_data, ids, before, drawn>>

(* std::sort by key only: entries with equal keys end in any order.  The      *)
(* smallest and the largest key are printed: index_data_[size() - 1] of a     *)
(* vector with nothing left is in front of its memory.                       *)
SortedForms(s) ==
  {t \in [DOMAIN s -> ToSet(s)] :
     ToSet(t) = ToSet(s) /\ NoRepeats(t) /\ SortedByKey(t)}

Sort ==
  /\ pc = "sort"
  /\ index_data' \in SortedForms(index_data)
  /\ pc' \in IF index_data = <<>> THEN {"crashed", "build"} ELSE {"build"}
  /\ UNCHANGED <<insertion_data, ids, before, drawn>>

Terminated == pc \in {"build", "crashed"} /\ UNCHANGED vars

Step == Draw \/ EndGather \/ Extract \/ EndExtract \/ Sort

Next == (Step /\ UNCHANGED inputs) \/ Terminated

(* The engine is not stuck on a set of ids: one that is wanted and new comes  *)
(* up eventually.                                                           *)
Spec == Init /\ [][Next]_vars /\ WF_vars(Next)
-----------------------------------------------------------------------------
TypeOK ==
  /\ pc \in {"gather", "extract", "sort", "build", "crashed"}
  /\ index_data \in Seq(Positions) /\ insertion_data \in Seq(Positions)
  /\ before \in Seq(Positions)
  /\ ids \subseteq DOMAIN index_data
  /\ drawn \subseteq DOMAIN before

(***************************************************************************)
(* No entry is lost or doubled: what was in index_data_ is, once, either     *)
(* still there or in the insertion data, whatever was in that before.        *)
(***************************************************************************)
Partitioned ==
  pc \in {"extract", "sort", "build"} =>
    /\ NoRepeats(index_data) /\ NoRepeats(insertion_data)
    /\ ToSet(index_data) \cap ToSet(insertion_data) = {}
    /\ ToSet(before) \subseteq ToSet(index_data) \cup ToSet(insertion_data)
    /\ ToSet(index_data) \subseteq ToSet(before)

(***************************************************************************)
(* The entries put aside are exactly those drawn: moving the last entry into *)
(* the gap never disturbs an id that is still to come.                      *)
(***************************************************************************)
WithheldAsDrawn ==
  pc \in {"sort", "build"} =>
    ToSet(index_data) = {before[i] : i \in DOMAIN before \ drawn}

(***************************************************************************)
(* With less than 100% writes every key that will be looked up is in the     *)
(* index when it is built, as often as index_data_ had it.                   *)
(***************************************************************************)
LookupsServed ==
  pc = "build" /\ write_portion < Percent =>
    \A i \in DOMAIN before :
      data[before[i]] \in lookupKeys => before[i] \in ToSet(index_data)

(***************************************************************************)
(* If there are enough entries to put aside, Run gets to the end; it builds   *)
(* the index if something is to be put aside and something is left of it (the *)
(* first element of either vector is printed, empty or not).  If there are    *)
(* not enough, the loop has no other way out.                                *)
(***************************************************************************)
Enough == Target <= Cardinality({id \in DOMAIN index_data : MayDraw(id)})

GatheringEnds ==
  /\ Enough => <>(pc \in {"build", "crashed"})
  /\ Enough /\ Target \in 1 .. Len(index_data) - 1 => <>(pc = "build")
  /\ ~Enough => [](pc = "gather")
=============================================================================
