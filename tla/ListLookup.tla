----------------------------- MODULE ListLookup -----------------------------
(***************************************************************************)
(* One competitor built over a whole dataset and asked for keys in it, the   *)
(* setting of a read-only benchmark.  The dictionary in it is the sorted list  *)
(* of its pairs (IndexWrappers); IndexLookup puts the trees of ART and IBTree  *)
(* in its place.                                                            *)
(***************************************************************************)
EXTENDS IndexWrappers

CONSTANT Trials      \* [competitor, keys]: a [kind, scale] and the key of each row

ASSUME ListLookupAssumption ==
  /\ KeyRange \in Nat \ {0} /\ RowRange \in Nat
  /\ \A t \in Trials :
       /\ t.competitor \in [kind : Kinds, scale : Nat \ {0}]
       /\ t.keys \in Seq(0 .. KeyRange - 1) \ {<<>>}
       /\ Len(t.keys) < RowRange
       /\ \A i, j \in DOMAIN t.keys : i <= j => t.keys[i] <= t.keys[j]

VARIABLES competitor,
          keys,       \* key of each row; rows are numbered from 0
          index,      \* the competitor's state
          pc,         \* "build", "lookup" or "answered"
          lookup_key,
          bound       \* what EqualityLookup answered

listed == <<competitor, keys, index, pc, lookup_key, bound>>

Unique == \A i, j \in DOMAIN keys : keys[i] = keys[j] => i = j

IndexData == [i \in DOMAIN keys |-> [key |-> keys[i], val |-> i - 1]]

ListInit ==
  /\ \E t \in Trials : competitor = t.competitor /\ keys = t.keys
  /\ Applicable(competitor, Unique)
  /\ pc = "build"
  /\ index = Unbuilt
  /\ lookup_key = keys[1]
  /\ bound = Window(0, 0)

BuildList ==
  /\ pc = "build"
  /\ index' = Load(competitor, IndexData)
  /\ pc' = "lookup"
  /\ UNCHANGED <<competitor, keys, lookup_key, bound>>

(* EqualityLookup of a key in the data, with the windows it may answer (the   *)
(* cuckoo map may fail instead, and the program with it).                    *)
Ask(key, windows) ==
  /\ pc \in {"lookup", "answered"}
  /\ lookup_key' = key
  /\ bound' \in windows
  /\ pc' = "answered"
  /\ UNCHANGED <<competitor, keys, index>>

AskList ==
  \E i \in DOMAIN keys : Ask(keys[i], Windows(competitor, index, keys[i]))

ListNext == BuildList \/ AskList

ListSpec == ListInit /\ [][ListNext]_listed
-----------------------------------------------------------------------------
FirstRow == CHOOSE p \in 0 .. Len(keys) - 1 :
              /\ keys[p + 1] = lookup_key
              /\ \A q \in 0 .. p - 1 : keys[q + 1] # lookup_key

(* Wormhole answers with rows it has only from its second stored key on, and *)
(* asks for the key before the one looked up: 0 has none.                   *)
WormholeGap ==
  /\ competitor.kind = "Wormhole"
  /\ lookup_key = 0 \/ Len(index.entries) < 2

(* The cuckoo map knows the last row of a key only.                         *)
LastRowOnly == competitor.kind = "CuckooMap" /\ ~Unique

(***************************************************************************)
(* Whatever the competitor keeps of the dataset, the window it answers with  *)
(* holds the first row of the key (searches look at `stop` as well), so each *)
(* search of src/searches then finds them all.                              *)
(***************************************************************************)
CoversFirst ==
  pc = "answered" /\ ~ WormholeGap /\ ~ LastRowOnly =>
    FirstRow \in bound.start .. bound.stop

(***************************************************************************)
(* A competitor that keeps one pair in `scale` narrows the search down to    *)
(* about as many rows.  It is twice as many where the guess is extended to    *)
(* both sides (FST) or to the end of the data after the last pair but one     *)
(* (Wormhole).  Only FST has the whole dataset searched instead, where its    *)
(* trie errs.  No window ends beyond the data, where only the warm path of    *)
(* the benchmark would cut it.                                              *)
(***************************************************************************)
Narrow ==
  pc = "answered" /\ ~ WormholeGap =>
    /\ bound.stop <= Len(keys)
    /\ \/ competitor.kind = "FST" /\ bound = Window(0, Len(keys))
       \/ bound.stop - bound.start <=
            CASE competitor.kind = "BS" -> Len(keys)
              [] competitor.kind \in {"BTree", "ALEX", "ART", "IBTree"} ->
                   competitor.scale
              [] competitor.kind = "PGM" -> competitor.scale + 1
              [] HashMap(competitor) -> 1
              [] competitor.kind = "Wormhole" -> 2 * competitor.scale
              [] competitor.kind = "FST" -> 2 * competitor.scale + 1
=============================================================================
