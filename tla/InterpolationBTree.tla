-------------------------- MODULE InterpolationBTree --------------------------
(***************************************************************************)
(* The tree behind the IBTree competitor (BTree of                           *)
(* src/competitors/interpolation_btree.h): loaded once from pairs [key, val]  *)
(* in key order, layer by layer from the leaves up, and then only read.        *)
(*                                                                          *)
(* A leaf holds the keys and values of up to LeafEntries pairs.  An inner      *)
(* node holds its children and, for all but the last, the largest key below.  *)
(***************************************************************************)
LOCAL INSTANCE Integers
LOCAL INSTANCE Sequences
LOCAL INSTANCE SequencesExt

CONSTANTS LeafEntries, InnerEntries   \* MAX_ENTRIES of each, 256 in the code

(* The code asserts that an inner node has two children or more, and with     *)
(* InnerEntries = 2 it would give the last of three nodes a parent of its own.  *)
InterpolationBTreeConstants ==
  LeafEntries \in Nat \ {0} /\ InnerEntries \in Nat \ (0 .. 2)

Lesser(a, b) == IF a < b THEN a ELSE b

Ceiling(n, d) == n \div d + (IF n % d = 0 THEN 0 ELSE 1)
-----------------------------------------------------------------------------
(* LowerBound in the keys of a node (positions from 0): first a guess, by the  *)
(* slope Init has worked out (in doubles, which may round: from wherever it     *)
(* starts the linear search finds the place) ...                             *)
Estimate(keys, key) ==
  Lesser((Len(keys) * (key - keys[1])) \div (Last(keys) - keys[1]),
         Len(keys) - 1)

(* ... back over keys that are not less, and forth over keys that are.         *)
Back(keys, key, idx) ==
  CHOOSE i \in 0 .. idx :
    /\ i = 0 \/ keys[i + 1] < key
    /\ \A j \in i + 1 .. idx : keys[j + 1] >= key

Forth(keys, key, idx) ==
  CHOOSE i \in idx .. Len(keys) :
    /\ i = Len(keys) \/ keys[i + 1] >= key
    /\ \A j \in idx .. i - 1 : keys[j + 1] < key

LowerBound(keys, key) ==
  IF key <= keys[1] THEN 0
  ELSE IF key > Last(keys) THEN Len(keys)
  ELSE Forth(keys, key, Back(keys, key, Estimate(keys, key)))
-----------------------------------------------------------------------------
(* FastLoadGenerate: full leaves but for the last one, each with the largest   *)
(* key in it ...                                                            *)
Leaf(pairs) ==
  [last |-> Last(pairs).key,
   node |-> [isLeaf |-> TRUE,
             keys |-> [i \in DOMAIN pairs |-> pairs[i].key],
             values |-> [i \in DOMAIN pairs |-> pairs[i].val]]]

Leaves(pairs) ==
  [l \in 1 .. Ceiling(Len(pairs), LeafEntries) |->
     Leaf(SubSeq(pairs, (l - 1) * LeafEntries + 1,
                 Lesser(l * LeafEntries, Len(pairs))))]

InnerOfFirst(group) ==
  [last |-> Head(group).last,
   node |-> [isLeaf |-> FALSE,
             keys |-> [i \in 1 .. Len(group) - 1 |-> group[i].last],
             children |-> [i \in DOMAIN group |-> group[i].node]]]

Inner(group) ==
  [last |-> Last(group).last,
   node |-> [isLeaf |-> FALSE,
             keys |-> [i \in 1 .. Len(group) - 1 |-> group[i].last],
             children |-> [i \in DOMAIN group |-> group[i].node]]]

(* ... then, over a layer of more than one node, the least number of inner     *)
(* nodes it takes.  As many as need be get `wide` children, those behind them  *)
(* one child less.                                                          *)
Layer(nodes) ==
  LET total == Len(nodes)
      required == Ceiling(total, InnerEntries)
      wide == total \div required + (IF total % InnerEntries = 0 THEN 0 ELSE 1)
      wides == total - required * (wide - 1)
      end(i) == i * (wide - 1) + Lesser(i, wides)
  IN  [i \in 1 .. required |-> Inner(SubSeq(nodes, end(i - 1) + 1, end(i)))]

RECURSIVE Root(_)
Root(nodes) == IF Len(nodes) = 1 THEN nodes[1].node ELSE Root(Layer(nodes))

FastLoadGenerate(pairs) == Root(Leaves(pairs))
-----------------------------------------------------------------------------
(* Lookup: the value of the first key not less, a row; or an entry of the last *)
(* leaf in which nothing was stored.                                        *)
Unset == -1

RECURSIVE Lookup(_, _)
Lookup(node, key) ==
  LET pos == LowerBound(node.keys, key) + 1 IN
  IF ~ node.isLeaf THEN Lookup(node.children[pos], key)
  ELSE IF pos > Len(node.values) THEN Unset
  ELSE node.values[pos]
=============================================================================
