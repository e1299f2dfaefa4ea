----------------------------- MODULE IndexLookup -----------------------------
(***************************************************************************)
(* ListLookup with the trees of ART and IBTree, which answer in place of the  *)
(* sorted lists of their pairs.                                             *)
(***************************************************************************)
EXTENDS ListLookup

CONSTANTS
  KeyBytes, ByteRange, Node4Size, Node16Size, Node48Size,  \* AdaptiveRadixTree
  LeafEntries, InnerEntries                                \* InterpolationBTree

Art == INSTANCE AdaptiveRadixTree
IBTree == INSTANCE InterpolationBTree

ASSUME IndexLookupAssumption ==
  /\ Art!ARTConstants /\ KeyRange <= ByteRange ^ KeyBytes
  /\ IBTree!InterpolationBTreeConstants

VARIABLE tree         \* the tree of ART and IBTree

vars == <<listed, tree>>

Init == ListInit /\ tree = Art!NoNode

TreeOf(entries) ==
  CASE competitor.kind = "ART" -> Art!Tree(entries)
    [] competitor.kind = "IBTree" -> IBTree!FastLoadGenerate(entries)
    [] OTHER -> Art!NoNode

Build == BuildList /\ tree' = TreeOf(index'.entries)

(* EqualityLookup of ART: bound, and the window before what it finds.         *)
ARTWindow(key) ==
  LET leaf == Art!LowerBound(tree, key)
      found == leaf # Art!NoNode
      guess == IF found THEN leaf.entry.val ELSE index.size - 1
  IN  Window(Below(guess, competitor.scale - 1), guess + 1)

(* EqualityLookup of IBTree.                                                *)
IBTreeWindow(ub) == Window(Below(ub, competitor.scale), ub)

Answers(key) ==
  CASE competitor.kind = "ART" -> {ARTWindow(key)}
    [] competitor.kind = "IBTree" ->
         LET ub == IBTree!Lookup(tree, key) IN
         {IBTreeWindow(row) : row \in IF ub = IBTree!Unset THEN Garbage ELSE {ub}}
    [] OTHER -> Windows(competitor, index, key)

EqualityLookup ==
  /\ \E i \in DOMAIN keys : Ask(keys[i], Answers(keys[i]))
  /\ UNCHANGED tree

Next == Build \/ EqualityLookup

Spec == Init /\ [][Next]_vars
-----------------------------------------------------------------------------
(***************************************************************************)
(* The trees of ART and IBTree, whatever nodes and layers they have grown,     *)
(* answer for every key, in the data or not, as a search in the sorted list    *)
(* of their pairs would: so the benchmark is modelled with that list.         *)
(***************************************************************************)
AnswersAsListed ==
  pc = "lookup" /\ competitor.kind \in {"ART", "IBTree"} =>
    \A key \in 0 .. KeyRange - 1 : Answers(key) = Windows(competitor, index, key)
=============================================================================
