---------------------------- MODULE MCStructures ----------------------------
EXTENDS Structures

MCCuckooKeys == 1..6
MCHashPairs == {<<0, 1>>, <<1, 0>>, <<1, 2>>, <<2, 2>>}

MCDatasets ==
  {<<1, 2, 3, 4, 5>>, <<1, 2, 2, 3, 4>>, <<1, 1, 2, 3, 3>>, <<1, 2, 3, 4, 6>>, <<1, 2, 6, 6>>}

(* Sorted keys spread evenly, and one key over and over.                     *)
MCLoads ==
  {[j \in 1..count |-> ((j - 1) * Cardinality(TreeKeys)) \div count] : count \in 0..MaxItems}
    \cup {[j \in 1..count |-> 1] : count \in 0..MaxItems}

MCRanges == {<<<<3, 0>>, <<7, 1>>, <<3, 1>>>>}
MCMaxLoads == {<<1, 2>>, <<19, 20>>}
MCMinLoads == {<<0, 1>>, <<3, 20>>}
=============================================================================
