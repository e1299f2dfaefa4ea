---------------------------- MODULE MCIndexLookup ----------------------------
EXTENDS IndexLookup

SortedRows(n, K) ==
  {s \in [1 .. n -> K] : \A i, j \in 1 .. n : i <= j => s[i] <= s[j]}

(* Every dataset of up to six rows with keys up to five.                    *)
Small == UNION {SortedRows(n, 0 .. 5) : n \in 1 .. 6}

SmallTrials ==
  [competitor :
     [kind : {"BTree", "ALEX", "PGM", "ART", "IBTree", "FST", "Wormhole"},
      scale : 1 .. 3] \cup [kind : {"BS", "RobinHash", "CuckooMap"}, scale : {1}],
   keys : Small]

(* For the two trees, keys of three bytes: nodes of all sizes, prefixes of no, *)
(* one and two bytes, three layers; the largest key of all as well.           *)
Spread == <<0, 1, 2, 3, 4, 25, 30, 31, 63, 75, 124>>

SpreadTrials ==
  [competitor : [kind : {"ART", "IBTree"}, scale : 1 .. 3],
   keys : {SelectSeq(Spread, LAMBDA k : k \in K) :
             K \in (SUBSET {Spread[i] : i \in DOMAIN Spread}) \ {{}}}]

SmallAndSpread == SmallTrials \cup SpreadTrials
=============================================================================
