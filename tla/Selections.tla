----------------------------- MODULE Selections -----------------------------
(***************************************************************************)
(* The elements of a sequence at a set of places: what a loop leaves that      *)
(* goes through a vector and keeps some of it.                              *)
(***************************************************************************)
EXTENDS Integers, Sequences, FiniteSets

(* The elements of `s` at the places in P, in order.                         *)
Rank(P, i) == Cardinality({j \in P : j <= i})

PairsAt(s, P) ==
  [k \in 1 .. Cardinality(P) |-> s[CHOOSE i \in P : Rank(P, i) = k]]
=============================================================================
