----------------------------- MODULE PowersOfTwo -----------------------------
(***************************************************************************)
(* Powers of two as a recursive function: shifts of the code multiply and     *)
(* divide by them.  (The provers know nothing of the operator ^.)            *)
(***************************************************************************)
LOCAL INSTANCE Integers

Pow2[n \in Nat] == IF n = 0 THEN 1 ELSE 2 * Pow2[n - 1]
=============================================================================
