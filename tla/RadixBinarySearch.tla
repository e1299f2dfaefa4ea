-------------------------- MODULE RadixBinarySearch --------------------------
(***************************************************************************)
(* src/competitors/radix_binary_search.h: a table with, for each prefix of    *)
(* num_radix_bits bits of a key less the smallest, the first row that has it. *)
(***************************************************************************)
EXTENDS Integers, PowersOfTwo

CONSTANTS num_radix_bits,
          KeyBits,      \* width of KeyType
          MaxRows       \* bound on the number of rows

RadixConstants ==
  /\ num_radix_bits \in Nat \ {0} /\ KeyBits \in Nat
  /\ num_radix_bits <= KeyBits /\ MaxRows \in Nat \ {0}

RadixKeys == 0 .. Pow2[KeyBits] - 1
Prefixes == 0 .. Pow2[num_radix_bits]

VARIABLES data, n,        \* key of each row, number of rows
          radix_hint,     \* a row for each prefix, and one more
          i, prev_prefix, \* rows scanned, prefix of the last of them
          pc,             \* "scan", "built" or "answered"
          lookup_key, start, stop

vars == <<data, n, radix_hint, i, prev_prefix, pc, lookup_key, start, stop>>

MinKey == data[0]
MaxKey == data[n - 1]

(* KeyBits - clz(val).  clz(0) is undefined, but shifts a 0 only.            *)
Significant(val) ==
  CHOOSE b \in 0 .. KeyBits : val < Pow2[b] /\ (b = 0 \/ val >= Pow2[b - 1])

shift_bits(val) ==
  IF Significant(val) < num_radix_bits THEN 0
  ELSE Significant(val) - num_radix_bits

Prefix(key) == (key - MinKey) \div Pow2[shift_bits(MaxKey - MinKey)]

Init ==
  /\ n \in 1 .. MaxRows
  /\ data \in [0 .. n - 1 -> RadixKeys]
  /\ \A p, q \in 0 .. n - 1 : p <= q => data[p] <= data[q]
  /\ radix_hint = [j \in Prefixes |-> 0]
  /\ i = 0 /\ prev_prefix = 0
  /\ pc = "scan"
  /\ lookup_key = 0 /\ start = 0 /\ stop = 0

(* radix_hint_[j] = row for the j in P.                                     *)
Mark(P, row) ==
  radix_hint' = [j \in Prefixes |-> IF j \in P THEN row ELSE radix_hint[j]]

ScanOnlyNew ==
  /\ pc = "scan" /\ i < n
  /\ Mark({Prefix(data[i])} \ {prev_prefix}, i)
  /\ prev_prefix' = Prefix(data[i])
  /\ i' = i + 1
  /\ UNCHANGED <<data, n, pc, lookup_key, start, stop>>

(* One row of Build's loop: prefixes no row has are marked on the way.       *)
Scan ==
  /\ pc = "scan" /\ i < n
  /\ Mark(prev_prefix + 1 .. Prefix(data[i]), i)
  /\ prev_prefix' = Prefix(data[i])
  /\ i' = i + 1
  /\ UNCHANGED <<data, n, pc, lookup_key, start, stop>>

FillRest ==
  /\ pc = "scan" /\ i = n
  /\ Mark(prev_prefix + 1 .. Pow2[num_radix_bits], n)
  /\ prev_prefix' = Pow2[num_radix_bits]
  /\ pc' = "built"
  /\ UNCHANGED <<data, n, i, lookup_key, start, stop>>

Answer(from, to) == start' = from /\ stop' = to

(* The rows of a prefix, and one more on either side.                       *)
AnswerPrefix(p) ==
  LET begin == radix_hint[p]
      end == radix_hint[p + 1]
  IN  Answer(IF begin # 0 THEN begin - 1 ELSE begin,
             IF end # n THEN end + 1 ELSE end)

EqualityLookup ==
  /\ pc \in {"built", "answered"}
  /\ \E key \in RadixKeys :
       /\ lookup_key' = key
       /\ IF key < MinKey THEN Answer(0, 1)
          ELSE IF key > MaxKey THEN Answer(n - 1, n)
          ELSE AnswerPrefix(IF Prefix(key) > Pow2[num_radix_bits] - 1
                            THEN Pow2[num_radix_bits] - 1 ELSE Prefix(key))
  /\ pc' = "answered"
  /\ UNCHANGED <<data, n, radix_hint, i, prev_prefix>>

Next == Scan \/ FillRest \/ EqualityLookup

Spec == Init /\ [][Next]_vars
-----------------------------------------------------------------------------
(***************************************************************************)
(* The window holds the place of any key, in the data or not: only smaller    *)
(* keys lie in front of it and only larger ones behind.  So the binary search *)
(* in it ends where one in all of the data would.                            *)
(***************************************************************************)
HoldsPlace ==
  pc = "answered" =>
    /\ \A p \in 0 .. start - 1 : data[p] < lookup_key
    /\ \A p \in stop .. n - 1 : data[p] >= lookup_key
=============================================================================
