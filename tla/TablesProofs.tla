----------------------------- MODULE TablesProofs -----------------------------
(***************************************************************************)
(* CuckooMap and RBS keep what they promise for all sizes, widths and data,    *)
(* and so does RobinHash: the second half, about RobinMap, follows the        *)
(* entries of a table through all that its operations do with them.          *)
(***************************************************************************)
EXTENDS Tables, RobinMap, Foundations

(* The powers of two of the instance are those of Foundations.               *)
LEMMA SamePow2 == Radix!Pow2 = Pow2
  BY DEF Radix!Pow2, Pow2

(* RBS.  Build shifts by so much that the largest key just fits the table.    *)
RadixData ==
  /\ n \in Nat \ {0}
  /\ \A p \in 0 .. n - 1 : data[p] \in Radix!RadixKeys
  /\ \A p, q \in 0 .. n - 1 : p <= q => data[p] <= data[q]

Unit == Pow2[Radix!shift_bits(Radix!MaxKey - Radix!MinKey)]

LEMMA SignificantExists ==
  ASSUME NEW val \in 0 .. Pow2[KeyBits] - 1
  PROVE  Radix!Significant(val) \in 0 .. KeyBits /\ val < Pow2[Radix!Significant(val)]
<1>1. KeyBits \in Nat /\ Pow2[KeyBits] \in Nat /\ val \in Nat
  BY TablesAssumption, Pow2Laws DEF Radix!RadixConstants
<1> DEFINE T == {b \in 0 .. KeyBits : val < Pow2[b]}
<1>2. KeyBits \in T
  BY <1>1
<1>3. PICK b \in T : \A c \in T : b <= c
  <2>1. T \subseteq Nat
    BY <1>1
  <2> HIDE DEF T
  <2> QED
    BY <1>2, <2>1, LeastNatural
<1>4. b = 0 \/ val >= Pow2[b - 1]
  <2>1. ASSUME b # 0 PROVE val >= Pow2[b - 1]
    <3>1. b - 1 \in 0 .. KeyBits /\ b - 1 \notin T
      BY <1>1, <1>3, <2>1
    <3>2. b - 1 \in Nat /\ ~ (val < Pow2[b - 1])
      BY <3>1
    <3>3. Pow2[b - 1] \in Nat
      BY <3>2, Pow2Laws
    <3> QED
      BY <1>1, <3>2, <3>3
  <2> QED
    BY <2>1
<1>5. \E c \in 0 .. KeyBits : val < Pow2[c] /\ (c = 0 \/ val >= Pow2[c - 1])
  BY <1>3, <1>4
<1> QED
  BY <1>5, SamePow2 DEF Radix!Significant

LEMMA RadixKeys ==
  ASSUME RadixData
  PROVE  /\ \A p \in 0 .. n - 1 : data[p] \in Nat /\ Radix!MinKey <= data[p]
                                  /\ data[p] <= Radix!MaxKey
         /\ Radix!MinKey \in Nat /\ Radix!MaxKey \in Nat
         /\ Radix!MaxKey - Radix!MinKey \in 0 .. Pow2[KeyBits] - 1
         /\ Unit \in Nat \ {0}
<1>1. Pow2[KeyBits] \in Nat
  BY TablesAssumption, Pow2Laws DEF Radix!RadixConstants
<1>2. \A p \in 0 .. n - 1 : data[p] \in Nat /\ data[p] < Pow2[KeyBits]
  BY <1>1, SamePow2 DEF RadixData, Radix!RadixKeys
<1>3. 0 \in 0 .. n - 1 /\ n - 1 \in 0 .. n - 1 /\ \A p \in 0 .. n - 1 : 0 <= p /\ p <= n - 1
  BY DEF RadixData
<1>4. \A p \in 0 .. n - 1 : Radix!MinKey <= data[p] /\ data[p] <= Radix!MaxKey
  BY <1>3 DEF RadixData, Radix!MinKey, Radix!MaxKey
<1>5. /\ Radix!MinKey \in Nat /\ Radix!MaxKey \in Nat
      /\ Radix!MinKey <= Radix!MaxKey /\ Radix!MaxKey < Pow2[KeyBits]
  BY <1>2, <1>3, <1>4 DEF Radix!MinKey, Radix!MaxKey
<1>6. Radix!MaxKey - Radix!MinKey \in 0 .. Pow2[KeyBits] - 1
  BY <1>1, <1>5
<1>7. Radix!shift_bits(Radix!MaxKey - Radix!MinKey) \in Nat
  BY <1>6, SignificantExists, TablesAssumption DEF Radix!shift_bits, Radix!RadixConstants
<1>8. Unit \in Nat \ {0}
  BY <1>7, Pow2Laws DEF Unit
<1> QED
  BY <1>2, <1>4, <1>5, <1>6, <1>8

(* Larger keys have no smaller prefixes.                                    *)
LEMMA PrefixMonotone ==
  ASSUME RadixData, NEW a \in Nat, NEW b \in Nat, Radix!MinKey <= a, a <= b
  PROVE  /\ Radix!Prefix(a) \in Nat /\ Radix!Prefix(b) \in Nat
         /\ Radix!Prefix(a) <= Radix!Prefix(b)
<1>1. Radix!MinKey \in Nat /\ Unit \in Nat \ {0}
  BY RadixKeys
<1> DEFINE x == a - Radix!MinKey
           y == b - Radix!MinKey
<1>2. x \in Nat /\ y \in Nat /\ x <= y
  BY <1>1
<1>3. Radix!Prefix(a) = x \div Unit /\ Radix!Prefix(b) = y \div Unit
  BY SamePow2 DEF Radix!Prefix, Unit
<1> HIDE DEF x, y
<1>4. /\ x \div Unit \in Nat /\ y \div Unit \in Nat
      /\ Unit * (x \div Unit) <= x /\ y < Unit * (y \div Unit) + Unit
  BY <1>1, <1>2
<1>5. x \div Unit <= y \div Unit
  <2>1. Unit * (x \div Unit) < Unit * (y \div Unit + 1)
    BY <1>1, <1>2, <1>4
  <2> QED
    BY <1>1, <1>4, <2>1
<1> QED
  BY <1>3, <1>4, <1>5

(***************************************************************************)
(* The table of RBS suffices: the prefix of no key of the data is beyond it,   *)
(* so Build never writes behind radix_hint_.                                 *)
(***************************************************************************)
THEOREM PrefixesFit ==
  ASSUME RadixData
  PROVE  Radix!Prefix(Radix!MaxKey) < Pow2[num_radix_bits]
<1> DEFINE d == Radix!MaxKey - Radix!MinKey
           b == Radix!Significant(d)
           s == Radix!shift_bits(d)
<1>1. d \in Nat /\ b \in Nat /\ d < Pow2[b] /\ num_radix_bits \in Nat
  BY RadixKeys, SignificantExists, TablesAssumption, Pow2Laws DEF Radix!RadixConstants
<1>2. s = IF b < num_radix_bits THEN 0 ELSE b - num_radix_bits
  BY DEF Radix!shift_bits
<1>3. Radix!Prefix(Radix!MaxKey) = d \div Pow2[s]
  BY SamePow2 DEF Radix!Prefix
<1> HIDE DEF d, b, s
<1>4. Pow2[b] \in Nat /\ Pow2[num_radix_bits] \in Nat \ {0}
  BY <1>1, Pow2Laws
<1>5. CASE b < num_radix_bits
  <2>1. s = 0 /\ Pow2[s] = 1
    BY <1>2, <1>5, Pow2Laws
  <2>2. Pow2[b] <= Pow2[num_radix_bits]
    BY <1>1, <1>5, Pow2Grows
  <2>3. d \div 1 = d
    BY <1>1
  <2> QED
    BY <1>1, <1>3, <1>4, <2>1, <2>2, <2>3
<1>6. CASE ~ (b < num_radix_bits)
  <2>1. s \in Nat /\ num_radix_bits + s = b
    BY <1>1, <1>2, <1>6
  <2>2. Pow2[b] = Pow2[num_radix_bits] * Pow2[s] /\ Pow2[s] \in Nat \ {0}
    BY <1>1, <2>1, Pow2Sum, Pow2Laws
  <2>3. d \div Pow2[s] \in Nat /\ Pow2[s] * (d \div Pow2[s]) <= d
    BY <1>1, <2>2
  <2>4. Pow2[s] * (d \div Pow2[s]) < Pow2[s] * Pow2[num_radix_bits]
    BY <1>1, <1>4, <2>2, <2>3
  <2> QED
    BY <1>3, <1>4, <2>2, <2>3, <2>4
<1> QED
  BY <1>5, <1>6
-----------------------------------------------------------------------------
(* The row noted for a prefix is the first that has it or a larger one.       *)
FirstRowOf(j) ==
  /\ radix_hint[j] \in 0 .. n
  /\ \A p \in 0 .. radix_hint[j] - 1 : Radix!Prefix(data[p]) < j
  /\ \A p \in radix_hint[j] .. n - 1 : j <= Radix!Prefix(data[p])

(* While Build scans, up to the prefix of the last row scanned.              *)
Scanned ==
  /\ radix_hint \in [Radix!Prefixes -> Int]
  /\ pc \in {"scan", "built", "answered"}
  /\ i \in 0 .. n
  /\ pc = "scan" =>
       /\ prev_prefix = IF i = 0 THEN 0 ELSE Radix!Prefix(data[i - 1])
       /\ \A j \in Radix!Prefixes : j <= prev_prefix => FirstRowOf(j)
  /\ pc # "scan" => \A j \in Radix!Prefixes : FirstRowOf(j)

RadixInv ==
  kind = "RBS" => RadixData /\ Scanned /\ Radix!HoldsPlace

LEMMA InitRadix == TablesInit => RadixInv
<1> SUFFICES ASSUME TablesInit, kind = "RBS"
             PROVE  RadixData /\ Scanned /\ Radix!HoldsPlace
  BY DEF RadixInv
<1>1. Radix!Init
  BY DEF TablesInit
<1>2. RadixData
  BY <1>1, TablesAssumption DEF Radix!Init, RadixData, Radix!RadixConstants
<1>3. /\ pc = "scan" /\ i = 0 /\ prev_prefix = 0
      /\ radix_hint = [j \in Radix!Prefixes |-> 0]
  BY <1>1 DEF Radix!Init
<1>4. ASSUME NEW j \in Radix!Prefixes, j <= 0 PROVE FirstRowOf(j)
  <2>1. j = 0 /\ radix_hint[j] = 0
    BY <1>3, <1>4, Pow2Laws, SamePow2, TablesAssumption DEF Radix!Prefixes, Radix!RadixConstants
  <2>2. \A p \in 0 .. n - 1 : Radix!Prefix(data[p]) \in Nat
    BY <1>2, RadixKeys, PrefixMonotone
  <2> QED
    BY <1>2, <2>1, <2>2 DEF FirstRowOf, RadixData
<1> QED
  BY <1>2, <1>3, <1>4 DEF Scanned, Radix!HoldsPlace, RadixData

LEMMA RowPrefixes ==
  ASSUME RadixData
  PROVE  /\ \A p \in 0 .. n - 1 : Radix!Prefix(data[p]) \in Nat
         /\ \A p, q \in 0 .. n - 1 : p <= q =>
              Radix!Prefix(data[p]) <= Radix!Prefix(data[q])
BY RadixKeys, PrefixMonotone DEF RadixData

(* Marking the prefixes that no row in front of `at` has.                    *)
LEMMA MarkStep ==
  ASSUME RadixData, Scanned, pc = "scan", NEW last \in Int, NEW at \in 0 .. n,
         Radix!Mark(prev_prefix + 1 .. last, at),
         UNCHANGED <<data, n>>, at = i,
         \A p \in at .. n - 1 : last <= Radix!Prefix(data[p])
  PROVE  /\ radix_hint' \in [Radix!Prefixes -> Int]
         /\ \A j \in Radix!Prefixes : j <= last \/ j <= prev_prefix => FirstRowOf(j)'
<1>1. n \in Nat /\ Radix!Prefixes \subseteq Nat /\ prev_prefix \in Nat
  BY RowPrefixes DEF RadixData, Scanned, Radix!Prefixes
<1>2. \A j \in Radix!Prefixes :
        radix_hint'[j] = IF j \in prev_prefix + 1 .. last THEN at ELSE radix_hint[j]
  BY DEF Radix!Mark
<1>3. radix_hint' \in [Radix!Prefixes -> Int]
  BY DEF Radix!Mark, Scanned
<1>4. n' = n /\ data' = data /\ \A k : Radix!Prefix(k)' = Radix!Prefix(k)
  BY DEF Radix!Prefix, Radix!MinKey, Radix!MaxKey
<1>5. ASSUME NEW j \in Radix!Prefixes, j <= last, ~ (j <= prev_prefix)
      PROVE  FirstRowOf(j)'
  <2>1. radix_hint'[j] = i /\ j \in Nat
    BY <1>1, <1>2, <1>5
  <2>2. ASSUME NEW p \in 0 .. i - 1 PROVE Radix!Prefix(data[p]) < j
    <3>1. i # 0 /\ i \in Nat /\ i <= n /\ p \in 0 .. n - 1 /\ i - 1 \in 0 .. n - 1 /\ p <= i - 1
      BY <1>1, <2>2
    <3>2. /\ Radix!Prefix(data[p]) <= Radix!Prefix(data[i - 1])
          /\ Radix!Prefix(data[i - 1]) = prev_prefix
          /\ Radix!Prefix(data[p]) \in Nat
      BY <3>1, RowPrefixes DEF Scanned
    <3> QED
      BY <1>1, <1>5, <2>1, <3>2
  <2>3. ASSUME NEW p \in i .. n - 1 PROVE j <= Radix!Prefix(data[p])
    <3>1. p \in 0 .. n - 1 /\ last <= Radix!Prefix(data[p])
      BY <1>1, <2>3
    <3> QED
      BY <1>5, <2>1, <3>1, RowPrefixes
  <2> QED
    BY <1>4, <2>1, <2>2, <2>3 DEF FirstRowOf
<1>6. ASSUME NEW j \in Radix!Prefixes, j <= prev_prefix
      PROVE  FirstRowOf(j)'
  <2>1. radix_hint'[j] = radix_hint[j]
    BY <1>1, <1>2, <1>6
  <2> QED
    BY <1>4, <1>6, <2>1 DEF FirstRowOf, Scanned
<1> QED
  BY <1>3, <1>5, <1>6

LEMMA ScanStep ==
  ASSUME RadixData, Scanned, Radix!Scan
  PROVE  Scanned' /\ pc' = "scan"
<1>1. /\ pc = "scan" /\ pc' = pc /\ i < n /\ i' = i + 1 /\ UNCHANGED <<data, n>>
      /\ prev_prefix' = Radix!Prefix(data[i])
      /\ Radix!Mark(prev_prefix + 1 .. Radix!Prefix(data[i]), i)
  BY DEF Radix!Scan
<1>2. i \in 0 .. n /\ n \in Nat /\ i \in 0 .. n - 1
  BY <1>1 DEF RadixData, Scanned
<1>3. Radix!Prefix(data[i]) \in Nat
      /\ \A p \in i .. n - 1 : Radix!Prefix(data[i]) <= Radix!Prefix(data[p])
  BY <1>2, RowPrefixes
<1>4. /\ radix_hint' \in [Radix!Prefixes -> Int]
      /\ \A j \in Radix!Prefixes : j <= Radix!Prefix(data[i]) => FirstRowOf(j)'
  BY <1>1, <1>2, <1>3, MarkStep
<1>5. i' \in 0 .. n' /\ i' # 0 /\ i' - 1 = i
  BY <1>1, <1>2
<1>6. prev_prefix' = Radix!Prefix(data[i - 1])'
  <2>1. Radix!Prefix(data[i - 1])' = Radix!Prefix(data[i])
    BY <1>1, <1>5 DEF Radix!Prefix, Radix!MinKey, Radix!MaxKey
  <2> QED
    BY <1>1, <2>1
<1>7. \A j \in Radix!Prefixes : j <= prev_prefix' => FirstRowOf(j)'
  BY <1>1, <1>4
<1> QED
  BY <1>1, <1>4, <1>5, <1>6, <1>7 DEF Scanned

LEMMA FillStep ==
  ASSUME RadixData, Scanned, Radix!FillRest
  PROVE  Scanned' /\ pc' = "built"
<1>1. /\ pc = "scan" /\ pc' = "built" /\ i = n /\ i' = i /\ UNCHANGED <<data, n>>
      /\ Radix!Mark(prev_prefix + 1 .. Pow2[num_radix_bits], n)
  BY SamePow2 DEF Radix!FillRest
<1>2. n \in Nat /\ n \in 0 .. n /\ Pow2[num_radix_bits] \in Int
  BY TablesAssumption, Pow2Laws DEF RadixData, Radix!RadixConstants
<1>3. \A p \in n .. n - 1 : Pow2[num_radix_bits] <= Radix!Prefix(data[p])
  BY <1>2
<1>4. /\ radix_hint' \in [Radix!Prefixes -> Int]
      /\ \A j \in Radix!Prefixes : j <= Pow2[num_radix_bits] => FirstRowOf(j)'
  BY <1>1, <1>2, <1>3, MarkStep
<1>5. \A j \in Radix!Prefixes : j <= Pow2[num_radix_bits]
  BY <1>2, SamePow2 DEF Radix!Prefixes
<1> QED
  BY <1>1, <1>2, <1>4, <1>5 DEF Scanned

LEMMA AnswerStep ==
  ASSUME RadixData, Scanned, Radix!EqualityLookup
  PROVE  Scanned' /\ Radix!HoldsPlace'
<1>1. /\ pc \in {"built", "answered"} /\ pc' = "answered"
      /\ UNCHANGED <<data, n, radix_hint, i, prev_prefix>>
  BY DEF Radix!EqualityLookup
<1>2. Scanned'
  BY <1>1 DEF Scanned, FirstRowOf, Radix!Prefix, Radix!MinKey, Radix!MaxKey
<1>3. PICK key \in Radix!RadixKeys :
        /\ lookup_key' = key
        /\ IF key < Radix!MinKey THEN Radix!Answer(0, 1)
           ELSE IF key > Radix!MaxKey THEN Radix!Answer(n - 1, n)
           ELSE Radix!AnswerPrefix(
                  IF Radix!Prefix(key) > Pow2[num_radix_bits] - 1
                  THEN Pow2[num_radix_bits] - 1 ELSE Radix!Prefix(key))
  BY SamePow2 DEF Radix!EqualityLookup
<1>4. /\ \A p \in 0 .. n - 1 : data[p] \in Nat /\ Radix!MinKey <= data[p]
                               /\ data[p] <= Radix!MaxKey
      /\ Radix!MinKey \in Nat /\ Radix!MaxKey \in Nat
      /\ n \in Nat \ {0}
      /\ \A p, q \in 0 .. n - 1 : p <= q => data[p] <= data[q]
  BY RadixKeys DEF RadixData
<1>5. key \in Nat
  <2>1. Pow2[KeyBits] \in Nat
    BY TablesAssumption, Pow2Laws DEF Radix!RadixConstants
  <2> QED
    BY <2>1, SamePow2 DEF Radix!RadixKeys
<1> SUFFICES /\ \A p \in 0 .. start' - 1 : data[p] < key
             /\ \A p \in stop' .. n - 1 : data[p] >= key
  BY <1>1, <1>2, <1>3 DEF Radix!HoldsPlace
<1>6. CASE key < Radix!MinKey
  BY <1>3, <1>4, <1>5, <1>6 DEF Radix!Answer
<1>7. CASE key > Radix!MaxKey
  <2>1. start' = n - 1 /\ stop' = n
    BY <1>3, <1>4, <1>5, <1>7, ~ (key < Radix!MinKey) DEF Radix!Answer, Radix!MinKey, Radix!MaxKey
  <2> QED
    BY <1>4, <1>5, <1>7, <2>1
<1>8. CASE ~ (key < Radix!MinKey) /\ ~ (key > Radix!MaxKey)
  <2> DEFINE p == Radix!Prefix(key)
  <2>1. Radix!MinKey <= key /\ key <= Radix!MaxKey
    BY <1>4, <1>5, <1>8
  <2>2. p \in Nat /\ p < Pow2[num_radix_bits] /\ Pow2[num_radix_bits] \in Nat
    <3>1. p \in Nat /\ p <= Radix!Prefix(Radix!MaxKey) /\ Radix!Prefix(Radix!MaxKey) \in Nat
      BY <1>4, <1>5, <2>1, PrefixMonotone
    <3>2. Pow2[num_radix_bits] \in Nat
      BY TablesAssumption, Pow2Laws DEF Radix!RadixConstants
    <3> HIDE DEF p
    <3> QED
      BY <3>1, <3>2, PrefixesFit
  <2>3. Radix!AnswerPrefix(p)
    BY <1>3, <1>8, <2>2
  <2>4. \A q \in 0 .. n - 1 :
          /\ Radix!Prefix(data[q]) < p => data[q] < key
          /\ p < Radix!Prefix(data[q]) => key < data[q]
    <3> SUFFICES ASSUME NEW q \in 0 .. n - 1
                 PROVE  /\ Radix!Prefix(data[q]) < p => data[q] < key
                        /\ p < Radix!Prefix(data[q]) => key < data[q]
      OBVIOUS
    <3>1. data[q] \in Nat /\ Radix!MinKey <= data[q]
      BY <1>4
    <3>2. key <= data[q] => p <= Radix!Prefix(data[q])
      BY <1>5, <2>1, <3>1, PrefixMonotone
    <3>3. data[q] <= key => Radix!Prefix(data[q]) <= p
      BY <1>5, <2>1, <3>1, PrefixMonotone
    <3>4. Radix!Prefix(data[q]) \in Nat
      BY <3>1, PrefixMonotone
    <3> HIDE DEF p
    <3> QED
      BY <1>5, <2>2, <3>1, <3>2, <3>3, <3>4
  <2> DEFINE begin == radix_hint[p]
             end == radix_hint[p + 1]
  <2>5. /\ begin \in 0 .. n /\ end \in 0 .. n
        /\ \A q \in 0 .. begin - 1 : Radix!Prefix(data[q]) < p
        /\ \A q \in end .. n - 1 : p + 1 <= Radix!Prefix(data[q])
    <3> HIDE DEF p
    <3>1. p \in Radix!Prefixes /\ p + 1 \in Radix!Prefixes
      BY <2>2, SamePow2 DEF Radix!Prefixes
    <3> QED
      BY <1>1, <3>1 DEF Scanned, FirstRowOf
  <2>6. /\ start' = IF begin # 0 THEN begin - 1 ELSE begin
        /\ stop' = IF end # n THEN end + 1 ELSE end
    BY <2>3 DEF Radix!AnswerPrefix, Radix!Answer
  <2> HIDE DEF begin, end, p
  <2>7. ASSUME NEW q \in 0 .. start' - 1 PROVE data[q] < key
    <3>1. q \in 0 .. begin - 1 /\ q \in 0 .. n - 1
      BY <1>4, <2>5, <2>6
    <3> QED
      BY <2>4, <2>5, <3>1
  <2>8. ASSUME NEW q \in stop' .. n - 1 PROVE data[q] >= key
    <3>1. q \in end .. n - 1 /\ q \in 0 .. n - 1
      BY <1>4, <2>5, <2>6
    <3>2. p + 1 <= Radix!Prefix(data[q]) /\ Radix!Prefix(data[q]) \in Nat
      BY <2>5, <3>1, RowPrefixes
    <3>3. key < data[q]
      BY <2>2, <2>4, <3>1, <3>2
    <3> QED
      BY <1>4, <1>5, <3>1, <3>3
  <2> QED
    BY <2>7, <2>8
<1> QED
  BY <1>6, <1>7, <1>8

LEMMA NextRadix == RadixInv /\ [TablesNext]_tables => RadixInv'
<1> SUFFICES ASSUME RadixInv, [TablesNext]_tables, kind' = "RBS"
             PROVE  RadixData' /\ Scanned' /\ Radix!HoldsPlace'
  BY DEF RadixInv
<1>1. kind = "RBS" /\ (Radix!Next \/ UNCHANGED tables)
  BY DEF TablesNext, CuckooStep, RadixStep, tables
<1>2. RadixData /\ Scanned /\ Radix!HoldsPlace
  BY <1>1 DEF RadixInv
<1>3. UNCHANGED <<data, n>>
  BY <1>1 DEF Radix!Next, Radix!Scan, Radix!FillRest, Radix!EqualityLookup, tables, radix
<1>4. RadixData'
  BY <1>2, <1>3 DEF RadixData
<1>5. CASE Radix!Scan
  BY <1>2, <1>4, <1>5, ScanStep DEF Radix!HoldsPlace
<1>6. CASE Radix!FillRest
  BY <1>2, <1>4, <1>6, FillStep DEF Radix!HoldsPlace
<1>7. CASE Radix!EqualityLookup
  BY <1>2, <1>4, <1>7, AnswerStep
<1>8. CASE UNCHANGED tables
  <2>1. UNCHANGED <<data, n, radix_hint, i, prev_prefix, pc, lookup_key, start, stop>>
    BY <1>8 DEF tables, radix
  <2> QED
    BY <1>2, <1>4, <2>1 DEF Scanned, FirstRowOf, Radix!HoldsPlace, Radix!Prefix,
                            Radix!MinKey, Radix!MaxKey
<1> QED
  BY <1>1, <1>5, <1>6, <1>7, <1>8 DEF Radix!Next

(***************************************************************************)
(* The window RBS gives holds the place of any key, for every number of       *)
(* radix bits, width of the keys and dataset.                                *)
(***************************************************************************)
THEOREM WindowHoldsPlace == TablesSpec => []HoldsPlace
<1>1. RadixInv => HoldsPlace
  BY DEF RadixInv, HoldsPlace
<1> QED
  BY <1>1, InitRadix, NextRadix, PTL DEF TablesSpec
-----------------------------------------------------------------------------
(* CuckooMap.  Types, and that every slot holds an inserted key or none.      *)
MapTyped ==
  /\ data \in Datasets
  /\ hashes \in [{data[j] : j \in DOMAIN data} -> HashPairs]
  /\ row \in 0 .. Len(data)
  /\ buckets_ \in [Cuckoo!Buckets ->
                     [Cuckoo!Slots -> [key : CuckooKeys, value : Int]]]
  /\ size_ \in Int
  /\ pc \in {"build", "insert"}
  /\ call \in [key : CuckooKeys, value : Int, is_reinsert : BOOLEAN]
  /\ pc = "insert" => call.key \in Cuckoo!Inserted
  /\ \A b \in Cuckoo!Buckets : \A s \in Cuckoo!Slots :
       buckets_[b][s].key \in Cuckoo!Inserted \cup {INVALID_KEY}

(* Row r is the last one inserted of key k.                                  *)
IsLast(k, r) ==
  /\ r \in 0 .. row - 1 /\ data[r + 1] = k
  /\ \A q \in r + 1 .. row - 1 : data[q + 1] # k

(* The entries of a bucket stand at its front, each in a bucket of its key,    *)
(* and no key in two slots.                                                 *)
Compact ==
  \A b \in Cuckoo!Buckets : \E c \in 0 .. BUCKET_SIZE : Cuckoo!Occupied(b) = 1 .. c

Homed ==
  \A b \in Cuckoo!Buckets : \A s \in Cuckoo!Occupied(b) :
    b \in {Cuckoo!First(buckets_[b][s].key), Cuckoo!Second(buckets_[b][s].key)}

Once ==
  \A b, c \in Cuckoo!Buckets :
    \A s \in Cuckoo!Occupied(b), t \in Cuckoo!Occupied(c) :
      buckets_[b][s].key = buckets_[c][t].key => b = c /\ s = t

(* Every key but the one a call carries is in a slot, with its last row.      *)
Somewhere(k) ==
  \E b \in Cuckoo!Buckets : \E s \in Cuckoo!Slots : buckets_[b][s].key = k

Settled(k) == pc = "build" \/ k # call.key

Placed == \A k \in Cuckoo!Valid : Settled(k) => Somewhere(k)

Latest ==
  \A b \in Cuckoo!Buckets : \A s \in Cuckoo!Occupied(b) :
    Settled(buckets_[b][s].key) => IsLast(buckets_[b][s].key, buckets_[b][s].value)

(* A call carries the last row of its key; one that reinserts carries a key   *)
(* that is in no slot.                                                      *)
InCall ==
  pc = "insert" =>
    /\ IsLast(call.key, call.value)
    /\ call.is_reinsert => INVALID_KEY \notin Cuckoo!Inserted /\ ~ Somewhere(call.key)
    /\ INVALID_KEY \in Cuckoo!Inserted => call.key = INVALID_KEY

Uncounted ==
  IF pc = "insert" /\ ~call.is_reinsert /\ ~Cuckoo!Present THEN {call.key} ELSE {}

Sized ==
  INVALID_KEY \notin Cuckoo!Inserted =>
    size_ = Cardinality(Cuckoo!Inserted \ Uncounted)

SentinelFound ==
  INVALID_KEY \in Cuckoo!Inserted /\ pc = "build" =>
    Cuckoo!Get(INVALID_KEY) = {row - 1}

Parts ==
  /\ Compact /\ Homed /\ Once /\ Placed /\ Latest
  /\ InCall /\ Sized /\ SentinelFound

(* Once the sentinel has been counted, nothing is known any more, and the     *)
(* count says so for ever.                                                  *)
MapState ==
  /\ MapTyped
  /\ INVALID_KEY \in Cuckoo!Inserted => Cardinality(Cuckoo!Valid) <= size_
  /\ Cuckoo!Harmless => Parts

MapInv == kind = "CuckooMap" => MapState

(* Cardinality means the same in the instance.                               *)
LEMMA SameCardinality == \A S : Cuckoo!Cardinality(S) = Cardinality(S)
  BY DEF Cuckoo!Cardinality, Cardinality, Cuckoo!IsFiniteSet, IsFiniteSet

LEMMA MapConstants ==
  /\ CuckooKeys \subseteq 0 .. INVALID_KEY /\ INVALID_KEY \in Nat
  /\ INVALID_KEY \in CuckooKeys
  /\ BUCKET_SIZE \in Nat \ {0} /\ num_buckets_ \in Nat \ {0, 1}
  /\ HashPairs \subseteq Cuckoo!Buckets \X Cuckoo!Buckets
  /\ \A d \in Datasets : /\ d \in Seq(CuckooKeys)
                         /\ \A j, k \in DOMAIN d : j <= k => d[j] <= d[k]
  BY TablesAssumption DEF Cuckoo!CuckooConstants

LEMMA InsertedKeys ==
  ASSUME MapTyped
  PROVE  /\ Cuckoo!Inserted \subseteq CuckooKeys
         /\ Cuckoo!Inserted \subseteq DOMAIN hashes
         /\ IsFiniteSet(Cuckoo!Inserted) /\ Cardinality(Cuckoo!Inserted) \in Nat
         /\ IsFiniteSet(Cuckoo!Valid) /\ Cardinality(Cuckoo!Valid) \in Nat
         /\ \A j \in 1 .. row : data[j] \in Cuckoo!Inserted
<1>1. data \in Seq(CuckooKeys) /\ row \in 0 .. Len(data) /\ Len(data) \in Nat
  BY MapConstants DEF MapTyped
<1>2. \A j \in 1 .. row : j \in DOMAIN data /\ data[j] \in CuckooKeys
  BY <1>1
<1>3. Cuckoo!Inserted \subseteq CuckooKeys /\ Cuckoo!Inserted \subseteq DOMAIN hashes
      /\ \A j \in 1 .. row : data[j] \in Cuckoo!Inserted
  BY <1>2 DEF Cuckoo!Inserted, MapTyped
<1>4. IsFiniteSet(0 .. INVALID_KEY)
  BY MapConstants, FS_Interval
<1>5. Cuckoo!Inserted \subseteq 0 .. INVALID_KEY /\ Cuckoo!Valid \subseteq 0 .. INVALID_KEY
  BY <1>3, MapConstants DEF Cuckoo!Valid
<1>6. IsFiniteSet(Cuckoo!Inserted) /\ IsFiniteSet(Cuckoo!Valid)
  BY <1>4, <1>5, FS_Subset
<1> QED
  BY <1>3, <1>6, FS_CardinalityType

LEMMA Homes ==
  ASSUME MapTyped, NEW k \in Cuckoo!Inserted
  PROVE  Cuckoo!First(k) \in Cuckoo!Buckets /\ Cuckoo!Second(k) \in Cuckoo!Buckets
<1>1. hashes[k] \in Cuckoo!Buckets \X Cuckoo!Buckets
  BY InsertedKeys, MapConstants DEF MapTyped
<1> QED
  BY <1>1, MapConstants DEF Cuckoo!First, Cuckoo!Second, Cuckoo!Buckets

LEMMA Occupation ==
  ASSUME MapTyped, Compact, NEW b \in Cuckoo!Buckets
  PROVE  /\ Cuckoo!Count(b) \in 0 .. BUCKET_SIZE
         /\ Cuckoo!Occupied(b) = 1 .. Cuckoo!Count(b)
<1>1. PICK c \in 0 .. BUCKET_SIZE : Cuckoo!Occupied(b) = 1 .. c
  BY DEF Compact
<1>2. Cuckoo!Count(b) = Cardinality(Cuckoo!Occupied(b))
  BY SameCardinality DEF Cuckoo!Count, Cuckoo!Occupied
<1>3. c \in Nat /\ Cardinality(1 .. c) = c
  BY <1>1, MapConstants, FS_Interval
<1> QED
  BY <1>1, <1>2, <1>3

(* A key in some slot is in one that get and insert look at.                 *)
LEMMA EqualSlots ==
  ASSUME MapTyped, Homed, NEW k \in Cuckoo!Inserted, k # INVALID_KEY
  PROVE  Somewhere(k) <=> \/ Cuckoo!Equal(Cuckoo!First(k), k) # {}
                          \/ Cuckoo!Equal(Cuckoo!Second(k), k) # {}
<1>1. ASSUME NEW b \in Cuckoo!Buckets, NEW s \in Cuckoo!Slots, buckets_[b][s].key = k
      PROVE  b \in {Cuckoo!First(k), Cuckoo!Second(k)} /\ s \in Cuckoo!Equal(b, k)
  BY <1>1 DEF Homed, Cuckoo!Occupied, Cuckoo!Equal
<1>2. ASSUME NEW b \in {Cuckoo!First(k), Cuckoo!Second(k)}, Cuckoo!Equal(b, k) # {}
      PROVE  Somewhere(k)
  BY <1>2, Homes DEF Somewhere, Cuckoo!Equal
<1> QED
  BY <1>1, <1>2 DEF Somewhere

LEMMA LeastSlot ==
  ASSUME NEW S \in SUBSET Nat, S # {}
  PROVE  Cuckoo!FirstOf(S) \in S /\ \A t \in S : Cuckoo!FirstOf(S) <= t
BY LeastNatural DEF Cuckoo!FirstOf

(* get finds the only slot of a key, and none where there is none.           *)
LEMMA GetFinds ==
  ASSUME MapTyped, Homed, Once, NEW k, k # INVALID_KEY
  PROVE  /\ \A b \in Cuckoo!Buckets : \A s \in Cuckoo!Slots :
              buckets_[b][s].key = k => Cuckoo!Get(k) = {buckets_[b][s].value}
         /\ k \in DOMAIN hashes /\ ~ Somewhere(k) => Cuckoo!Get(k) = {}
<1> DEFINE h1 == Cuckoo!First(k)
           h2 == Cuckoo!Second(k)
<1>1. ASSUME NEW b \in Cuckoo!Buckets, NEW s \in Cuckoo!Slots, buckets_[b][s].key = k
      PROVE  Cuckoo!Get(k) = {buckets_[b][s].value}
  <2>1. /\ k \in Cuckoo!Inserted /\ b \in {h1, h2}
        /\ h1 \in Cuckoo!Buckets /\ h2 \in Cuckoo!Buckets
    BY <1>1, Homes DEF MapTyped, Homed, Cuckoo!Occupied
  <2>2. \A c \in Cuckoo!Buckets : \A t \in Cuckoo!Equal(c, k) : c = b /\ t = s
    BY <1>1 DEF Once, Cuckoo!Occupied, Cuckoo!Equal
  <2>3. s \in Cuckoo!Equal(b, k) /\ Cuckoo!Equal(b, k) \subseteq Nat
    BY <1>1 DEF Cuckoo!Equal, Cuckoo!Slots
  <2>4. Cuckoo!FirstOf(Cuckoo!Equal(b, k)) = s
    BY <1>1, <2>2, <2>3, LeastSlot
  <2>5. CASE b = h1
    BY <2>3, <2>4, <2>5 DEF Cuckoo!Get
  <2>6. CASE b # h1
    <3>1. Cuckoo!Equal(h1, k) = {} /\ b = h2
      BY <2>1, <2>2, <2>6
    <3> QED
      BY <2>3, <2>4, <3>1 DEF Cuckoo!Get
  <2> QED
    BY <2>5, <2>6
<1>2. ASSUME k \in DOMAIN hashes, ~ Somewhere(k) PROVE Cuckoo!Get(k) = {}
  <2>1. hashes[k] \in Cuckoo!Buckets \X Cuckoo!Buckets
    BY <1>2, MapConstants DEF MapTyped
  <2>2. h1 \in Cuckoo!Buckets /\ h2 \in Cuckoo!Buckets
    BY <2>1, MapConstants DEF Cuckoo!First, Cuckoo!Second, Cuckoo!Buckets
  <2>3. Cuckoo!Equal(h1, k) = {} /\ Cuckoo!Equal(h2, k) = {}
    BY <1>2, <2>2 DEF Somewhere, Cuckoo!Equal
  <2> QED
    BY <2>3 DEF Cuckoo!Get
<1> QED
  BY <1>1, <1>2

LEMMA LastIsUnique ==
  ASSUME MapTyped, NEW k, NEW r, IsLast(k, r)
  PROVE  Cuckoo!LastRow(k) = r
<1>1. row \in Nat
  BY MapConstants DEF MapTyped
<1>2. ASSUME NEW q \in 0 .. row - 1, data[q + 1] = k,
             \A p \in q + 1 .. row - 1 : data[p + 1] # k
      PROVE  q = r
  <2>1. ~ (q \in r + 1 .. row - 1) /\ ~ (r \in q + 1 .. row - 1)
    BY <1>2 DEF IsLast
  <2> QED
    BY <1>1, <1>2, <2>1 DEF IsLast
<1> QED
  BY <1>2 DEF Cuckoo!LastRow, IsLast

LEMMA InitMap == TablesInit => MapInv
<1> SUFFICES ASSUME TablesInit, kind = "CuckooMap" PROVE MapState
  BY DEF MapInv
<1>1. Cuckoo!Init
  BY DEF TablesInit
<1>2. /\ data \in Datasets /\ hashes \in [{data[j] : j \in DOMAIN data} -> HashPairs]
      /\ row = 0 /\ size_ = 0 /\ pc = "build" /\ call = Cuckoo!NoCall
      /\ buckets_ = [b \in Cuckoo!Buckets |-> [s \in Cuckoo!Slots |-> Cuckoo!Vacant]]
  BY <1>1 DEF Cuckoo!Init
<1>3. Cuckoo!Inserted = {} /\ Cuckoo!Valid = {}
  BY <1>2 DEF Cuckoo!Inserted, Cuckoo!Valid
<1>4. \A b \in Cuckoo!Buckets : \A s \in Cuckoo!Slots : buckets_[b][s].key = INVALID_KEY
  BY <1>2 DEF Cuckoo!Vacant, Cuckoo!Entry
<1>5. MapTyped
  <2>1. Cuckoo!Vacant \in [key : CuckooKeys, value : Int]
        /\ call \in [key : CuckooKeys, value : Int, is_reinsert : BOOLEAN]
    BY <1>2, MapConstants DEF Cuckoo!Vacant, Cuckoo!Entry, Cuckoo!NoCall
  <2>2. 0 \in 0 .. Len(data)
    BY <1>2, MapConstants
  <2> QED
    BY <1>2, <1>3, <1>4, <2>1, <2>2 DEF MapTyped
<1>6. \A b \in Cuckoo!Buckets : Cuckoo!Occupied(b) = {}
  BY <1>4 DEF Cuckoo!Occupied
<1>7. Compact
  <2>1. 0 \in 0 .. BUCKET_SIZE /\ 1 .. 0 = {}
    BY MapConstants
  <2> QED
    BY <1>6, <2>1 DEF Compact
<1>8. Sized
  <2>1. Cuckoo!Inserted \ Uncounted = {}
    BY <1>3
  <2> QED
    BY <1>2, <2>1, FS_EmptySet DEF Sized
<1>9. Homed /\ Once /\ Placed /\ Latest /\ InCall /\ SentinelFound
  BY <1>2, <1>3, <1>6 DEF Homed, Once, Placed, Latest, InCall, SentinelFound
<1> QED
  BY <1>3, <1>5, <1>7, <1>8, <1>9 DEF MapState, Parts

(* Build takes up its next row: no key but that row's gets another last row.  *)
LEMMA NextRowParts ==
  ASSUME MapTyped, Parts, Cuckoo!NextRow,
         Cuckoo!Inserted' = Cuckoo!Inserted \cup {data[row + 1]},
         INVALID_KEY \in Cuckoo!Inserted => data[row + 1] = INVALID_KEY
  PROVE  Parts'
<1> DEFINE k == data[row + 1]
<1>1. /\ pc = "build" /\ row < Len(data) /\ row' = row + 1 /\ pc' = "insert"
      /\ call'.key = k /\ call'.value = row /\ call'.is_reinsert = FALSE
      /\ data' = data /\ hashes' = hashes /\ buckets_' = buckets_ /\ size_' = size_
  BY DEF Cuckoo!NextRow
<1>2. row \in Nat
  BY MapConstants DEF MapTyped
<1>3. /\ \A b : Cuckoo!Occupied(b)' = Cuckoo!Occupied(b)
      /\ \A x : /\ Cuckoo!First(x)' = Cuckoo!First(x)
                /\ Cuckoo!Second(x)' = Cuckoo!Second(x)
                /\ Somewhere(x)' <=> Somewhere(x)
  BY <1>1 DEF Cuckoo!Occupied, Cuckoo!First, Cuckoo!Second, Somewhere
<1>4. Compact' /\ Homed' /\ Once'
  BY <1>1, <1>3 DEF Parts, Compact, Homed, Once
<1>5. \A x, r : x # k /\ IsLast(x, r) => IsLast(x, r)'
  <2> SUFFICES ASSUME NEW x, NEW r, x # k, IsLast(x, r) PROVE IsLast(x, r)'
    OBVIOUS
  <2>1. r \in 0 .. row' - 1
    BY <1>1, <1>2 DEF IsLast
  <2>2. \A q \in r + 1 .. row' - 1 : q \in r + 1 .. row - 1 \/ q = row
    BY <1>1, <1>2
  <2> QED
    BY <1>1, <2>1, <2>2 DEF IsLast
<1>6. IsLast(call.key, call.value)'
  <2>1. row \in 0 .. row' - 1 /\ ~ \E q \in row + 1 .. row' - 1 : TRUE
    BY <1>1, <1>2
  <2>2. /\ row \in 0 .. row' - 1 /\ data'[row + 1] = call'.key
        /\ \A q \in row + 1 .. row' - 1 : data'[q + 1] # call'.key
    BY <1>1, <2>1
  <2>3. call'.value = row
    BY <1>1
  <2> QED
    BY <2>2, <2>3 DEF IsLast
<1>7. \A x : Settled(x)' <=> x # k
  BY <1>1 DEF Settled
<1> HIDE DEF k
<1>8. Placed'
  <2>1. \A x \in Cuckoo!Valid' : x # k => x \in Cuckoo!Valid
    BY DEF Cuckoo!Valid, k
  <2> QED
    BY <1>1, <1>3, <1>7, <2>1 DEF Parts, Placed, Settled
<1>9. Latest'
  BY <1>1, <1>3, <1>5, <1>7 DEF Parts, Latest, Settled
<1>10. InCall'
  <2>1. INVALID_KEY \in Cuckoo!Inserted' => call'.key = INVALID_KEY
    BY <1>1 DEF k
  <2> QED
    BY <1>1, <1>6, <2>1 DEF InCall
<1>11. Sized'
  <2> SUFFICES ASSUME INVALID_KEY \notin Cuckoo!Inserted'
               PROVE  size_ = Cardinality((Cuckoo!Inserted \cup {k}) \ Uncounted')
    BY <1>1 DEF Sized, k
  <2>1. INVALID_KEY \notin Cuckoo!Inserted /\ k # INVALID_KEY
    BY DEF k
  <2>2. size_ = Cardinality(Cuckoo!Inserted)
    <3>1. Cuckoo!Inserted \ Uncounted = Cuckoo!Inserted
      BY <1>1 DEF Uncounted
    <3> QED
      BY <2>1, <3>1 DEF Parts, Sized
  <2>3. Cuckoo!Present' <=> \/ Cuckoo!Equal(Cuckoo!First(k), k) # {}
                            \/ Cuckoo!Equal(Cuckoo!Second(k), k) # {}
    BY <1>1 DEF Cuckoo!Present, Cuckoo!b1, Cuckoo!b2, Cuckoo!Equal, Cuckoo!First,
                Cuckoo!Second
  <2>4. Uncounted' = IF Cuckoo!Present' THEN {} ELSE {k}
    BY <1>1 DEF Uncounted
  <2>5. k \in Cuckoo!Inserted <=> Cuckoo!Present'
    <3>1. ASSUME k \in Cuckoo!Inserted PROVE Cuckoo!Present'
      <4>1. k \in Cuckoo!Valid
        BY <2>1, <3>1 DEF Cuckoo!Valid
      <4>2. Somewhere(k)
        BY <1>1, <4>1 DEF Parts, Placed, Settled
      <4> QED
        BY <2>1, <2>3, <3>1, <4>2, EqualSlots DEF Parts
    <3>2. ASSUME Cuckoo!Present' PROVE k \in Cuckoo!Inserted
      <4>1. PICK b \in {Cuckoo!First(k), Cuckoo!Second(k)} : Cuckoo!Equal(b, k) # {}
        BY <2>3, <3>2
      <4>2. hashes[k] \in Cuckoo!Buckets \X Cuckoo!Buckets
        <5>1. row + 1 \in DOMAIN data
          BY <1>1, <1>2, MapConstants DEF MapTyped
        <5>2. k \in DOMAIN hashes
          BY <5>1 DEF MapTyped, k
        <5> QED
          BY <5>2, MapConstants DEF MapTyped
      <4>3. b \in Cuckoo!Buckets
        BY <4>2, MapConstants DEF Cuckoo!First, Cuckoo!Second, Cuckoo!Buckets
      <4> QED
        BY <2>1, <4>1, <4>3 DEF Cuckoo!Equal, MapTyped
    <3> QED
      BY <3>1, <3>2
  <2>6. (Cuckoo!Inserted \cup {k}) \ Uncounted' = Cuckoo!Inserted
    BY <2>4, <2>5
  <2> QED
    BY <2>2, <2>6
<1>12. SentinelFound'
  BY <1>1 DEF SentinelFound
<1> QED
  BY <1>4, <1>8, <1>9, <1>10, <1>11, <1>12 DEF Parts

LEMMA NextRowStep ==
  ASSUME MapState, Cuckoo!NextRow
  PROVE  MapState'
<1> DEFINE k == data[row + 1]
<1>1. /\ pc = "build" /\ row < Len(data) /\ row' = row + 1 /\ pc' = "insert"
      /\ call'.key = k /\ call'.value = row /\ call'.is_reinsert = FALSE
      /\ data' = data /\ hashes' = hashes /\ buckets_' = buckets_ /\ size_' = size_
  BY DEF Cuckoo!NextRow
<1>2. /\ MapTyped /\ data \in Seq(CuckooKeys) /\ row \in Nat /\ Len(data) \in Nat
      /\ row + 1 \in DOMAIN data /\ k \in CuckooKeys /\ k \in Nat /\ k <= INVALID_KEY
  <2>1. MapTyped /\ data \in Seq(CuckooKeys) /\ row \in Nat /\ Len(data) \in Nat
    BY MapConstants DEF MapState, MapTyped
  <2>2. row + 1 \in DOMAIN data
    BY <1>1, <2>1
  <2>3. k \in CuckooKeys
    BY <2>1, <2>2
  <2> HIDE DEF k
  <2>4. k \in 0 .. INVALID_KEY /\ INVALID_KEY \in Nat
    BY <2>3, MapConstants
  <2> QED
    BY <2>1, <2>2, <2>3, <2>4
<1>3. Cuckoo!Inserted' = Cuckoo!Inserted \cup {k}
  <2>1. \A j : j \in 1 .. row + 1 <=> j \in 1 .. row \/ j = row + 1
    BY <1>2
  <2> QED
    BY <1>1, <2>1 DEF Cuckoo!Inserted
<1>4. MapTyped'
  <2>1. call' \in [key : CuckooKeys, value : Int, is_reinsert : BOOLEAN]
    BY <1>2 DEF Cuckoo!NextRow
  <2>2. row' \in 0 .. Len(data')
    BY <1>1, <1>2
  <2> HIDE DEF k
  <2> QED
    BY <1>1, <1>2, <1>3, <2>1, <2>2 DEF MapTyped
<1>5. INVALID_KEY \in Cuckoo!Inserted => k = INVALID_KEY
  <2> SUFFICES ASSUME INVALID_KEY \in Cuckoo!Inserted PROVE k = INVALID_KEY
    OBVIOUS
  <2>1. PICK j \in 1 .. row : data[j] = INVALID_KEY
    BY DEF Cuckoo!Inserted
  <2>2. j \in DOMAIN data /\ j <= row + 1
    BY <1>1, <1>2
  <2>3. data[j] <= k
    BY <1>2, <2>2, MapConstants DEF MapTyped
  <2> QED
    BY <1>2, <2>1, <2>3, MapConstants
<1> HIDE DEF k
<1>6. ~ (INVALID_KEY \in Cuckoo!Inserted) => Parts
  BY DEF MapState, Cuckoo!Harmless
<1>7. CASE INVALID_KEY \notin Cuckoo!Inserted
  <2>1. Cuckoo!Valid = Cuckoo!Inserted /\ Parts
    BY <1>6, <1>7 DEF Cuckoo!Valid
  <2>2. size_ = Cardinality(Cuckoo!Inserted)
    <3>1. Cuckoo!Inserted \ Uncounted = Cuckoo!Inserted
      BY <1>1 DEF Uncounted
    <3> QED
      BY <1>7, <2>1, <3>1 DEF Parts, Sized
  <2>3. INVALID_KEY \in Cuckoo!Inserted' => Cuckoo!Valid' = Cuckoo!Inserted
    BY <1>3, <1>7 DEF Cuckoo!Valid
  <2> QED
    BY <1>1, <1>2, <1>3, <1>4, <1>5, <2>1, <2>2, <2>3, NextRowParts, InsertedKeys DEF MapState, k
<1>8. CASE INVALID_KEY \in Cuckoo!Inserted
  <2>1. Cuckoo!Inserted' = Cuckoo!Inserted /\ Cuckoo!Valid' = Cuckoo!Valid
    BY <1>3, <1>5, <1>8 DEF Cuckoo!Valid
  <2>2. Cuckoo!Harmless' => Parts
    BY <1>1, <2>1 DEF MapState, Cuckoo!Harmless
  <2>3. INVALID_KEY \in Cuckoo!Inserted' => Cardinality(Cuckoo!Valid') <= size_'
    BY <1>1, <2>1 DEF MapState
  <2> QED
    BY <1>1, <1>2, <1>3, <1>4, <1>5, <2>2, <2>3, NextRowParts DEF MapState, k
<1> QED
  BY <1>7, <1>8

(* What a call stores, and how full buckets can be.                          *)
LEMMA CallKey ==
  ASSUME MapTyped, pc = "insert"
  PROVE  /\ call.key \in Cuckoo!Inserted /\ call.key \in 0 .. INVALID_KEY
         /\ Cuckoo!b1 = Cuckoo!First(call.key) /\ Cuckoo!b2 = Cuckoo!Second(call.key)
         /\ Cuckoo!b1 \in Cuckoo!Buckets /\ Cuckoo!b2 \in Cuckoo!Buckets
<1>1. call.key \in Cuckoo!Inserted
  BY DEF MapTyped
<1>2. call.key \in 0 .. INVALID_KEY
  BY <1>1, InsertedKeys, MapConstants
<1> QED
  BY <1>1, <1>2, Homes DEF Cuckoo!b1, Cuckoo!b2

LEMMA Filling ==
  ASSUME MapTyped, NEW b \in Cuckoo!Buckets
  PROVE  /\ Cuckoo!Count(b) \in 0 .. BUCKET_SIZE
         /\ Cuckoo!Count(b) = BUCKET_SIZE => Cuckoo!Occupied(b) = Cuckoo!Slots
<1>1. IsFiniteSet(1 .. BUCKET_SIZE) /\ Cardinality(1 .. BUCKET_SIZE) = BUCKET_SIZE
  BY MapConstants, FS_Interval
<1>2. Cuckoo!Occupied(b) \subseteq 1 .. BUCKET_SIZE /\ Cuckoo!Slots = 1 .. BUCKET_SIZE
  BY DEF Cuckoo!Occupied, Cuckoo!Slots
<1>3. Cuckoo!Count(b) = Cardinality(Cuckoo!Occupied(b))
  BY SameCardinality DEF Cuckoo!Count, Cuckoo!Occupied
<1>4. /\ IsFiniteSet(Cuckoo!Occupied(b))
      /\ Cardinality(Cuckoo!Occupied(b)) <= BUCKET_SIZE
      /\ Cardinality(Cuckoo!Occupied(b)) = BUCKET_SIZE =>
           Cuckoo!Occupied(b) = 1 .. BUCKET_SIZE
  BY <1>1, <1>2, FS_Subset
<1>5. Cardinality(Cuckoo!Occupied(b)) \in Nat
  BY <1>4, FS_CardinalityType
<1> QED
  BY <1>2, <1>3, <1>4, <1>5, MapConstants

LEMMA Stored ==
  ASSUME MapTyped, NEW b \in Cuckoo!Buckets, NEW s \in Cuckoo!Slots, Cuckoo!Store(b, s),
         pc = "insert"
  PROVE  /\ buckets_' \in [Cuckoo!Buckets ->
                             [Cuckoo!Slots -> [key : CuckooKeys, value : Int]]]
         /\ buckets_'[b][s].key = call.key /\ buckets_'[b][s].value = call.value
         /\ \A c \in Cuckoo!Buckets : \A t \in Cuckoo!Slots :
              c # b \/ t # s => buckets_'[c][t] = buckets_[c][t]
         /\ \A c \in Cuckoo!Buckets : \A t \in Cuckoo!Slots :
              buckets_'[c][t].key \in Cuckoo!Inserted \cup {INVALID_KEY}
<1>1. buckets_' = [buckets_ EXCEPT ![b][s] = Cuckoo!Entry(call.key, call.value)]
  BY DEF Cuckoo!Store
<1>2. /\ Cuckoo!Entry(call.key, call.value) \in [key : CuckooKeys, value : Int]
      /\ Cuckoo!Entry(call.key, call.value).key = call.key
      /\ Cuckoo!Entry(call.key, call.value).value = call.value
  BY DEF MapTyped, Cuckoo!Entry
<1>3. buckets_' \in [Cuckoo!Buckets ->
                       [Cuckoo!Slots -> [key : CuckooKeys, value : Int]]]
  BY <1>1, <1>2 DEF MapTyped
<1>4. buckets_'[b][s] = Cuckoo!Entry(call.key, call.value)
  BY <1>1 DEF MapTyped
<1>5. \A c \in Cuckoo!Buckets : \A t \in Cuckoo!Slots :
        c # b \/ t # s => buckets_'[c][t] = buckets_[c][t]
  BY <1>1 DEF MapTyped
<1>6. ASSUME NEW c \in Cuckoo!Buckets, NEW t \in Cuckoo!Slots
      PROVE  buckets_'[c][t].key \in Cuckoo!Inserted \cup {INVALID_KEY}
  <2>1. CASE c = b /\ t = s
    BY <1>2, <1>4, <2>1, CallKey
  <2>2. CASE ~ (c = b /\ t = s)
    BY <1>5, <2>2 DEF MapTyped
  <2> QED
    BY <2>1, <2>2
<1> QED
  BY <1>2, <1>3, <1>4, <1>5, <1>6

(* The largest key, if inserted at all, is that of the last row.              *)
LEMMA SentinelLast ==
  ASSUME MapTyped, NEW r, IsLast(INVALID_KEY, r)
  PROVE  r = row - 1
<1>1. /\ data \in Seq(CuckooKeys) /\ row \in 0 .. Len(data) /\ Len(data) \in Nat
      /\ \A j, k \in DOMAIN data : j <= k => data[j] <= data[k]
  BY MapConstants DEF MapTyped
<1>2. r \in 0 .. row - 1 /\ data[r + 1] = INVALID_KEY
  BY DEF IsLast
<1>3. row \in DOMAIN data /\ r + 1 \in DOMAIN data /\ r + 1 <= row
  BY <1>1, <1>2
<1>4. data[row] \in CuckooKeys /\ data[r + 1] <= data[row]
  BY <1>1, <1>3
<1>5. data[row] = INVALID_KEY
  <2>1. data[row] \in 0 .. INVALID_KEY
    BY <1>4, MapConstants
  <2>2. INVALID_KEY \in Nat /\ INVALID_KEY <= data[row]
    BY <1>2, <1>4, MapConstants
  <2> QED
    BY <2>1, <2>2
<1>6. ~ (row - 1 \in r + 1 .. row - 1)
  <2>1. (row - 1) + 1 = row
    BY <1>1
  <2> QED
    BY <1>5, <2>1 DEF IsLast
<1> QED
  BY <1>1, <1>2, <1>6

(* A call that reinserts is none of the sentinel's: where the call counts,    *)
(* the count of a map that has the sentinel gives it away from then on.       *)
LEMMA CountedOnce ==
  ASSUME MapState, pc = "insert", Cuckoo!Counted,
         UNCHANGED <<data, row>>
  PROVE  /\ Cuckoo!Inserted' = Cuckoo!Inserted /\ Cuckoo!Valid' = Cuckoo!Valid
         /\ size_' \in Int
         /\ INVALID_KEY \in Cuckoo!Inserted =>
              Cardinality(Cuckoo!Valid') <= size_' /\ ~ Cuckoo!Harmless'
         /\ INVALID_KEY \notin Cuckoo!Inserted => Parts
<1>1. Cuckoo!Inserted' = Cuckoo!Inserted /\ Cuckoo!Valid' = Cuckoo!Valid
  BY DEF Cuckoo!Inserted, Cuckoo!Valid
<1>2. /\ size_ \in Int /\ call.is_reinsert \in BOOLEAN
      /\ Cardinality(Cuckoo!Valid) \in Nat
  BY InsertedKeys DEF MapState, MapTyped
<1>3. size_' = IF call.is_reinsert THEN size_ ELSE size_ + 1
  BY DEF Cuckoo!Counted
<1>4. ASSUME INVALID_KEY \in Cuckoo!Inserted
      PROVE  Cardinality(Cuckoo!Valid) <= size_' /\ size_' # Cardinality(Cuckoo!Valid)
  <2>1. Cardinality(Cuckoo!Valid) <= size_
    BY <1>4 DEF MapState
  <2>2. CASE call.is_reinsert
    <3>1. ~ Cuckoo!Harmless
      BY <1>4, <2>2 DEF MapState, Parts, InCall
    <3> QED
      BY <1>2, <1>3, <1>4, <2>1, <2>2, <3>1, SameCardinality DEF Cuckoo!Harmless
  <2>3. CASE ~ call.is_reinsert
    BY <1>2, <1>3, <2>1, <2>3
  <2> QED
    BY <2>2, <2>3
<1> QED
  BY <1>1, <1>2, <1>3, <1>4, SameCardinality DEF Cuckoo!Harmless, MapState

(* A key that is there gets its last row.                                    *)
LEMMA UpdateStep ==
  ASSUME MapState, Cuckoo!Update
  PROVE  MapState'
<1>1. /\ pc = "insert" /\ pc' = "build" /\ call' = Cuckoo!NoCall /\ Cuckoo!Present
      /\ data' = data /\ hashes' = hashes /\ row' = row /\ size_' = size_
  BY DEF Cuckoo!Update, Cuckoo!Return
<1> DEFINE k == call.key
           b == IF Cuckoo!Equal(Cuckoo!b1, k) # {} THEN Cuckoo!b1 ELSE Cuckoo!b2
           s == Cuckoo!FirstOf(Cuckoo!Equal(b, k))
<1>2. MapTyped /\ k \in Cuckoo!Inserted /\ k \in 0 .. INVALID_KEY
  BY <1>1, CallKey DEF MapState
<1>3. Cuckoo!Store(b, s)
  BY DEF Cuckoo!Update
<1>4. /\ b \in Cuckoo!Buckets /\ b \in {Cuckoo!First(k), Cuckoo!Second(k)}
      /\ s \in Cuckoo!Slots /\ buckets_[b][s].key = k
  <2>1. b \in Cuckoo!Buckets /\ b \in {Cuckoo!First(k), Cuckoo!Second(k)}
    BY <1>1, <1>2, CallKey
  <2>2. Cuckoo!Equal(b, k) # {}
    BY <1>1 DEF Cuckoo!Present
  <2>3. Cuckoo!Equal(b, k) \subseteq Nat
    BY DEF Cuckoo!Equal, Cuckoo!Slots
  <2> HIDE DEF b
  <2>4. s \in Cuckoo!Equal(b, k)
    BY <2>2, <2>3, LeastSlot
  <2> QED
    BY <2>1, <2>4 DEF Cuckoo!Equal
<1>5. (b = Cuckoo!b1 /\ Cuckoo!Equal(Cuckoo!b1, k) # {})
      \/ (b = Cuckoo!b2 /\ Cuckoo!Equal(Cuckoo!b1, k) = {} /\ Cuckoo!Equal(Cuckoo!b2, k) # {})
  BY <1>1 DEF Cuckoo!Present
<1>s. s = Cuckoo!FirstOf(Cuckoo!Equal(b, k))
  OBVIOUS
<1> HIDE DEF b, s
<1>6. /\ buckets_' \in [Cuckoo!Buckets ->
                          [Cuckoo!Slots -> [key : CuckooKeys, value : Int]]]
      /\ buckets_'[b][s].key = k /\ buckets_'[b][s].value = call.value
      /\ \A c \in Cuckoo!Buckets : \A t \in Cuckoo!Slots :
           c # b \/ t # s => buckets_'[c][t] = buckets_[c][t]
      /\ \A c \in Cuckoo!Buckets : \A t \in Cuckoo!Slots :
           buckets_'[c][t].key \in Cuckoo!Inserted \cup {INVALID_KEY}
  BY <1>1, <1>2, <1>3, <1>4, Stored
<1>7. \A c \in Cuckoo!Buckets : \A t \in Cuckoo!Slots :
        buckets_'[c][t].key = buckets_[c][t].key
  BY <1>4, <1>6
<1>8. Cuckoo!Inserted' = Cuckoo!Inserted /\ Cuckoo!Valid' = Cuckoo!Valid
      /\ (Cuckoo!Harmless' => Cuckoo!Harmless)
  BY <1>1, SameCardinality DEF Cuckoo!Inserted, Cuckoo!Valid, Cuckoo!Harmless
<1>9. MapTyped'
  <2>1. call' \in [key : CuckooKeys, value : Int, is_reinsert : BOOLEAN]
    BY <1>1, MapConstants DEF Cuckoo!NoCall
  <2> QED
    BY <1>1, <1>2, <1>6, <1>8, <2>1 DEF MapTyped
<1>10. ASSUME Parts PROVE Parts'
  <2>1. /\ \A c \in Cuckoo!Buckets : Cuckoo!Occupied(c)' = Cuckoo!Occupied(c)
        /\ \A x : /\ Cuckoo!First(x)' = Cuckoo!First(x)
                  /\ Cuckoo!Second(x)' = Cuckoo!Second(x)
                  /\ Somewhere(x)' <=> Somewhere(x)
                  /\ Settled(x)'
        /\ \A x, r : IsLast(x, r)' <=> IsLast(x, r)
        /\ \A c \in Cuckoo!Buckets : Cuckoo!Occupied(c) \subseteq Cuckoo!Slots
    BY <1>1, <1>7 DEF Cuckoo!Occupied, Cuckoo!First, Cuckoo!Second, Somewhere, Settled,
                      IsLast
  <2>2. Compact' /\ Homed' /\ Once'
    BY <1>1, <1>7, <1>10, <2>1 DEF Parts, Compact, Homed, Once
  <2>3. Placed'
    <3>1. Somewhere(k)
      BY <1>4 DEF Somewhere
    <3>2. \A x \in Cuckoo!Valid : Somewhere(x)
      BY <1>10, <3>1 DEF Parts, Placed, Settled
    <3> QED
      BY <1>8, <2>1, <3>2 DEF Placed
  <2>4. Latest'
    <3>1. ASSUME NEW c \in Cuckoo!Buckets, NEW t \in Cuckoo!Occupied(c)
          PROVE  IsLast(buckets_'[c][t].key, buckets_'[c][t].value)
      <4>1. t \in Cuckoo!Slots /\ buckets_[c][t].key # INVALID_KEY
        BY DEF Cuckoo!Occupied
      <4>2. CASE c = b /\ t = s
        BY <1>1, <1>6, <1>10, <4>2 DEF Parts, InCall
      <4>3. CASE ~ (c = b /\ t = s)
        <5>1. buckets_'[c][t] = buckets_[c][t]
          BY <1>6, <4>1, <4>3
        <5>2. buckets_[c][t].key # k
          BY <1>4, <1>10, <4>1, <4>3 DEF Parts, Once, Cuckoo!Occupied
        <5> QED
          BY <1>10, <5>1, <5>2 DEF Parts, Latest, Settled
      <4> QED
        BY <4>2, <4>3
    <3> QED
      BY <2>1, <3>1 DEF Latest
  <2>5. InCall'
    BY <1>1 DEF InCall
  <2>6. Sized'
    <3>1. Uncounted = {} /\ Uncounted' = {}
      BY <1>1 DEF Uncounted
    <3> QED
      BY <1>1, <1>8, <1>10, <3>1 DEF Parts, Sized
  <2>7. SentinelFound'
    <3> SUFFICES ASSUME INVALID_KEY \in Cuckoo!Inserted
                 PROVE  Cuckoo!Get(INVALID_KEY)' = {row - 1}
      BY <1>1, <1>8 DEF SentinelFound
    <3>1. k = INVALID_KEY /\ IsLast(INVALID_KEY, call.value)
      BY <1>1, <1>10 DEF Parts, InCall
    <3>2. call.value = row - 1
      BY <1>2, <3>1, SentinelLast
    <3> DEFINE f1 == Cuckoo!First(INVALID_KEY)
               f2 == Cuckoo!Second(INVALID_KEY)
    <3>3. Cuckoo!First(INVALID_KEY)' = f1 /\ Cuckoo!Second(INVALID_KEY)' = f2
      BY <2>1
    <3>4. /\ f1 \in Cuckoo!Buckets /\ f2 \in Cuckoo!Buckets
          /\ Cuckoo!b1 = f1 /\ Cuckoo!b2 = f2
      BY <1>1, <1>2, <3>1, CallKey
    <3>5. /\ Cuckoo!Equal(Cuckoo!First(INVALID_KEY), INVALID_KEY)' =
               Cuckoo!Equal(f1, INVALID_KEY)
          /\ Cuckoo!Equal(Cuckoo!Second(INVALID_KEY), INVALID_KEY)' =
               Cuckoo!Equal(f2, INVALID_KEY)
      BY <1>7, <3>3, <3>4 DEF Cuckoo!Equal
    <3>6. Cuckoo!Get(INVALID_KEY)' =
            IF Cuckoo!Equal(f1, INVALID_KEY) # {}
            THEN {buckets_'[f1][Cuckoo!FirstOf(Cuckoo!Equal(f1, INVALID_KEY))].value}
            ELSE IF Cuckoo!Equal(f2, INVALID_KEY) # {}
            THEN {buckets_'[f2][Cuckoo!FirstOf(Cuckoo!Equal(f2, INVALID_KEY))].value}
            ELSE {}
      BY <3>3, <3>5 DEF Cuckoo!Get
    <3>7. buckets_'[b][Cuckoo!FirstOf(Cuckoo!Equal(b, INVALID_KEY))].value = row - 1
      BY <1>6, <1>s, <3>1, <3>2
    <3> HIDE DEF f1, f2
    <3> QED
      BY <1>5, <3>1, <3>4, <3>6, <3>7
  <2> QED
    BY <2>2, <2>3, <2>4, <2>5, <2>6, <2>7 DEF Parts
<1> QED
  BY <1>1, <1>8, <1>9, <1>10 DEF MapState

(* What both ways to store a new key rest on: it is in no slot yet, and       *)
(* counts from now on.                                                      *)
LEMMA Fresh ==
  ASSUME MapTyped, Parts, pc = "insert", ~ Cuckoo!Present, Cuckoo!Counted,
         INVALID_KEY \notin Cuckoo!Inserted
  PROVE  /\ call.key # INVALID_KEY
         /\ \A b \in Cuckoo!Buckets : \A s \in Cuckoo!Slots :
              buckets_[b][s].key # call.key
         /\ size_' = Cardinality(Cuckoo!Inserted)
<1> DEFINE k == call.key
<1>1. k \in Cuckoo!Inserted /\ k # INVALID_KEY
  BY CallKey
<1>2. ~ Somewhere(k)
  BY <1>1, CallKey, EqualSlots DEF Parts, Cuckoo!Present
<1>3. /\ IsFiniteSet(Cuckoo!Inserted) /\ Cardinality(Cuckoo!Inserted) \in Nat
      /\ size_ = Cardinality(Cuckoo!Inserted \ Uncounted)
  BY InsertedKeys DEF Parts, Sized
<1>4. size_' = Cardinality(Cuckoo!Inserted)
  <2>1. CASE call.is_reinsert
    <3>1. Cuckoo!Inserted \ Uncounted = Cuckoo!Inserted
      BY <2>1 DEF Uncounted
    <3> QED
      BY <1>3, <2>1, <3>1 DEF Cuckoo!Counted
  <2>2. CASE ~ call.is_reinsert
    <3>1. Uncounted = {k}
      BY <2>2 DEF Uncounted
    <3>2. Cardinality(Cuckoo!Inserted \ {k}) = Cardinality(Cuckoo!Inserted) - 1
      BY <1>1, <1>3, FS_RemoveElement
    <3>3. size_' = size_ + 1
      BY <2>2 DEF Cuckoo!Counted
    <3>4. size_ = Cardinality(Cuckoo!Inserted) - 1
      BY <1>3, <3>1, <3>2
    <3> QED
      BY <1>3, <3>3, <3>4
  <2> QED
    BY <2>1, <2>2
<1> QED
  BY <1>1, <1>2, <1>4 DEF Somewhere

(* A new key goes behind the entries of a bucket with room.                  *)
LEMMA PutStep ==
  ASSUME MapState, Cuckoo!Put
  PROVE  MapState'
<1>1. /\ pc = "insert" /\ pc' = "build" /\ call' = Cuckoo!NoCall /\ ~ Cuckoo!Present
      /\ data' = data /\ hashes' = hashes /\ row' = row /\ Cuckoo!Counted
  BY DEF Cuckoo!Put, Cuckoo!Return
<1> DEFINE k == call.key
           b == IF Cuckoo!Count(Cuckoo!b1) <= Cuckoo!Count(Cuckoo!b2)
                THEN Cuckoo!b1 ELSE Cuckoo!b2
           s == Cuckoo!Count(b) + 1
<1>2. MapTyped /\ k \in Cuckoo!Inserted /\ k \in 0 .. INVALID_KEY
  BY <1>1, CallKey DEF MapState
<1>3. Cuckoo!Store(b, s)
  BY DEF Cuckoo!Put
<1>4. /\ b \in Cuckoo!Buckets /\ b \in {Cuckoo!First(k), Cuckoo!Second(k)}
      /\ s \in Cuckoo!Slots /\ Cuckoo!Count(b) \in Nat
  <2>1. /\ Cuckoo!b1 \in Cuckoo!Buckets /\ Cuckoo!b2 \in Cuckoo!Buckets
        /\ Cuckoo!b1 = Cuckoo!First(k) /\ Cuckoo!b2 = Cuckoo!Second(k)
    BY <1>1, <1>2, CallKey
  <2>2. /\ Cuckoo!Count(Cuckoo!b1) \in 0 .. BUCKET_SIZE
        /\ Cuckoo!Count(Cuckoo!b2) \in 0 .. BUCKET_SIZE
    BY <1>2, <2>1, Filling
  <2>3. /\ BUCKET_SIZE \in Nat
        /\ \/ Cuckoo!Count(Cuckoo!b1) < BUCKET_SIZE
           \/ Cuckoo!Count(Cuckoo!b2) < BUCKET_SIZE
    BY MapConstants DEF Cuckoo!Put
  <2>4. Cuckoo!Count(b) \in Nat /\ Cuckoo!Count(b) < BUCKET_SIZE
    BY <2>2, <2>3
  <2> HIDE DEF b
  <2>5. s \in Cuckoo!Slots
    BY <2>3, <2>4 DEF Cuckoo!Slots
  <2> USE DEF b
  <2> QED
    BY <2>1, <2>4, <2>5
<1> HIDE DEF b
<1>5. /\ buckets_' \in [Cuckoo!Buckets ->
                          [Cuckoo!Slots -> [key : CuckooKeys, value : Int]]]
      /\ buckets_'[b][s].key = k /\ buckets_'[b][s].value = call.value
      /\ \A c \in Cuckoo!Buckets : \A t \in Cuckoo!Slots :
           c # b \/ t # s => buckets_'[c][t] = buckets_[c][t]
      /\ \A c \in Cuckoo!Buckets : \A t \in Cuckoo!Slots :
           buckets_'[c][t].key \in Cuckoo!Inserted \cup {INVALID_KEY}
  BY <1>1, <1>2, <1>3, <1>4, Stored
<1>6. /\ Cuckoo!Inserted' = Cuckoo!Inserted /\ Cuckoo!Valid' = Cuckoo!Valid
      /\ size_' \in Int
      /\ INVALID_KEY \in Cuckoo!Inserted =>
           Cardinality(Cuckoo!Valid') <= size_' /\ ~ Cuckoo!Harmless'
      /\ INVALID_KEY \notin Cuckoo!Inserted => Parts
  BY <1>1, CountedOnce
<1>7. MapTyped'
  <2>1. call' \in [key : CuckooKeys, value : Int, is_reinsert : BOOLEAN]
    BY <1>1, MapConstants DEF Cuckoo!NoCall
  <2> QED
    BY <1>1, <1>2, <1>5, <1>6, <2>1 DEF MapTyped
<1>8. ASSUME INVALID_KEY \notin Cuckoo!Inserted PROVE Parts'
  <2>1. /\ Parts /\ k # INVALID_KEY /\ size_' = Cardinality(Cuckoo!Inserted)
        /\ \A c \in Cuckoo!Buckets : \A t \in Cuckoo!Slots : buckets_[c][t].key # k
    BY <1>1, <1>2, <1>6, <1>8, Fresh
  <2>2. Cuckoo!Count(b) \in 0 .. BUCKET_SIZE /\ Cuckoo!Occupied(b) = 1 .. Cuckoo!Count(b)
    BY <1>2, <1>4, <2>1, Occupation DEF Parts
  <2>3. s \notin Cuckoo!Occupied(b) /\ Cuckoo!Occupied(b) \cup {s} = 1 .. s
        /\ s \in 0 .. BUCKET_SIZE
    <3>1. s \in Nat /\ s \in 1 .. BUCKET_SIZE
      BY <1>4 DEF Cuckoo!Slots
    <3> QED
      BY <1>4, <2>2, <3>1
  <2>4. buckets_[b][s].key = INVALID_KEY
    BY <1>4, <2>3 DEF Cuckoo!Occupied
  <2>5. /\ \A c \in Cuckoo!Buckets : Cuckoo!Occupied(c)' =
             IF c = b THEN 1 .. s ELSE Cuckoo!Occupied(c)
        /\ \A x : /\ Cuckoo!First(x)' = Cuckoo!First(x)
                  /\ Cuckoo!Second(x)' = Cuckoo!Second(x)
                  /\ Settled(x)'
        /\ \A x, r : IsLast(x, r)' <=> IsLast(x, r)
    <3>1. \A c \in Cuckoo!Buckets : Cuckoo!Occupied(c)' =
            {t \in Cuckoo!Slots : buckets_'[c][t].key # INVALID_KEY}
      BY DEF Cuckoo!Occupied
    <3>2. \A c \in Cuckoo!Buckets : c # b => Cuckoo!Occupied(c)' = Cuckoo!Occupied(c)
      BY <1>5 DEF Cuckoo!Occupied
    <3>3. {t \in Cuckoo!Slots : buckets_'[b][t].key # INVALID_KEY} = Cuckoo!Occupied(b) \cup {s}
      BY <1>4, <1>5, <2>1 DEF Cuckoo!Occupied
    <3>4. {t \in Cuckoo!Slots : buckets_'[b][t].key # INVALID_KEY} = 1 .. s
      BY <2>3, <3>3
    <3>5. \A c \in Cuckoo!Buckets : Cuckoo!Occupied(c)' =
            IF c = b THEN 1 .. s ELSE Cuckoo!Occupied(c)
      <4> HIDE DEF s
      <4> QED
        BY <3>1, <3>2, <3>4
    <3> QED
      BY <1>1, <3>5 DEF Cuckoo!First, Cuckoo!Second, Settled, IsLast
  <2>6. \A c \in Cuckoo!Buckets : \A t \in Cuckoo!Occupied(c)' :
          \/ c = b /\ t = s
          \/ /\ t \in Cuckoo!Occupied(c) /\ buckets_'[c][t] = buckets_[c][t]
             /\ buckets_[c][t].key # k
    <3>1. \A c \in Cuckoo!Buckets : \A t \in Cuckoo!Occupied(c)' :
            t \in Cuckoo!Slots /\ ((c = b /\ t = s) \/ t \in Cuckoo!Occupied(c))
      BY <1>4, <2>3, <2>5 DEF Cuckoo!Occupied
    <3> QED
      BY <1>5, <2>1, <2>3, <3>1
  <2>7. Compact'
    <3> HIDE DEF s
    <3> QED
      BY <2>1, <2>3, <2>5 DEF Parts, Compact
  <2>8. Homed'
    BY <1>4, <1>5, <2>1, <2>5, <2>6 DEF Parts, Homed
  <2>9. Once'
    <3> HIDE DEF s, k
    <3>1. ASSUME NEW c \in Cuckoo!Buckets, NEW d \in Cuckoo!Buckets,
                 NEW t \in Cuckoo!Occupied(c)', NEW u \in Cuckoo!Occupied(d)',
                 buckets_'[c][t].key = buckets_'[d][u].key
          PROVE  c = d /\ t = u
      <4>1. \/ c = b /\ t = s
            \/ /\ t \in Cuckoo!Occupied(c) /\ buckets_'[c][t] = buckets_[c][t]
               /\ buckets_[c][t].key # k
        BY <2>6
      <4>2. \/ d = b /\ u = s
            \/ /\ u \in Cuckoo!Occupied(d) /\ buckets_'[d][u] = buckets_[d][u]
               /\ buckets_[d][u].key # k
        BY <2>6
      <4>3. CASE c = b /\ t = s
        BY <1>5, <3>1, <4>2, <4>3
      <4>4. CASE d = b /\ u = s
        BY <1>5, <3>1, <4>1, <4>4
      <4>5. CASE ~ (c = b /\ t = s) /\ ~ (d = b /\ u = s)
        BY <2>1, <3>1, <4>1, <4>2, <4>5 DEF Parts, Once
      <4> QED
        BY <4>3, <4>4, <4>5
    <3> QED
      BY <3>1 DEF Once
  <2>10. Placed'
    <3>1. ASSUME NEW x \in Cuckoo!Valid
          PROVE \E c \in Cuckoo!Buckets : \E t \in Cuckoo!Slots : buckets_'[c][t].key = x
      <4>1. CASE x = k
        BY <1>4, <1>5, <4>1
      <4>2. CASE x # k
        <5>1. x # INVALID_KEY
          BY DEF Cuckoo!Valid
        <5> QED
          BY <1>5, <2>1, <2>4, <4>2, <5>1 DEF Parts, Placed, Settled, Somewhere
      <4> QED
        BY <4>1, <4>2
    <3> QED
      BY <1>6, <3>1 DEF Placed, Somewhere
  <2>11. Latest'
    <3>1. \A c \in Cuckoo!Buckets : \A t \in Cuckoo!Occupied(c)' :
            IsLast(buckets_'[c][t].key, buckets_'[c][t].value)
      BY <1>1, <1>5, <2>1, <2>6 DEF Parts, Latest, Settled, InCall
    <3> QED
      BY <2>5, <3>1 DEF Latest
  <2>12. InCall' /\ SentinelFound'
    BY <1>1, <1>6, <1>8 DEF InCall, SentinelFound
  <2>13. Sized'
    <3>1. Cuckoo!Inserted' \ Uncounted' = Cuckoo!Inserted
      BY <1>1, <1>6 DEF Uncounted
    <3> QED
      BY <2>1, <3>1 DEF Sized
  <2> QED
    BY <2>7, <2>8, <2>9, <2>10, <2>11, <2>12, <2>13 DEF Parts
<1> QED
  BY <1>6, <1>7, <1>8 DEF MapState

(* Where both buckets are full it takes the slot of another key, which the     *)
(* call goes on to insert.                                                  *)
LEMMA EvictStep ==
  ASSUME MapState, NEW b \in Cuckoo!Buckets, NEW s \in Cuckoo!Slots, Cuckoo!Evict(b, s)
  PROVE  MapState'
<1> DEFINE k == call.key
           k2 == buckets_[b][s].key
<1>1. /\ pc = "insert" /\ pc' = pc /\ ~ Cuckoo!Present
      /\ call'.key = k2 /\ call'.value = buckets_[b][s].value /\ call'.is_reinsert = TRUE
      /\ data' = data /\ hashes' = hashes /\ row' = row /\ Cuckoo!Counted
      /\ Cuckoo!Store(b, s)
  BY DEF Cuckoo!Evict
<1>2. MapTyped /\ k \in Cuckoo!Inserted /\ k \in 0 .. INVALID_KEY
  BY <1>1, CallKey DEF MapState
<1>3. /\ b \in {Cuckoo!First(k), Cuckoo!Second(k)}
      /\ Cuckoo!Occupied(b) = Cuckoo!Slots
      /\ k2 # INVALID_KEY /\ k2 \in Cuckoo!Inserted
  <2>1. Cuckoo!Count(b) = BUCKET_SIZE
    BY DEF Cuckoo!Evict
  <2>2. Cuckoo!Occupied(b) = Cuckoo!Slots
    BY <1>2, <2>1, Filling
  <2>3. k2 # INVALID_KEY
    BY <2>2 DEF Cuckoo!Occupied
  <2> QED
    BY <1>1, <1>2, <2>2, <2>3, CallKey DEF Cuckoo!Evict, MapTyped
<1>4. /\ buckets_' \in [Cuckoo!Buckets ->
                          [Cuckoo!Slots -> [key : CuckooKeys, value : Int]]]
      /\ buckets_'[b][s].key = k /\ buckets_'[b][s].value = call.value
      /\ \A c \in Cuckoo!Buckets : \A t \in Cuckoo!Slots :
           c # b \/ t # s => buckets_'[c][t] = buckets_[c][t]
      /\ \A c \in Cuckoo!Buckets : \A t \in Cuckoo!Slots :
           buckets_'[c][t].key \in Cuckoo!Inserted \cup {INVALID_KEY}
  BY <1>1, <1>2, Stored
<1>5. /\ Cuckoo!Inserted' = Cuckoo!Inserted /\ Cuckoo!Valid' = Cuckoo!Valid
      /\ size_' \in Int
      /\ INVALID_KEY \in Cuckoo!Inserted =>
           Cardinality(Cuckoo!Valid') <= size_' /\ ~ Cuckoo!Harmless'
      /\ INVALID_KEY \notin Cuckoo!Inserted => Parts
  BY <1>1, CountedOnce
<1>6. MapTyped'
  <2>1. call' \in [key : CuckooKeys, value : Int, is_reinsert : BOOLEAN]
    <3>1. buckets_[b][s] \in [key : CuckooKeys, value : Int]
      BY <1>2 DEF MapTyped
    <3>2. call' = [key |-> k2, value |-> buckets_[b][s].value, is_reinsert |-> TRUE]
      BY DEF Cuckoo!Evict
    <3> QED
      BY <3>1, <3>2
  <2> HIDE DEF k2
  <2> QED
    BY <1>1, <1>2, <1>3, <1>4, <1>5, <2>1 DEF MapTyped
<1>7. ASSUME INVALID_KEY \notin Cuckoo!Inserted PROVE Parts'
  <2>1. /\ Parts /\ k # INVALID_KEY /\ size_' = Cardinality(Cuckoo!Inserted)
        /\ \A c \in Cuckoo!Buckets : \A t \in Cuckoo!Slots : buckets_[c][t].key # k
    BY <1>1, <1>2, <1>5, <1>7, Fresh
  <2>2. k2 # k /\ s \in Cuckoo!Occupied(b)
    BY <1>3, <2>1
  <2>3. \A c \in Cuckoo!Buckets : \A t \in Cuckoo!Occupied(c) :
          (c = b /\ t = s) \/ buckets_[c][t].key # k2
    BY <2>1, <2>2 DEF Parts, Once
  <2> HIDE DEF k, k2
  <2>4. /\ \A c \in Cuckoo!Buckets : Cuckoo!Occupied(c)' = Cuckoo!Occupied(c)
        /\ \A c \in Cuckoo!Buckets : Cuckoo!Occupied(c) \subseteq Cuckoo!Slots
        /\ \A x : /\ Cuckoo!First(x)' = Cuckoo!First(x)
                  /\ Cuckoo!Second(x)' = Cuckoo!Second(x)
                  /\ Settled(x)' <=> x # k2
        /\ \A x, r : IsLast(x, r)' <=> IsLast(x, r)
    <3>1. \A c \in Cuckoo!Buckets : \A t \in Cuckoo!Slots :
            buckets_'[c][t].key # INVALID_KEY <=> buckets_[c][t].key # INVALID_KEY
      BY <1>3, <1>4, <2>1 DEF k, k2
    <3> QED
      BY <1>1, <3>1 DEF Cuckoo!Occupied, Cuckoo!First, Cuckoo!Second, Settled, IsLast
  <2>5. \A c \in Cuckoo!Buckets : \A t \in Cuckoo!Occupied(c) :
          \/ c = b /\ t = s
          \/ /\ buckets_'[c][t] = buckets_[c][t]
             /\ buckets_[c][t].key # k /\ buckets_[c][t].key # k2
    BY <1>4, <2>1, <2>3, <2>4
  <2>6. Compact'
    BY <2>1, <2>4 DEF Parts, Compact
  <2>7. Homed'
    <3>1. ASSUME NEW c \in Cuckoo!Buckets, NEW t \in Cuckoo!Occupied(c)
          PROVE  c \in {Cuckoo!First(buckets_'[c][t].key),
                        Cuckoo!Second(buckets_'[c][t].key)}
      <4>1. CASE c = b /\ t = s
        BY <1>3, <1>4, <4>1
      <4>2. CASE ~ (c = b /\ t = s)
        BY <2>1, <2>5, <4>2 DEF Parts, Homed
      <4> QED
        BY <4>1, <4>2
    <3> QED
      BY <2>4, <3>1 DEF Homed
  <2>8. Once'
    <3>1. ASSUME NEW c \in Cuckoo!Buckets, NEW d \in Cuckoo!Buckets,
                 NEW t \in Cuckoo!Occupied(c), NEW u \in Cuckoo!Occupied(d),
                 buckets_'[c][t].key = buckets_'[d][u].key
          PROVE  c = d /\ t = u
      <4>1. CASE c = b /\ t = s
        BY <1>4, <2>5, <3>1, <4>1
      <4>2. CASE d = b /\ u = s
        BY <1>4, <2>5, <3>1, <4>2, SMTT(20)
      <4>3. CASE ~ (c = b /\ t = s) /\ ~ (d = b /\ u = s)
        BY <2>1, <2>5, <3>1, <4>3 DEF Parts, Once
      <4> QED
        BY <4>1, <4>2, <4>3
    <3> QED
      BY <2>4, <3>1 DEF Once
  <2>9. Placed'
    <3>1. ASSUME NEW x \in Cuckoo!Valid, x # k2
          PROVE \E c \in Cuckoo!Buckets : \E t \in Cuckoo!Slots : buckets_'[c][t].key = x
      <4>1. CASE x = k
        BY <1>4, <4>1
      <4>2. CASE x # k
        <5>1. PICK c \in Cuckoo!Buckets : \E t \in Cuckoo!Slots : buckets_[c][t].key = x
          BY <2>1, <4>2 DEF Parts, Placed, Settled, Somewhere, k
        <5>2. PICK t \in Cuckoo!Slots : buckets_[c][t].key = x
          BY <5>1
        <5> QED
          BY <1>4, <3>1, <5>2 DEF k2
      <4> QED
        BY <4>1, <4>2
    <3> QED
      BY <1>5, <2>4, <3>1 DEF Placed, Somewhere
  <2>10. Latest'
    <3>1. ASSUME NEW c \in Cuckoo!Buckets, NEW t \in Cuckoo!Occupied(c)
          PROVE  IsLast(buckets_'[c][t].key, buckets_'[c][t].value)
      <4>1. CASE c = b /\ t = s
        BY <1>1, <1>4, <2>1, <4>1 DEF Parts, InCall, k
      <4>2. CASE ~ (c = b /\ t = s)
        BY <2>1, <2>5, <4>2 DEF Parts, Latest, Settled, k
      <4> QED
        BY <4>1, <4>2
    <3> QED
      BY <2>4, <3>1 DEF Latest
  <2>11. InCall'
    <3>1. IsLast(k2, buckets_[b][s].value)
      BY <2>1, <2>2 DEF Parts, Latest, Settled, k, k2
    <3>2. IsLast(call.key, call.value)'
      BY <1>1, <3>1 DEF IsLast
    <3>3. ~ \E c \in Cuckoo!Buckets : \E t \in Cuckoo!Slots : buckets_'[c][t].key = k2
      <4>1. ASSUME NEW c \in Cuckoo!Buckets, NEW t \in Cuckoo!Slots, buckets_'[c][t].key = k2
            PROVE  FALSE
        <5>1. CASE c = b /\ t = s
          BY <1>4, <2>2, <4>1, <5>1
        <5>2. CASE ~ (c = b /\ t = s)
          <6>1. buckets_[c][t].key = k2
            BY <1>4, <4>1, <5>2
          <6>2. t \in Cuckoo!Occupied(c)
            BY <1>3, <6>1 DEF Cuckoo!Occupied, k2
          <6> QED
            BY <2>3, <5>2, <6>1, <6>2
        <5> QED
          BY <5>1, <5>2
      <4> QED
        BY <4>1
    <3>4. ~ Somewhere(call.key)'
      BY <1>1, <3>3 DEF Somewhere
    <3> QED
      BY <1>5, <1>7, <3>2, <3>4 DEF InCall
  <2>12. Sized'
    <3>1. Cuckoo!Inserted' \ Uncounted' = Cuckoo!Inserted
      BY <1>1, <1>5 DEF Uncounted
    <3> QED
      BY <2>1, <3>1 DEF Sized
  <2>13. SentinelFound'
    BY <1>5, <1>7 DEF SentinelFound
  <2> QED
    BY <2>6, <2>7, <2>8, <2>9, <2>10, <2>11, <2>12, <2>13 DEF Parts
<1> QED
  BY <1>5, <1>6, <1>7 DEF MapState

LEMMA NextMap == MapInv /\ [TablesNext]_tables => MapInv'
<1> SUFFICES ASSUME MapInv, [TablesNext]_tables, kind' = "CuckooMap" PROVE MapState'
  BY DEF MapInv
<1>1. kind = "CuckooMap" /\ MapState /\ (Cuckoo!Next \/ UNCHANGED Cuckoo!vars)
  BY DEF MapInv, TablesNext, CuckooStep, RadixStep, tables, cuckoo, Cuckoo!vars
<1>2. CASE Cuckoo!NextRow
  BY <1>1, <1>2, NextRowStep
<1>3. CASE Cuckoo!Update
  BY <1>1, <1>3, UpdateStep
<1>4. CASE Cuckoo!Put
  BY <1>1, <1>4, PutStep
<1>5. CASE Cuckoo!EvictSome
  BY <1>1, <1>5, EvictStep DEF Cuckoo!EvictSome
<1>6. CASE UNCHANGED Cuckoo!vars
  <2>1. /\ \A b : Cuckoo!Occupied(b)' = Cuckoo!Occupied(b)
        /\ \A x : /\ Cuckoo!First(x)' = Cuckoo!First(x)
                  /\ Cuckoo!Second(x)' = Cuckoo!Second(x)
                  /\ Somewhere(x)' <=> Somewhere(x)
                  /\ Settled(x)' <=> Settled(x)
        /\ \A x, r : IsLast(x, r)' <=> IsLast(x, r)
        /\ Cuckoo!Inserted' = Cuckoo!Inserted /\ Cuckoo!Valid' = Cuckoo!Valid
        /\ (Cuckoo!Present' <=> Cuckoo!Present)
        /\ Cuckoo!Get(INVALID_KEY)' = Cuckoo!Get(INVALID_KEY)
        /\ pc' = pc /\ call' = call /\ row' = row /\ size_' = size_ /\ buckets_' = buckets_
        /\ data' = data /\ hashes' = hashes
    BY <1>6 DEF Cuckoo!vars, Cuckoo!Occupied, Cuckoo!First, Cuckoo!Second, Somewhere,
                Settled, IsLast, Cuckoo!Inserted, Cuckoo!Valid, Cuckoo!Present, Cuckoo!Get,
                Cuckoo!Equal, Cuckoo!b1, Cuckoo!b2
  <2>2. MapTyped'
    BY <1>1, <2>1 DEF MapState, MapTyped
  <2>3. Parts => Compact' /\ Homed' /\ Once' /\ Placed' /\ Latest'
    BY <2>1 DEF Parts, Compact, Homed, Once, Placed, Latest
  <2>4. Parts => InCall' /\ Sized' /\ SentinelFound'
    <3>1. Uncounted' = Uncounted
      BY <2>1 DEF Uncounted
    <3>2. IsLast(call.key, call.value)' <=> IsLast(call.key, call.value)
      BY <2>1 DEF IsLast
    <3>3. Somewhere(call.key)' <=> Somewhere(call.key)
      BY <2>1 DEF Somewhere
    <3> QED
      BY <2>1, <3>1, <3>2, <3>3 DEF Parts, InCall, Sized, SentinelFound
  <2>5. Cuckoo!Harmless' => Cuckoo!Harmless
    BY <2>1 DEF Cuckoo!Harmless
  <2> QED
    BY <1>1, <2>1, <2>2, <2>3, <2>4, <2>5 DEF MapState, Parts
<1> QED
  BY <1>1, <1>2, <1>3, <1>4, <1>5, <1>6 DEF Cuckoo!Next, Cuckoo!Built
-----------------------------------------------------------------------------
LEMMA FindsFromState == MapInv => FindsLastRow
<1> SUFFICES ASSUME MapState, pc = "build", Cuckoo!Harmless, NEW k \in DOMAIN hashes
             PROVE  IF k \in Cuckoo!Inserted THEN Cuckoo!Get(k) = {Cuckoo!LastRow(k)}
                    ELSE k = INVALID_KEY \/ Cuckoo!Get(k) = {}
  BY DEF MapInv, FindsLastRow, Cuckoo!FindsLastRow
<1>1. MapTyped /\ Parts
  BY DEF MapState
<1>2. CASE k # INVALID_KEY /\ k \in Cuckoo!Inserted
  <2>1. Somewhere(k)
    BY <1>1, <1>2 DEF Parts, Placed, Settled, Cuckoo!Valid
  <2>2. PICK b \in Cuckoo!Buckets : \E s \in Cuckoo!Slots : buckets_[b][s].key = k
    BY <2>1 DEF Somewhere
  <2>3. PICK s \in Cuckoo!Slots : buckets_[b][s].key = k
    BY <2>2
  <2>4. IsLast(k, buckets_[b][s].value)
    BY <1>1, <1>2, <2>3 DEF Parts, Latest, Settled, Cuckoo!Occupied
  <2>5. Cuckoo!LastRow(k) = buckets_[b][s].value
    BY <1>1, <2>4, LastIsUnique
  <2> QED
    BY <1>1, <1>2, <2>3, <2>5, GetFinds DEF Parts
<1>3. CASE k # INVALID_KEY /\ k \notin Cuckoo!Inserted
  <2>1. ~ Somewhere(k)
    BY <1>1, <1>3 DEF Somewhere, MapTyped
  <2> QED
    BY <1>1, <1>3, <2>1, GetFinds DEF Parts
<1>4. CASE k = INVALID_KEY /\ k \in Cuckoo!Inserted
  <2>1. Cuckoo!Get(k) = {row - 1}
    BY <1>1, <1>4 DEF Parts, SentinelFound
  <2>2. /\ data \in Seq(CuckooKeys) /\ row \in 0 .. Len(data) /\ Len(data) \in Nat
        /\ \A j, m \in DOMAIN data : j <= m => data[j] <= data[m]
    BY <1>1, MapConstants DEF MapTyped
  <2>3. PICK j \in 1 .. row : data[j] = INVALID_KEY
    BY <1>4 DEF Cuckoo!Inserted
  <2>4. row \in DOMAIN data /\ j \in DOMAIN data /\ j <= row
    BY <2>2
  <2>5. data[row] \in CuckooKeys /\ INVALID_KEY <= data[row]
    BY <2>2, <2>3, <2>4
  <2>6. data[row] = INVALID_KEY
    <3>1. data[row] \in 0 .. INVALID_KEY /\ INVALID_KEY \in Nat
      BY <2>5, MapConstants
    <3> QED
      BY <2>5, <3>1
  <2>7. row - 1 \in 0 .. row - 1 /\ (row - 1) + 1 = row
        /\ ~ \E q \in (row - 1) + 1 .. row - 1 : TRUE
    BY <2>2
  <2>8. IsLast(k, row - 1)
    BY <1>4, <2>6, <2>7 DEF IsLast
  <2> QED
    BY <1>1, <1>4, <2>1, <2>8, LastIsUnique
<1> QED
  BY <1>2, <1>3, <1>4

LEMMA NoneLostFromState == MapInv => NoneLost
<1> SUFFICES ASSUME MapState, INVALID_KEY \notin Cuckoo!Inserted
             PROVE  /\ \A b \in Cuckoo!Buckets : Cuckoo!Occupied(b) = 1 .. Cuckoo!Count(b)
                    /\ \A b \in Cuckoo!Buckets : \A s \in Cuckoo!Occupied(b) :
                         b \in {Cuckoo!First(buckets_[b][s].key),
                                Cuckoo!Second(buckets_[b][s].key)}
                    /\ \A k \in Cuckoo!Inserted : pc = "build" \/ k # call.key =>
                         Cardinality({p \in Cuckoo!Buckets \X Cuckoo!Slots :
                                        buckets_[p[1]][p[2]].key = k}) = 1
                    /\ size_ = Cardinality(Cuckoo!Inserted \ Uncounted)
  <2>1. Cuckoo!Inserted \ Uncounted =
          IF pc = "insert" /\ ~call.is_reinsert /\ ~Cuckoo!Present
          THEN Cuckoo!Inserted \ {call.key} ELSE Cuckoo!Inserted
    BY DEF Uncounted
  <2> QED
    BY <2>1, SameCardinality DEF MapInv, NoneLost, Cuckoo!NoneLost
<1>1. MapTyped /\ Parts
  BY DEF MapState, Cuckoo!Harmless
<1>2. ASSUME NEW k \in Cuckoo!Inserted, pc = "build" \/ k # call.key
      PROVE  Cardinality({p \in Cuckoo!Buckets \X Cuckoo!Slots :
                            buckets_[p[1]][p[2]].key = k}) = 1
  <2>1. k # INVALID_KEY /\ Somewhere(k)
    BY <1>1, <1>2 DEF Parts, Placed, Settled, Cuckoo!Valid
  <2>2. PICK b \in Cuckoo!Buckets : \E s \in Cuckoo!Slots : buckets_[b][s].key = k
    BY <2>1 DEF Somewhere
  <2>3. PICK s \in Cuckoo!Slots : buckets_[b][s].key = k
    BY <2>2
  <2>4. \A c \in Cuckoo!Buckets : \A t \in Cuckoo!Slots :
          buckets_[c][t].key = k => c = b /\ t = s
    BY <1>1, <2>1, <2>3 DEF Parts, Once, Cuckoo!Occupied
  <2>5. {p \in Cuckoo!Buckets \X Cuckoo!Slots : buckets_[p[1]][p[2]].key = k} = {<<b, s>>}
    BY <2>3, <2>4
  <2> QED
    BY <2>5, FS_Singleton
<1> QED
  BY <1>1, <1>2, Occupation DEF Parts, Homed, Sized

(***************************************************************************)
(* get finds each key with the last of its rows, between any two rows and     *)
(* however many entries have been evicted, for every number and size of       *)
(* buckets, every hash and every dataset.                                    *)
(***************************************************************************)
THEOREM MapFindsLastRow == TablesSpec => []FindsLastRow
  BY InitMap, NextMap, FindsFromState, PTL DEF TablesSpec

(***************************************************************************)
(* No key is lost in the middle of an insertion: it is in exactly one slot,    *)
(* behind no gap, where get would look for it, or the call has it.            *)
(***************************************************************************)
THEOREM MapLosesNone == TablesSpec => []NoneLost
  BY InitMap, NextMap, NoneLostFromState, PTL DEF TablesSpec
-----------------------------------------------------------------------------
(* RobinMap.                                                                *)

(* Remainders.                                                              *)
LEMMA ModIs ==
  ASSUME NEW c \in Nat \ {0}, NEW q \in Int, NEW r \in 0..(c - 1)
  PROVE  (q * c + r) % c = r
<1> DEFINE x == q * c + r
           p == x \div c
           s == x % c
<1>1. x \in Int /\ p \in Int /\ s \in 0..(c - 1) /\ x = c * p + s
  OBVIOUS
<1> HIDE DEF p, s
<1>2. c * (p - q) = r - s
  BY <1>1
<1> DEFINE k == p - q
<1>3. k \in Int /\ c * k = r - s
  BY <1>1, <1>2
<1> HIDE DEF k
<1>4. -c < r - s /\ r - s < c
  BY <1>1
<1>5. k >= 1 => c * k >= c
  BY <1>3
<1>6. k <= -1 => c * k <= -c
  BY <1>3
<1>7. k = 0
  BY <1>3, <1>4, <1>5, <1>6
<1>8. c * 0 = 0
  OBVIOUS
<1> QED
  BY <1>1, <1>3, <1>7, <1>8 DEF s

LEMMA ModLaws ==
  ASSUME NEW c \in Nat \ {0}
  PROVE  /\ \A x \in Int : x % c \in 0..(c - 1)
         /\ \A x \in 0..(c - 1) : x % c = x
         /\ \A x \in Int : (x + c) % c = x % c
         /\ \A x, y \in Int : ((x % c) + y) % c = (x + y) % c
         /\ \A x, y \in Int : (y - (x % c)) % c = (y - x) % c
         /\ \A x \in Int : (x + 1) % c = IF x % c = c - 1 THEN 0 ELSE (x % c) + 1
<1>1. ASSUME NEW x \in Int PROVE x % c \in 0..(c - 1) /\ \E q \in Int : x = q * c + (x % c)
  <2>1. x % c \in 0..(c - 1) /\ x \div c \in Int /\ x = c * (x \div c) + (x % c)
    OBVIOUS
  <2>2. c * (x \div c) = (x \div c) * c
    BY <2>1
  <2> QED
    BY <2>1, <2>2
<1>2. ASSUME NEW x \in Int, NEW q \in Int PROVE (x + q * c) % c = x % c
  <2> DEFINE r == x % c
  <2>1. r \in 0..(c - 1) /\ \E p \in Int : x = p * c + r
    BY <1>1
  <2> HIDE DEF r
  <2>2. PICK p \in Int : x = p * c + r
    BY <2>1
  <2>3. (p + q) * c = p * c + q * c /\ p * c \in Int /\ q * c \in Int
    OBVIOUS
  <2>4. x + q * c = (p + q) * c + r
    BY <2>1, <2>2, <2>3
  <2>5. p + q \in Int
    OBVIOUS
  <2>6. ((p + q) * c + r) % c = r
    BY <2>1, <2>5, ModIs
  <2> QED
    BY <2>4, <2>6 DEF r
<1>3. ASSUME NEW x \in 0..(c - 1) PROVE x % c = x
  <2>1. (0 * c + x) % c = x
    BY ModIs
  <2>2. 0 * c + x = x
    OBVIOUS
  <2> QED
    BY <2>1, <2>2
<1>4. ASSUME NEW x \in Int PROVE (x + c) % c = x % c
  <2>1. PICK q \in Int : q = 1
    OBVIOUS
  <2>2. q * c = c
    BY <2>1
  <2>3. (x + q * c) % c = x % c
    BY <1>2
  <2> QED
    BY <2>2, <2>3
<1>5. ASSUME NEW x \in Int, NEW y \in Int
      PROVE  ((x % c) + y) % c = (x + y) % c /\ (y - (x % c)) % c = (y - x) % c
  <2> DEFINE r == x % c
  <2>1. r \in 0..(c - 1) /\ \E q \in Int : x = q * c + r
    BY <1>1
  <2> HIDE DEF r
  <2>2. PICK q \in Int : x = q * c + r
    BY <2>1
  <2>3. q * c \in Int /\ (-q) * c = -(q * c) /\ -q \in Int
    OBVIOUS
  <2>4. x + y = (r + y) + q * c /\ y - x = (y - r) + (-q) * c
    BY <2>1, <2>2, <2>3
  <2>5. r + y \in Int /\ y - r \in Int
    BY <2>1
  <2>6. ((r + y) + q * c) % c = (r + y) % c
    BY <1>2, <2>5
  <2>7. ((y - r) + (-q) * c) % c = (y - r) % c
    BY <1>2, <2>3, <2>5
  <2> QED
    BY <2>4, <2>6, <2>7 DEF r
<1>6. ASSUME NEW x \in Int
      PROVE  (x + 1) % c = IF x % c = c - 1 THEN 0 ELSE (x % c) + 1
  <2> DEFINE r == x % c
  <2>1. r \in 0..(c - 1)
    BY <1>1
  <2>2. (r + 1) % c = (x + 1) % c
    <3>1. PICK y \in Int : y = 1
      OBVIOUS
    <3>2. ((x % c) + y) % c = (x + y) % c
      BY <1>5
    <3> QED
      BY <3>1, <3>2
  <2> HIDE DEF r
  <2>3. r = c - 1 => (r + 1) % c = 0
    <3>1. (0 + c) % c = 0 % c /\ 0 % c = 0
      BY <1>3, <1>4
    <3>2. 0 + c = c /\ (r = c - 1 => r + 1 = c)
      BY <2>1
    <3> QED
      BY <3>1, <3>2
  <2>4. r # c - 1 => (r + 1) % c = r + 1
    BY <1>3, <2>1
  <2> QED
    BY <2>1, <2>2, <2>3, <2>4 DEF r
<1> QED
  BY <1>1, <1>3, <1>4, <1>5, <1>6

(* The least of some natural numbers.                                       *)
LEMMA LeastIs ==
  ASSUME NEW T, T \subseteq Nat, T # {}
  PROVE  Least(T) \in T /\ \A x \in T : Least(T) <= x
<1>1. \E x \in T : \A y \in T : x <= y
  BY LeastNatural
<1> QED
  BY <1>1 DEF Least
-----------------------------------------------------------------------------
(* Going round c buckets: k buckets on from b, and how far d is behind b.      *)
Mod(c, x) == x % c
Fwd(c, b, k) == Mod(c, b + k)
Dst(c, b, d) == Mod(c, d - b)

LEMMA ModIn ==
  \A c, x : c \in Nat \ {0} /\ x \in Int =>
    Mod(c, x) \in 0..(c - 1) /\ (x \in 0..(c - 1) => Mod(c, x) = x)
<1> SUFFICES ASSUME NEW c \in Nat \ {0}, NEW x \in Int
             PROVE  Mod(c, x) \in 0..(c - 1) /\ (x \in 0..(c - 1) => Mod(c, x) = x)
  OBVIOUS
<1>1. x % c \in 0..(c - 1) /\ (x \in 0..(c - 1) => x % c = x)
  BY ModLaws
<1> QED
  BY <1>1 DEF Mod

LEMMA ModSum ==
  ASSUME NEW c \in Nat \ {0}, NEW x \in Int, NEW y \in Int
  PROVE  /\ Mod(c, Mod(c, x) + y) = Mod(c, x + y)
         /\ Mod(c, Mod(c, x) - y) = Mod(c, x - y)
         /\ Mod(c, y + Mod(c, x)) = Mod(c, y + x)
<1>1. -y \in Int /\ x % c \in Int
  BY ModLaws
<1>2. ((x % c) + y) % c = (x + y) % c
  BY ModLaws
<1>3. ((x % c) + (-y)) % c = (x + (-y)) % c
  BY <1>1, ModLaws
<1>4. /\ (x % c) + (-y) = (x % c) - y /\ x + (-y) = x - y
      /\ (x % c) + y = y + (x % c) /\ x + y = y + x
  BY <1>1
<1> QED
  BY <1>1, <1>2, <1>3, <1>4 DEF Mod

LEMMA InTurn ==
  \A c, b, k :
    c \in Nat \ {0} /\ b \in Int /\ k \in Int =>
      Fwd(c, b, k) \in 0..(c - 1) /\ Dst(c, b, k) \in 0..(c - 1)
<1> SUFFICES ASSUME NEW c \in Nat \ {0}, NEW b \in Int, NEW k \in Int
             PROVE  Fwd(c, b, k) \in 0..(c - 1) /\ Dst(c, b, k) \in 0..(c - 1)
  OBVIOUS
<1>1. PICK x \in Int, y \in Int : x = b + k /\ y = k - b
  OBVIOUS
<1>2. Mod(c, x) \in 0..(c - 1) /\ Mod(c, y) \in 0..(c - 1)
  BY ModIn
<1> QED
  BY <1>1, <1>2 DEF Fwd, Dst

LEMMA DstFwd ==
  \A c, b, k :
    c \in Nat \ {0} /\ b \in Int /\ k \in 0..(c - 1) =>
      Dst(c, b, Fwd(c, b, k)) = k
<1> SUFFICES ASSUME NEW c \in Nat \ {0}, NEW b \in Int, NEW k \in 0..(c - 1)
             PROVE  Dst(c, b, Fwd(c, b, k)) = k
  OBVIOUS
<1>1. PICK x \in Int : x = b + k
  OBVIOUS
<1>2. k = x - b /\ k \in Int
  BY <1>1
<1>3. Mod(c, Mod(c, x) - b) = Mod(c, x - b)
  BY ModSum, Zenon
<1>4. Mod(c, k) = k
  BY <1>2, ModIn
<1> QED
  BY <1>1, <1>2, <1>3, <1>4 DEF Fwd, Dst

LEMMA FwdDst ==
  \A c, b, d :
    c \in Nat \ {0} /\ b \in Int /\ d \in 0..(c - 1) =>
      Fwd(c, b, Dst(c, b, d)) = d
<1> SUFFICES ASSUME NEW c \in Nat \ {0}, NEW b \in Int, NEW d \in 0..(c - 1)
             PROVE  Fwd(c, b, Dst(c, b, d)) = d
  OBVIOUS
<1>1. PICK x \in Int : x = d - b
  OBVIOUS
<1>2. d = b + x /\ d \in Int
  BY <1>1
<1>3. Mod(c, b + Mod(c, x)) = Mod(c, b + x)
  BY ModSum, Zenon
<1>4. Mod(c, d) = d
  BY <1>2, ModIn
<1> QED
  BY <1>1, <1>2, <1>3, <1>4 DEF Fwd, Dst

LEMMA FwdFwd ==
  \A c, b, k, m :
    c \in Nat \ {0} /\ b \in Int /\ k \in Int /\ m \in Int =>
      Fwd(c, Fwd(c, b, k), m) = Fwd(c, b, k + m)
<1> SUFFICES ASSUME NEW c \in Nat \ {0}, NEW b \in Int, NEW k \in Int, NEW m \in Int
             PROVE  Fwd(c, Fwd(c, b, k), m) = Fwd(c, b, k + m)
  OBVIOUS
<1>1. PICK x \in Int : x = b + k
  OBVIOUS
<1>2. PICK z \in Int : z = x + m
  OBVIOUS
<1>3. z = b + (k + m)
  BY <1>1, <1>2
<1>4. Mod(c, Mod(c, x) + m) = Mod(c, x + m)
  BY ModSum, Zenon
<1> QED
  BY <1>1, <1>2, <1>3, <1>4 DEF Fwd

LEMMA Round ==
  \A c, b :
    c \in Nat \ {0} /\ b \in 0..(c - 1) =>
      Fwd(c, b, 0) = b /\ Fwd(c, b, c) = b /\ Dst(c, b, b) = 0
<1> SUFFICES ASSUME NEW c \in Nat \ {0}, NEW b \in 0..(c - 1)
             PROVE  Fwd(c, b, 0) = b /\ Fwd(c, b, c) = b /\ Dst(c, b, b) = 0
  OBVIOUS
<1>1. \A x \in Int : (x + c) % c = x % c
  BY ModLaws
<1>2. b \in Int /\ b + 0 = b /\ b - b = 0 /\ 0 \in 0..(c - 1)
  OBVIOUS
<1>3. Mod(c, b) = b /\ Mod(c, 0) = 0
  <2>1. \A x \in 0..(c - 1) : x \in Int => Mod(c, x) = x
    BY ModIn
  <2> QED
    BY <1>2, <2>1
<1>4. Mod(c, b + c) = Mod(c, b)
  BY <1>1, <1>2, Zenon DEF Mod
<1> QED
  BY <1>2, <1>3, <1>4 DEF Fwd, Dst

LEMMA OneOn ==
  \A c, b, key :
    c \in Nat \ {0} /\ b \in Int /\ key \in Int =>
      Dst(c, key, Fwd(c, b, 1)) =
        IF Dst(c, key, b) = c - 1 THEN 0 ELSE Dst(c, key, b) + 1
<1> SUFFICES ASSUME NEW c \in Nat \ {0}, NEW b \in Int, NEW key \in Int
             PROVE  Dst(c, key, Fwd(c, b, 1)) =
        IF Dst(c, key, b) = c - 1 THEN 0 ELSE Dst(c, key, b) + 1
  OBVIOUS
<1>1. PICK x \in Int, w \in Int, z \in Int : x = b + 1 /\ w = b - key /\ z = x - key
  OBVIOUS
<1>2. z = w + 1
  BY <1>1
<1>3. Mod(c, Mod(c, x) - key) = Mod(c, x - key)
  BY ModSum, Zenon
<1>4. (w + 1) % c = IF w % c = c - 1 THEN 0 ELSE (w % c) + 1
  BY ModLaws
<1>5. Mod(c, w + 1) = IF Mod(c, w) = c - 1 THEN 0 ELSE Mod(c, w) + 1
  BY <1>4 DEF Mod
<1> QED
  BY <1>1, <1>2, <1>3, <1>5 DEF Fwd, Dst
-----------------------------------------------------------------------------
(* Tables: entries know how far they are from their ideal bucket, and a bucket *)
(* is at most one step farther than the one before it.                       *)
Entries == [dist : Nat, key : Keys \cap Nat, value : Values]
Slots == Entries \cup {Empty}

Sound(bs, c) ==
  /\ bs \in [0..(c - 1) -> Slots]
  /\ \A b \in 0..(c - 1) : bs[b] # Empty => bs[b].dist = Dst(c, bs[b].key, b)

Even(bs, c) == \A b \in 0..(c - 1) : bs[Fwd(c, b, 1)].dist <= bs[b].dist + 1

Room(bs, c) == \E b \in 0..(c - 1) : bs[b] = Empty

LEMMA SlotTypes ==
  /\ Empty.dist = -1 /\ empty(Empty) /\ Empty \in Slots
  /\ \A s \in Slots : s.dist \in Int /\ s.dist >= -1 /\ (empty(s) <=> s = Empty)
                      /\ (s # Empty <=> s.dist >= 0) /\ (s # Empty => s \in Entries)
  /\ \A e \in Entries : e.dist \in Nat /\ e.key \in Nat /\ e.key \in Keys /\ e.value \in Values
                        /\ e \in Slots /\ e # Empty
<1>1. Empty.dist = -1 /\ Empty \in Slots
  BY DEF Slots, Empty
<1>2. ASSUME NEW e \in Entries
      PROVE  /\ e.dist \in Nat /\ e.key \in Nat /\ e.key \in Keys /\ e.value \in Values
             /\ e \in Slots /\ e # Empty
  <2>1. e.dist \in Nat /\ e.key \in Nat /\ e.key \in Keys /\ e.value \in Values
    BY DEF Entries
  <2>2. e # Empty
    BY <1>1, <2>1
  <2> QED
    BY <2>1, <2>2 DEF Slots
<1> QED
  BY <1>1, <1>2 DEF Slots, empty

LEMMA CountIs ==
  ASSUME NEW c \in Nat, NEW bs, DOMAIN bs = 0..(c - 1)
  PROVE  Count(bs) = c /\ (DOMAIN bs = {} <=> c = 0)
<1>1. Cardinality(0..(c - 1)) = c
  BY FS_Interval
<1> QED
  BY <1>1 DEF Count

LEMMA Steps ==
  ASSUME NEW c \in Nat \ {0}, NEW bs, DOMAIN bs = 0..(c - 1)
  PROVE  /\ \A b, k : On(bs, b, k) = Fwd(c, b, k)
         /\ \A b, d : Behind(bs, b, d) = Dst(c, b, d)
         /\ \A b : next_bucket(bs, b) = Fwd(c, b, 1) /\ At(bs, b) = bs[b]
         /\ Count(bs) = c
<1>1. Count(bs) = c /\ DOMAIN bs # {}
  BY CountIs
<1> QED
  BY <1>1, Zenon DEF On, Behind, next_bucket, At, Fwd, Dst, Mod

LEMMA Ahead ==
  ASSUME NEW c \in Nat \ {0}, NEW bs, bs \in [0..(c - 1) -> Slots], Even(bs, c),
         NEW b \in 0..(c - 1)
  PROVE  \A k \in Nat : bs[Fwd(c, b, k)].dist <= bs[b].dist + k
<1> DEFINE T == {k \in Nat : ~ (bs[Fwd(c, b, k)].dist <= bs[b].dist + k)}
<1>1. SUFFICES ASSUME T # {} PROVE FALSE
  OBVIOUS
<1>2. PICK k \in T : \A y \in T : k <= y
  <2>1. T \subseteq Nat
    OBVIOUS
  <2> HIDE DEF T
  <2> QED
    BY <1>1, <2>1, LeastNatural
<1>3. \A d \in 0..(c - 1) : bs[d].dist \in Int
  BY SlotTypes
<1>4. k # 0
  BY <1>3, Round
<1>5. k \in Nat /\ k - 1 \in Nat /\ k - 1 \notin T /\ (k - 1) + 1 = k
  BY <1>2, <1>4
<1> DEFINE d == Fwd(c, b, k - 1)
<1>6. d \in 0..(c - 1) /\ Fwd(c, d, 1) = Fwd(c, b, k) /\ Fwd(c, b, k) \in 0..(c - 1)
  BY <1>5, InTurn, FwdFwd
<1>7. bs[d].dist <= bs[b].dist + (k - 1)
  BY <1>5
<1> HIDE DEF d
<1>8. bs[Fwd(c, b, k)].dist <= bs[d].dist + 1
  BY <1>6 DEF Even
<1>9. bs[d].dist \in Int /\ bs[Fwd(c, b, k)].dist \in Int /\ bs[b].dist \in Int
  BY <1>3, <1>6
<1>10. bs[Fwd(c, b, k)].dist <= bs[b].dist + k
  BY <1>5, <1>7, <1>8, <1>9
<1> QED
  BY <1>2, <1>10

(* Before an entry there is one in each bucket up from its ideal one, which   *)
(* is no nearer to its own; so with a bucket free none is c - 1 steps away.   *)
LEMMA RunBefore ==
  ASSUME NEW c \in Nat \ {0}, NEW bs, Sound(bs, c), Even(bs, c),
         NEW b \in 0..(c - 1), bs[b] # Empty
  PROVE  /\ Fwd(c, bs[b].key, bs[b].dist) = b /\ bs[b].dist \in 0..(c - 1)
         /\ \A k \in 0..bs[b].dist : k <= bs[Fwd(c, bs[b].key, k)].dist
<1> DEFINE e == bs[b]
           key == e.key
           D == e.dist
<1>1. e \in Entries /\ key \in Nat /\ D \in Nat /\ D = Dst(c, key, b)
  BY SlotTypes DEF Sound
<1> HIDE DEF e, key, D
<1>3. D \in 0..(c - 1) /\ Fwd(c, key, D) = b
  BY <1>1, InTurn, FwdDst
<1>4. ASSUME NEW k \in 0..D PROVE k <= bs[Fwd(c, key, k)].dist
  <2> DEFINE q == Fwd(c, key, k)
  <2>1. q \in 0..(c - 1)
    BY <1>1, InTurn
  <2>2. Fwd(c, q, D - k) = b
    <3>1. k \in Int /\ D - k \in Int /\ D = k + (D - k)
      BY <1>1
    <3> QED
      BY <1>1, <1>3, <3>1, FwdFwd
  <2> HIDE DEF q
  <2>3. bs[Fwd(c, q, D - k)].dist <= bs[q].dist + (D - k)
    <3>1. D - k \in Nat
      BY <1>1
    <3> QED
      BY <2>1, <3>1, Ahead DEF Sound
  <2>4. bs[q].dist \in Int
    BY <2>1, SlotTypes DEF Sound
  <2>5. D <= bs[q].dist + (D - k)
    BY <2>2, <2>3 DEF D, e
  <2>6. k <= bs[q].dist
    BY <1>1, <2>4, <2>5
  <2> QED
    BY <2>6 DEF q
<1> QED
  BY <1>3, <1>4 DEF D, e, key

LEMMA NoneFar ==
  ASSUME NEW c \in Nat \ {0}, NEW bs, Sound(bs, c), Even(bs, c), Room(bs, c)
  PROVE  \A b \in 0..(c - 1) : bs[b].dist <= c - 2
<1> SUFFICES ASSUME NEW b \in 0..(c - 1), ~ (bs[b].dist <= c - 2) PROVE FALSE
  OBVIOUS
<1>1. bs[b].dist \in Int /\ bs[b].dist >= c - 1 /\ bs[b] # Empty /\ bs[b] \in Entries
  BY SlotTypes DEF Sound
<1>2. bs[b].dist \in 0..(c - 1) /\ \A k \in 0..bs[b].dist : k <= bs[Fwd(c, bs[b].key, k)].dist
  BY <1>1, RunBefore
<1>3. PICK d \in 0..(c - 1) : bs[d] = Empty
  BY DEF Room
<1>4. bs[b].key \in Int
  BY <1>1, SlotTypes
<1> DEFINE k == Dst(c, bs[b].key, d)
<1>5. k \in 0..(c - 1) /\ Fwd(c, bs[b].key, k) = d
  BY <1>4, InTurn, FwdDst
<1>6. k \in 0..bs[b].dist
  BY <1>1, <1>2, <1>5
<1>7. k <= -1
  BY <1>2, <1>3, <1>5, <1>6, SlotTypes
<1> QED
  BY <1>5, <1>7

(* The entries of a table make up a map, each key in one bucket.             *)
Holds(bs, c, map) ==
  /\ \A b \in 0..(c - 1) : bs[b] # Empty =>
       bs[b].key \in DOMAIN map /\ map[bs[b].key] = bs[b].value
  /\ \A key \in DOMAIN map : \E b \in 0..(c - 1) : bs[b] # Empty /\ bs[b].key = key
  /\ \A b, d \in 0..(c - 1) :
       bs[b] # Empty /\ bs[d] # Empty /\ bs[b].key = bs[d].key => b = d

(* A search that stops at a free bucket at the latest stops.                  *)
LEMMA SearchEnds ==
  ASSUME NEW c \in Nat \ {0}, NEW bs, bs \in [0..(c - 1) -> Slots], Room(bs, c),
         NEW key \in Nat, NEW T, T \subseteq 0..c,
         \A k \in 0..c : k > bs[Fwd(c, key, k)].dist => k \in T
  PROVE  Least(T) \in T /\ Least(T) \in 0..(c - 1) /\ \A k \in T : Least(T) <= k
<1>1. PICK d \in 0..(c - 1) : bs[d] = Empty
  BY DEF Room
<1> DEFINE k == Dst(c, key, d)
<1>2. k \in 0..(c - 1) /\ Fwd(c, key, k) = d
  BY InTurn, FwdDst
<1> HIDE DEF k
<1>3. k \in T
  BY <1>1, <1>2, SlotTypes
<1>4. Least(T) \in T /\ \A x \in T : Least(T) <= x
  <2>1. T \subseteq Nat /\ T # {}
    BY <1>3
  <2> QED
    BY <2>1, LeastIs
<1>5. Least(T) \in 0..c /\ Least(T) <= k
  BY <1>3, <1>4
<1> QED
  BY <1>2, <1>4, <1>5

Stopping(bs, c, key) ==
  {k \in 0..c : k > bs[Fwd(c, key, k)].dist \/ bs[Fwd(c, key, k)].key = key}

LEMMA FindIs ==
  ASSUME NEW c \in Nat \ {0}, NEW bs, DOMAIN bs = 0..(c - 1), NEW key
  PROVE  LET k == Least(Stopping(bs, c, key))
         IN  find_impl(bs, key) = [found |-> k <= bs[Fwd(c, key, k)].dist,
                                   b |-> Fwd(c, key, k), dist |-> k]
<1>1. /\ \A b, k : On(bs, b, k) = Fwd(c, b, k)
      /\ \A b : At(bs, b) = bs[b]
      /\ Count(bs) = c
  BY Steps
<1>2. {k \in 0..Count(bs) : \/ k > At(bs, On(bs, key, k)).dist
                            \/ At(bs, On(bs, key, k)).key = key} = Stopping(bs, c, key)
  BY <1>1 DEF Stopping
<1> QED
  BY <1>1, <1>2, Zenon DEF find_impl

LEMMA Found ==
  ASSUME NEW c \in Nat \ {0}, NEW bs, Sound(bs, c), Even(bs, c), Room(bs, c),
         NEW b \in 0..(c - 1), bs[b] # Empty,
         \A d \in 0..(c - 1) : bs[d] # Empty /\ bs[d].key = bs[b].key => d = b
  PROVE  LET p == find_impl(bs, bs[b].key) IN p.found /\ p.b = b
<1> DEFINE key == bs[b].key
           D == bs[b].dist
           T == Stopping(bs, c, key)
<1>1. key \in Nat /\ D \in 0..(c - 1) /\ Fwd(c, key, D) = b
  <2>1. bs[b] \in Entries
    BY SlotTypes DEF Sound
  <2> QED
    BY <2>1, SlotTypes, RunBefore
<1>2. \A k \in 0..D : k <= bs[Fwd(c, key, k)].dist
  BY RunBefore
<1>3. bs \in [0..(c - 1) -> Slots] /\ D = bs[b].dist /\ key = bs[b].key
  BY DEF Sound
<1> HIDE DEF key, D, T
<1>4. Least(T) \in T /\ Least(T) \in 0..(c - 1) /\ \A k \in T : Least(T) <= k
  BY <1>1, <1>3, SearchEnds DEF T, Stopping
<1>5. D \in T
  BY <1>1, <1>3 DEF T, Stopping
<1>6. Least(T) = D
  <2> DEFINE k == Least(T)
             d == Fwd(c, key, k)
  <2>1. k \in 0..D
    BY <1>1, <1>4, <1>5
  <2>2. k <= bs[d].dist
    BY <1>2, <2>1
  <2>3. d \in 0..(c - 1)
    BY <1>1, <1>4, InTurn
  <2>4. bs[d].dist \in Int /\ bs[d] # Empty
    <3> HIDE DEF d, k
    <3>1. k \in Nat
      BY <2>1
    <3> QED
      BY <1>3, <2>2, <2>3, <3>1, SlotTypes
  <2>5. bs[d].key = key
    <3>1. k > bs[d].dist \/ bs[d].key = key
      BY <1>4 DEF T, Stopping
    <3>2. k \in Int
      BY <2>1
    <3> QED
      BY <2>2, <2>4, <3>1, <3>2
  <2>6. d = b
    BY <1>3, <2>3, <2>4, <2>5
  <2>7. k = D
    <3>1. Dst(c, key, Fwd(c, key, k)) = k /\ Dst(c, key, Fwd(c, key, D)) = D
      BY <1>1, <1>4, DstFwd
    <3> QED
      BY <1>1, <2>6, <3>1
  <2> QED
    BY <2>7
<1>7. D <= bs[Fwd(c, key, D)].dist
  BY <1>1, <1>2
<1>8. find_impl(bs, key) = [found |-> Least(T) <= bs[Fwd(c, key, Least(T))].dist,
                            b |-> Fwd(c, key, Least(T)), dist |-> Least(T)]
  BY <1>3, FindIs DEF T
<1>9. find_impl(bs, key).found = (D <= bs[Fwd(c, key, D)].dist) /\ find_impl(bs, key).b = b
  BY <1>1, <1>6, <1>8
<1> QED
  BY <1>3, <1>7, <1>9

(* Where a key that is not there would belong.                              *)
Belongs(bs, c, key, p) ==
  /\ p.dist \in 0..(c - 1) /\ p.b = Fwd(c, key, p.dist)
  /\ bs[p.b].dist < p.dist
  /\ p.dist > 0 => p.dist - 1 <= bs[Fwd(c, key, p.dist - 1)].dist

LEMMA NotFound ==
  ASSUME NEW c \in Nat \ {0}, NEW bs, bs \in [0..(c - 1) -> Slots], Room(bs, c),
         NEW key \in Nat, \A d \in 0..(c - 1) : bs[d] # Empty => bs[d].key # key
  PROVE  ~ find_impl(bs, key).found /\ Belongs(bs, c, key, find_impl(bs, key))
<1> DEFINE T == Stopping(bs, c, key)
           k == Least(T)
           d == Fwd(c, key, k)
<1>1. k \in T /\ k \in 0..(c - 1) /\ \A x \in T : k <= x
  BY SearchEnds DEF Stopping
<1>2. find_impl(bs, key) = [found |-> k <= bs[d].dist, b |-> d, dist |-> k]
  BY FindIs
<1>3. k \in T => k > bs[d].dist \/ bs[d].key = key
  BY DEF Stopping
<1> HIDE DEF T, k
<1>4. d \in 0..(c - 1) /\ bs[d].dist \in Int /\ (bs[d] = Empty => bs[d].dist = -1)
  BY <1>1, InTurn, SlotTypes
<1>5. k > bs[d].dist
  BY <1>1, <1>3, <1>4
<1>6. k > 0 => k - 1 <= bs[Fwd(c, key, k - 1)].dist
  <2> SUFFICES ASSUME k > 0 PROVE k - 1 <= bs[Fwd(c, key, k - 1)].dist
    OBVIOUS
  <2>1. k - 1 \in 0..c /\ k - 1 \notin T /\ Fwd(c, key, k - 1) \in 0..(c - 1)
    BY <1>1, InTurn
  <2>2. bs[Fwd(c, key, k - 1)].dist \in Int
    BY <2>1, SlotTypes
  <2> QED
    BY <2>1, <2>2 DEF T, Stopping
<1> HIDE DEF d
<1> DEFINE p == find_impl(bs, key)
<1>8. p.found = (k <= bs[d].dist) /\ p.b = d /\ p.dist = k
  BY <1>2
<1> HIDE DEF p
<1>9. ~ p.found
  <2>1. ~ (k <= bs[d].dist)
    BY <1>1, <1>4, <1>5
  <2> QED
    BY <1>8, <2>1, Zenon
<1>10. p.b = Fwd(c, key, p.dist) /\ bs[p.b].dist < p.dist
  BY <1>1, <1>4, <1>5, <1>8 DEF d
<1>11. p.dist > 0 => p.dist - 1 <= bs[Fwd(c, key, p.dist - 1)].dist
  BY <1>6, <1>8
<1>12. p.dist \in 0..(c - 1)
  BY <1>1, <1>8
<1>13. ~ p.found /\ Belongs(bs, c, key, p)
  BY <1>9, <1>10, <1>11, <1>12 DEF Belongs
<1> QED
  BY <1>13 DEF p

LEMMA Sought ==
  ASSUME NEW c \in Nat \ {0}, NEW bs, bs \in [0..(c - 1) -> Slots], Room(bs, c),
         NEW key \in Nat
  PROVE  Belongs(bs, c, key, Seek(bs, key))
<1> DEFINE T == {k \in 0..c : k > bs[Fwd(c, key, k)].dist}
           k == Least(T)
           d == Fwd(c, key, k)
<1>1. k \in T /\ k \in 0..(c - 1) /\ \A x \in T : k <= x
  <2>1. T \subseteq 0..c /\ \A x \in 0..c : x > bs[Fwd(c, key, x)].dist => x \in T
    OBVIOUS
  <2> HIDE DEF T
  <2> QED
    BY <2>1, SearchEnds
<1>2. Seek(bs, key) = [b |-> d, dist |-> k]
  <2>1. (\A b, x : On(bs, b, x) = Fwd(c, b, x)) /\ Count(bs) = c
    BY Steps
  <2>2. {x \in 0..Count(bs) : x > bs[On(bs, key, x)].dist} = T
    BY <2>1
  <2> HIDE DEF T
  <2> QED
    BY <2>1, <2>2, Zenon DEF Seek
<1>3. k > bs[d].dist
  BY <1>1
<1>6. k > 0 => k - 1 <= bs[Fwd(c, key, k - 1)].dist
  <2> SUFFICES ASSUME k > 0 PROVE k - 1 <= bs[Fwd(c, key, k - 1)].dist
    OBVIOUS
  <2> HIDE DEF k
  <2>1. k - 1 \in 0..c /\ k - 1 \notin T /\ Fwd(c, key, k - 1) \in 0..(c - 1)
    BY <1>1, InTurn
  <2>2. bs[Fwd(c, key, k - 1)].dist \in Int
    BY <2>1, SlotTypes
  <2> QED
    BY <2>1, <2>2
<1> HIDE DEF T, k
<1>4. d \in 0..(c - 1) /\ bs[d].dist \in Int
  BY <1>1, InTurn, SlotTypes
<1> HIDE DEF d
<1> QED
  BY <1>1, <1>2, <1>3, <1>4, <1>6 DEF Belongs, d

(* A recursive function whose values stay within S exists, and so does what    *)
(* follows it as long as its values are.                                    *)
Within(m, S, s, F) ==
  m \in Nat /\ s \in S[0] /\ (\A k \in 1..m : \A x \in S[k - 1] : F[k][x] \in S[k])

Run(f, m, S, s, F) ==
  /\ f = [k \in 0..m |-> f[k]] /\ f[0] = s
  /\ \A k \in 0..m : f[k] \in S[k]
  /\ \A k \in 1..m : f[k] = F[k][f[k - 1]]

LEMMA Iterated == \A m, S, s, F : Within(m, S, s, F) => \E f : Run(f, m, S, s, F)
<1> SUFFICES ASSUME NEW m, NEW S, NEW s, NEW F, Within(m, S, s, F)
             PROVE  \E f : Run(f, m, S, s, F)
  OBVIOUS
<1>0. m \in Nat /\ s \in S[0] /\ (\A k \in 1..m : \A x \in S[k - 1] : F[k][x] \in S[k])
  BY DEF Within
<1> DEFINE T == {h \in 0..m : ~ \E f : Run(f, h, S, s, F)}
<1>1. ASSUME T # {} PROVE FALSE
  <2>1. PICK h \in T : \A y \in T : h <= y
    <3>1. T \subseteq Nat
      BY <1>0
    <3> HIDE DEF T
    <3> QED
      BY <1>1, <3>1, LeastNatural
  <2>2. h # 0
    <3> DEFINE g == [k \in 0..0 |-> s]
    <3>1. g = [k \in 0..0 |-> g[k]] /\ g[0] = s /\ (\A k \in 0..0 : g[k] \in S[k])
          /\ \A k \in 1..0 : g[k] = F[k][g[k - 1]]
      BY <1>0
    <3> HIDE DEF g
    <3>2. Run(g, 0, S, s, F)
      BY <3>1 DEF Run
    <3> QED
      BY <3>2
  <2>3. h \in 1..m /\ h - 1 \in 0..m /\ h - 1 \notin T
    BY <1>0, <2>1, <2>2
  <2>4. PICK f : Run(f, h - 1, S, s, F)
    BY <2>3
  <2> DEFINE g == [k \in 0..h |-> IF k = h THEN F[h][f[h - 1]] ELSE f[k]]
  <2>5. f[h - 1] \in S[h - 1] /\ F[h][f[h - 1]] \in S[h]
    BY <1>0, <2>3, <2>4 DEF Run
  <2>6. \A k \in 0..h : g[k] \in S[k]
    <3> SUFFICES ASSUME NEW k \in 0..h PROVE g[k] \in S[k]
      OBVIOUS
    <3>1. CASE k = h
      BY <2>5, <3>1
    <3>2. CASE k # h
      <4>1. k \in 0..(h - 1)
        BY <2>3, <3>2
      <4> QED
        BY <2>4, <3>2, <4>1 DEF Run
    <3> QED
      BY <3>1, <3>2
  <2>7. g[0] = s
    BY <2>2, <2>3, <2>4 DEF Run
  <2>8. \A k \in 1..h : g[k] = F[k][g[k - 1]]
    <3> SUFFICES ASSUME NEW k \in 1..h PROVE g[k] = F[k][g[k - 1]]
      OBVIOUS
    <3>1. k - 1 \in 0..h /\ k - 1 # h /\ k \in 0..h
      BY <2>3
    <3>2. g[k - 1] = f[k - 1] /\ g[k] = IF k = h THEN F[h][f[h - 1]] ELSE f[k]
      BY <3>1
    <3>3. k # h => k \in 1..(h - 1)
      BY <2>3
    <3> QED
      BY <2>4, <3>2, <3>3 DEF Run
  <2>9. g = [k \in 0..h |-> g[k]]
    OBVIOUS
  <2> HIDE DEF g
  <2>10. Run(g, h, S, s, F)
    BY <2>6, <2>7, <2>8, <2>9 DEF Run
  <2> QED
    BY <2>1, <2>10
<1>2. m \in 0..m /\ T = {}
  BY <1>0, <1>1
<1>3. PICK f : Run(f, m, S, s, F)
  BY <1>2
<1> QED
  BY <1>3

LEMMA Followed ==
  \A m, S, s, F, h :
    /\ Within(m, S, s, F) /\ h[0] = s
    /\ \A k \in 1..m : h[k - 1] \in S[k - 1] => h[k] = F[k][h[k - 1]]
    => \A k \in 0..m : h[k] \in S[k]
<1> SUFFICES ASSUME NEW m, NEW S, NEW s, NEW F, NEW h, Within(m, S, s, F), h[0] = s,
                    \A k \in 1..m : h[k - 1] \in S[k - 1] => h[k] = F[k][h[k - 1]]
             PROVE  \A k \in 0..m : h[k] \in S[k]
  OBVIOUS
<1>0. m \in Nat /\ s \in S[0] /\ (\A k \in 1..m : \A x \in S[k - 1] : F[k][x] \in S[k])
  BY DEF Within
<1> DEFINE T == {k \in 0..m : h[k] \notin S[k]}
<1>1. SUFFICES ASSUME T # {} PROVE FALSE
  OBVIOUS
<1>2. PICK k \in T : \A y \in T : k <= y
  <2>1. T \subseteq Nat
    BY <1>0
  <2> HIDE DEF T
  <2> QED
    BY <1>1, <2>1, LeastNatural
<1>3. k # 0
  BY <1>0
<1>4. k \in 1..m /\ k - 1 \in 0..m /\ k - 1 \notin T
  BY <1>0, <1>2, <1>3
<1>5. h[k] \in S[k]
  BY <1>0, <1>4
<1> QED
  BY <1>5

(* What is carried on from a bucket: the one that is nearer.                 *)
Hand(at, x) == [(IF x.dist > at.dist THEN at ELSE x) EXCEPT !.dist = @ + 1]

LEMMA HandIs ==
  ASSUME NEW at \in Entries, NEW x \in Entries
  PROVE  /\ Hand(at, x) \in Entries
         /\ x.dist > at.dist =>
              Hand(at, x).dist = at.dist + 1 /\ Hand(at, x).key = at.key
              /\ Hand(at, x).value = at.value
         /\ ~ (x.dist > at.dist) =>
              Hand(at, x).dist = x.dist + 1 /\ Hand(at, x).key = x.key
              /\ Hand(at, x).value = x.value
<1>1. ASSUME NEW y \in Entries
      PROVE  /\ [y EXCEPT !.dist = @ + 1] \in Entries
             /\ [y EXCEPT !.dist = @ + 1].dist = y.dist + 1
             /\ [y EXCEPT !.dist = @ + 1].key = y.key
             /\ [y EXCEPT !.dist = @ + 1].value = y.value
  BY DEF Entries
<1> QED
  BY <1>1 DEF Hand

(* What is carried from bucket b to the next empty one, w buckets on.         *)
Carries(c, bs, b, e, w, f) ==
  /\ w \in 0..(c - 1) /\ bs[Fwd(c, b, w)] = Empty
  /\ \A k \in 0..(w - 1) : bs[Fwd(c, b, k)] \in Entries
  /\ \A k \in 0..w : f[k] \in Entries
  /\ f[0] = e
  /\ \A k \in 1..w : f[k] = Hand(bs[Fwd(c, b, k - 1)], f[k - 1])

LEMMA CarriedIs ==
  ASSUME NEW c \in Nat \ {0}, NEW bs, bs \in [0..(c - 1) -> Slots], Room(bs, c),
         NEW b \in 0..(c - 1), NEW e \in Entries
  PROVE  Carries(c, bs, b, e, Way(bs, b), Carried(bs, b, e))
<1> DEFINE w == Way(bs, b)
           f == Carried(bs, b, e)
           at == [k \in 0..(c - 1) |-> bs[Fwd(c, b, k)]]
<1>1. (\A d, k : On(bs, d, k) = Fwd(c, d, k)) /\ Count(bs) = c
  BY Steps
<1>2. \A k \in 0..(c - 1) : at[k] \in Slots
  BY InTurn
<1>3. w \in 0..(c - 1) /\ bs[Fwd(c, b, w)] = Empty
        /\ \A k \in 0..(w - 1) : at[k] \in Entries
  <2> DEFINE T == {k \in 0..(c - 1) : empty(bs[Fwd(c, b, k)])}
  <2>1. PICK d \in 0..(c - 1) : bs[d] = Empty
    BY DEF Room
  <2>2. Dst(c, b, d) \in T
    <3>1. Dst(c, b, d) \in 0..(c - 1) /\ Fwd(c, b, Dst(c, b, d)) = d
      BY InTurn, FwdDst
    <3>2. empty(bs[Fwd(c, b, Dst(c, b, d))])
      BY <2>1, <3>1, SlotTypes, Zenon
    <3> QED
      BY <3>1, <3>2, Zenon
  <2>3. Least(T) \in T /\ \A x \in T : Least(T) <= x
    <3>1. T \subseteq Nat /\ T # {}
      BY <2>2
    <3> HIDE DEF T
    <3> QED
      BY <3>1, LeastIs
  <2>4. w = Least(T)
    BY <1>1 DEF Way
  <2> HIDE DEF w
  <2>5. \A k \in 0..(c - 1) : empty(at[k]) => w <= k
    BY <2>3, <2>4
  <2>6. w \in 0..(c - 1) /\ empty(at[w])
    BY <2>3, <2>4
  <2>7. \A k \in 0..(w - 1) : at[k] \in Entries
    <3>1. SUFFICES ASSUME NEW k \in 0..(w - 1) PROVE at[k] \in Entries
      OBVIOUS
    <3>2. k \in 0..(c - 1) /\ ~ empty(at[k])
      BY <2>5, <2>6
    <3> HIDE DEF at
    <3> QED
      BY <1>2, <3>2, SlotTypes
  <2>8. at[w] = Empty
    <3> HIDE DEF at
    <3> QED
      BY <1>2, <2>6, SlotTypes
  <2> QED
    BY <2>6, <2>7, <2>8
<1> HIDE DEF w, at
<1> DEFINE F == [k \in 1..w |-> [x \in Entries |-> Hand(at[k - 1], x)]]
<1>4. \A k \in 1..w, x \in Entries : F[k][x] = Hand(at[k - 1], x) /\ F[k][x] \in Entries
  <2> SUFFICES ASSUME NEW k \in 1..w, NEW x \in Entries
               PROVE  F[k][x] = Hand(at[k - 1], x) /\ F[k][x] \in Entries
    OBVIOUS
  <2>1. F[k][x] = Hand(at[k - 1], x)
    OBVIOUS
  <2>2. at[k - 1] \in Entries
    BY <1>3
  <2> QED
    BY <2>1, <2>2, HandIs
<1> HIDE DEF F
<1>5. PICK g : g \in [0..w -> Entries] /\ g[0] = e /\ \A k \in 1..w : g[k] = F[k][g[k - 1]]
  <2> DEFINE S == [k \in 0..w |-> Entries]
  <2>1. \A k \in 0..w : S[k] = Entries
    OBVIOUS
  <2>2. 0 \in 0..w /\ \A k \in 1..w : k \in 0..w /\ k - 1 \in 0..w
    BY <1>3
  <2> HIDE DEF S
  <2>3. Within(w, S, e, F)
    BY <1>3, <1>4, <2>1, <2>2 DEF Within
  <2>4. PICK g : Run(g, w, S, e, F)
    BY <2>3, Iterated
  <2>5. g = [k \in 0..w |-> g[k]] /\ (\A k \in 0..w : g[k] \in S[k]) /\ g[0] = e
        /\ \A k \in 1..w : g[k] = F[k][g[k - 1]]
    BY <2>4, Zenon DEF Run
  <2>6. g \in [0..w -> Entries]
    BY <2>1, <2>5
  <2> QED
    BY <2>5, <2>6
<1>6. \A k \in 1..w : at[k - 1] = bs[Fwd(c, b, k - 1)]
  BY <1>3 DEF at
<1> DEFINE Next1(h, k) ==
             LET by == bs[On(bs, b, k - 1)]
             IN  [(IF h[k - 1].dist > by.dist THEN by ELSE h[k - 1]) EXCEPT !.dist = @ + 1]
           Is(h) == h = [k \in 0..Way(bs, b) |-> IF k = 0 THEN e ELSE Next1(h, k)]
<1>7. \A h : \A k \in 1..w : Next1(h, k) = Hand(at[k - 1], h[k - 1])
  BY <1>1, <1>6, Zenon DEF Hand
<1>8. f = CHOOSE h : Is(h)
  BY Zenon DEF Carried
<1> HIDE DEF Next1, f
<1>14. Is(g)
  <2>1. \A k \in 0..w : g[k] = IF k = 0 THEN e ELSE Next1(g, k)
    <3> SUFFICES ASSUME NEW k \in 0..w PROVE g[k] = IF k = 0 THEN e ELSE Next1(g, k)
      OBVIOUS
    <3>1. CASE k = 0
      BY <1>5, <3>1
    <3>2. CASE k # 0
      <4>1. k \in 1..w
        BY <1>3, <3>2
      <4>3. g[k - 1] \in Entries
        <5>1. k - 1 \in 0..w
          BY <1>3, <4>1
        <5> QED
          BY <1>5, <5>1
      <4>2. g[k] = Hand(at[k - 1], g[k - 1])
        BY <1>4, <1>5, <4>1, <4>3
      <4> QED
        BY <1>7, <3>2, <4>1, <4>2
    <3> QED
      BY <3>1, <3>2
  <2> QED
    BY <1>5, <2>1 DEF w
<1>9. Is(f)
  BY <1>8, <1>14, Zenon
<1>10. f[0] = e /\ \A k \in 1..w : f[k] = Hand(at[k - 1], f[k - 1])
  <2>1. 0 \in 0..w /\ \A k \in 1..w : k \in 0..w /\ k # 0
    BY <1>3
  <2>2. \A k \in 0..w : f[k] = IF k = 0 THEN e ELSE Next1(f, k)
    BY <1>9, Zenon DEF w
  <2> QED
    BY <1>7, <2>1, <2>2, Zenon
<1>11. \A k \in 0..w : f[k] \in Entries
  <2> DEFINE T == {k \in 0..w : f[k] \notin Entries}
  <2>1. SUFFICES ASSUME T # {} PROVE FALSE
    OBVIOUS
  <2>2. PICK k \in T : \A y \in T : k <= y
    <3>1. T \subseteq Nat
      OBVIOUS
    <3> HIDE DEF T
    <3> QED
      BY <2>1, <3>1, LeastNatural
  <2>3. k # 0
    BY <1>10
  <2>4. k \in 1..w /\ k - 1 \in 0..(w - 1) /\ k - 1 \notin T /\ k - 1 \in 0..w
    BY <1>3, <2>2, <2>3
  <2>5. f[k] \in Entries
    BY <1>3, <1>10, <2>4, HandIs
  <2> QED
    BY <2>5
<1>12. \A k \in 0..(w - 1) : bs[Fwd(c, b, k)] \in Entries
  <2>1. \A k \in 0..(w - 1) : k \in 0..(c - 1)
    BY <1>3
  <2>2. \A k \in 0..(c - 1) : at[k] = bs[Fwd(c, b, k)]
    BY DEF at
  <2> QED
    BY <1>3, <2>1, <2>2
<1>15. \A k \in 1..w : f[k] = Hand(bs[Fwd(c, b, k - 1)], f[k - 1])
  BY <1>6, <1>10
<1>16. Carries(c, bs, b, e, w, f)
  BY <1>3, <1>10, <1>11, <1>12, <1>15 DEF Carries
<1> QED
  BY <1>16 DEF w, f

(* A value put in at bucket b, in terms of the buckets it passes.             *)
Passes(c, bs, b, e, w, f, new) ==
  /\ Carries(c, bs, b, e, w, f)
  /\ new \in [0..(c - 1) -> Slots]
  /\ \A k \in 0..w :
       new[Fwd(c, b, k)] =
         IF f[k].dist > bs[Fwd(c, b, k)].dist THEN f[k] ELSE bs[Fwd(c, b, k)]
  /\ \A k \in (w + 1)..(c - 1) : new[Fwd(c, b, k)] = bs[Fwd(c, b, k)]

LEMMA PutInPasses ==
  ASSUME NEW c \in Nat \ {0}, NEW bs, bs \in [0..(c - 1) -> Slots], Room(bs, c),
         NEW b \in 0..(c - 1), NEW e \in Entries
  PROVE  Passes(c, bs, b, e, Way(bs, b), Carried(bs, b, e), PutIn(bs, b, e))
<1> DEFINE w == Way(bs, b)
           f == Carried(bs, b, e)
           new == PutIn(bs, b, e)
<1>1. /\ w \in 0..(c - 1) /\ bs[Fwd(c, b, w)] = Empty
      /\ \A k \in 0..(w - 1) : bs[Fwd(c, b, k)] \in Entries
      /\ \A k \in 0..w : f[k] \in Entries
      /\ f[0] = e
      /\ \A k \in 1..w : f[k] = Hand(bs[Fwd(c, b, k - 1)], f[k - 1])
  <2>1. Carries(c, bs, b, e, w, f)
    BY CarriedIs
  <2> HIDE DEF w, f
  <2> QED
    BY <2>1 DEF Carries
<1>2. new = [d \in 0..(c - 1) |->
               IF Dst(c, b, d) <= w /\ f[Dst(c, b, d)].dist > bs[d].dist
               THEN f[Dst(c, b, d)] ELSE bs[d]]
  <2>1. (\A x, d : Behind(bs, x, d) = Dst(c, x, d)) /\ DOMAIN bs = 0..(c - 1)
    BY Steps
  <2> QED
    BY <2>1, Zenon DEF PutIn
<1> HIDE DEF w, f, new
<1>3. new \in [0..(c - 1) -> Slots]
  <2> SUFFICES ASSUME NEW d \in 0..(c - 1)
               PROVE  (IF Dst(c, b, d) <= w /\ f[Dst(c, b, d)].dist > bs[d].dist
                       THEN f[Dst(c, b, d)] ELSE bs[d]) \in Slots
    BY <1>2
  <2>1. Dst(c, b, d) \in 0..(c - 1)
    BY InTurn
  <2>2. Dst(c, b, d) <= w => f[Dst(c, b, d)] \in Slots
    BY <1>1, <2>1, SlotTypes
  <2> QED
    BY <2>2
<1>4. ASSUME NEW k \in 0..(c - 1)
      PROVE  new[Fwd(c, b, k)] = IF k <= w /\ f[k].dist > bs[Fwd(c, b, k)].dist
                                 THEN f[k] ELSE bs[Fwd(c, b, k)]
  <2> DEFINE d == Fwd(c, b, k)
  <2>1. d \in 0..(c - 1) /\ Dst(c, b, d) = k
    BY InTurn, DstFwd
  <2> HIDE DEF d
  <2>2. new[d] = IF k <= w /\ f[k].dist > bs[d].dist THEN f[k] ELSE bs[d]
    BY <1>2, <2>1
  <2> QED
    BY <2>2 DEF d
<1>5. (\A k \in 0..w : k \in 0..(c - 1) /\ k <= w)
      /\ \A k \in (w + 1)..(c - 1) : k \in 0..(c - 1) /\ ~ (k <= w)
  BY <1>1
<1> HIDE DEF Fwd, Dst
<1>6. /\ \A k \in 0..w :
           new[Fwd(c, b, k)] =
             IF f[k].dist > bs[Fwd(c, b, k)].dist THEN f[k] ELSE bs[Fwd(c, b, k)]
      /\ \A k \in (w + 1)..(c - 1) : new[Fwd(c, b, k)] = bs[Fwd(c, b, k)]
  BY <1>4, <1>5
<1> QED
  BY <1>1, <1>3, <1>6, Zenon DEF Passes, Carries, w, f, new

LEMMA PutInSound ==
  ASSUME NEW c \in Nat \ {0}, NEW bs, Sound(bs, c), Even(bs, c), Room(bs, c),
         NEW b \in 0..(c - 1), NEW e \in Entries,
         e.dist = Dst(c, e.key, b), e.dist <= bs[Fwd(c, b, c - 1)].dist + 1,
         NEW w, NEW f, NEW new, Passes(c, bs, b, e, w, f, new)
  PROVE  Sound(new, c) /\ Even(new, c)
<1> DEFINE at == [k \in 0..(c - 1) |-> bs[Fwd(c, b, k)]]
           nw == [k \in 0..(c - 1) |-> new[Fwd(c, b, k)]]
<1>1. \A k \in 0..(c - 1) : at[k] = bs[Fwd(c, b, k)] /\ nw[k] = new[Fwd(c, b, k)]
  OBVIOUS
<1> HIDE DEF at, nw
<1>2. \A k \in 0..(c - 1) : Fwd(c, b, k) \in 0..(c - 1) /\ k \in Int
  BY InTurn
<1>3. /\ w \in 0..(c - 1) /\ at[w] = Empty
      /\ \A k \in 0..w : f[k] \in Entries
      /\ f[0] = e
      /\ \A k \in 1..w : f[k] = Hand(at[k - 1], f[k - 1]) /\ at[k - 1] \in Entries
      /\ \A k \in 0..w : nw[k] = IF f[k].dist > at[k].dist THEN f[k] ELSE at[k]
      /\ \A k \in (w + 1)..(c - 1) : nw[k] = at[k]
  <2>1. w \in 0..(c - 1)
    BY DEF Passes, Carries
  <2>2. /\ \A k \in 0..w : k \in 0..(c - 1)
        /\ \A k \in 1..w : k - 1 \in 0..(c - 1) /\ k - 1 \in 0..(w - 1)
        /\ \A k \in (w + 1)..(c - 1) : k \in 0..(c - 1)
    BY <2>1
  <2>3. at[w] = Empty /\ f[0] = e /\ \A k \in 0..w : f[k] \in Entries
    BY <1>1, <2>1 DEF Passes, Carries
  <2>4. \A k \in 1..w : f[k] = Hand(at[k - 1], f[k - 1]) /\ at[k - 1] \in Entries
    BY <1>1, <2>2 DEF Passes, Carries
  <2>5. \A k \in 0..w : nw[k] = IF f[k].dist > at[k].dist THEN f[k] ELSE at[k]
    BY <1>1, <2>2 DEF Passes, Carries
  <2>6. \A k \in (w + 1)..(c - 1) : nw[k] = at[k]
    BY <1>1, <2>2 DEF Passes, Carries
  <2> QED
    BY <2>1, <2>3, <2>4, <2>5, <2>6
<1>4. \A k \in 0..(c - 1) : at[k] \in Slots /\ nw[k] \in Slots /\ at[k].dist \in Int
                            /\ nw[k].dist \in Int /\ at[k].dist <= c - 2
  <2>1. \A d \in 0..(c - 1) : bs[d] \in Slots /\ new[d] \in Slots /\ bs[d].dist <= c - 2
    BY NoneFar DEF Sound, Passes
  <2> QED
    BY <1>1, <1>2, <2>1, SlotTypes
<1>5. \A k \in 0..w : f[k].dist = Dst(c, f[k].key, Fwd(c, b, k))
  <2> DEFINE T == {k \in 0..w : f[k].dist # Dst(c, f[k].key, Fwd(c, b, k))}
  <2>1. SUFFICES ASSUME T # {} PROVE FALSE
    OBVIOUS
  <2>2. PICK k \in T : \A y \in T : k <= y
    <3>1. T \subseteq Nat
      BY <1>3
    <3> HIDE DEF T
    <3> QED
      BY <2>1, <3>1, LeastNatural
  <2>3. k # 0
    <3>1. Fwd(c, b, 0) = b
      BY Round
    <3> QED
      BY <1>3, <3>1
  <2>4. k \in 1..w /\ k - 1 \in 0..w /\ k - 1 \in 0..(c - 1) /\ k \in 0..(c - 1)
    BY <1>3, <2>2, <2>3
  <2> DEFINE q == Fwd(c, b, k - 1)
             h == f[k - 1]
             a == at[k - 1]
             y == IF h.dist > a.dist THEN a ELSE h
  <2>5. h \in Entries /\ a \in Entries /\ f[k] = Hand(a, h)
    BY <1>3, <2>4
  <2>6. q \in 0..(c - 1) /\ Fwd(c, q, 1) = Fwd(c, b, k)
    <3>1. k - 1 \in Int /\ (k - 1) + 1 = k
      BY <2>4
    <3> QED
      BY <1>2, <2>4, <3>1, FwdFwd
  <2>7. h.dist = Dst(c, h.key, q)
    BY <2>2, <2>4
  <2>8. a.dist = Dst(c, a.key, q)
    <3>1. a = bs[q] /\ a # Empty
      BY <1>1, <2>4, <2>5, SlotTypes
    <3> QED
      BY <2>6, <3>1 DEF Sound
  <2>9. a.dist <= c - 2
    BY <1>4, <2>4
  <2> HIDE DEF q, h, a, T
  <2>10. y \in Entries /\ y.dist = Dst(c, y.key, q) /\ y.dist <= c - 2
         /\ f[k].dist = y.dist + 1 /\ f[k].key = y.key /\ y.key \in Int /\ y.dist \in Int
    <3>0. /\ h.dist \in Int /\ h.key \in Int
          /\ a.dist \in Int /\ a.key \in Int
      BY <2>5, SlotTypes
    <3>1. CASE h.dist > a.dist
      <4>1. y = a
        BY <3>1
      <4>2. f[k].dist = a.dist + 1 /\ f[k].key = a.key
        BY <2>5, <3>1, HandIs
      <4> HIDE DEF y
      <4> QED
        BY <2>5, <2>8, <2>9, <3>0, <4>1, <4>2
    <3>2. CASE ~ (h.dist > a.dist)
      <4>1. y = h /\ h.dist <= c - 2
        BY <2>9, <3>0, <3>2
      <4>2. f[k].dist = h.dist + 1 /\ f[k].key = h.key
        BY <2>5, <3>2, HandIs
      <4> HIDE DEF y
      <4> QED
        BY <2>5, <2>7, <3>0, <4>1, <4>2
    <3> QED
      BY <3>1, <3>2
  <2> HIDE DEF y
  <2>11. Dst(c, y.key, Fwd(c, q, 1)) = y.dist + 1
    <3>1. Dst(c, y.key, Fwd(c, q, 1)) =
            IF Dst(c, y.key, q) = c - 1 THEN 0 ELSE Dst(c, y.key, q) + 1
      BY <2>6, <2>10, OneOn
    <3> QED
      BY <2>10, <3>1
  <2>12. f[k].dist = Dst(c, f[k].key, Fwd(c, b, k))
    BY <2>6, <2>10, <2>11
  <2> QED
    BY <2>2, <2>12 DEF T
<1>6. Sound(new, c)
  <2>1. new \in [0..(c - 1) -> Slots]
    BY DEF Passes, Carries
  <2>2. ASSUME NEW d \in 0..(c - 1), new[d] # Empty
        PROVE  new[d].dist = Dst(c, new[d].key, d)
    <3> DEFINE k == Dst(c, b, d)
    <3>1. k \in 0..(c - 1) /\ Fwd(c, b, k) = d
      BY InTurn, FwdDst
    <3> HIDE DEF k
    <3>2. nw[k] = new[d] /\ at[k] = bs[d]
      BY <1>1, <3>1
    <3>3. nw[k] = at[k] \/ (k \in 0..w /\ nw[k] = f[k])
      <4>1. k \in 0..w \/ k \in (w + 1)..(c - 1)
        BY <1>3, <3>1
      <4> QED
        BY <1>3, <4>1
    <3>4. CASE nw[k] = at[k]
      BY <2>2, <3>2, <3>4 DEF Sound
    <3>5. CASE k \in 0..w /\ nw[k] = f[k]
      BY <1>5, <3>1, <3>2, <3>5
    <3> QED
      BY <3>3, <3>4, <3>5
  <2> QED
    BY <2>1, <2>2 DEF Sound
<1>7. \A k \in 0..(c - 1) : at[k].dist <= nw[k].dist
  <2> SUFFICES ASSUME NEW k \in 0..(c - 1) PROVE at[k].dist <= nw[k].dist
    OBVIOUS
  <2>1. k \in 0..w \/ k \in (w + 1)..(c - 1)
    BY <1>3
  <2>2. CASE k \in 0..w
    <3>1. f[k].dist \in Int /\ at[k].dist \in Int
      BY <1>3, <1>4, <2>2, SlotTypes
    <3> QED
      BY <1>3, <2>2, <3>1
  <2>3. CASE k \in (w + 1)..(c - 1)
    BY <1>3, <1>4, <2>3
  <2> QED
    BY <2>1, <2>2, <2>3
<1>8. \A k \in 1..(c - 1) : nw[k].dist <= nw[k - 1].dist + 1
  <2> SUFFICES ASSUME NEW k \in 1..(c - 1) PROVE nw[k].dist <= nw[k - 1].dist + 1
    OBVIOUS
  <2>1. k \in 0..(c - 1) /\ k - 1 \in 0..(c - 1)
    OBVIOUS
  <2>2. at[k].dist <= at[k - 1].dist + 1
    <3>1. Fwd(c, Fwd(c, b, k - 1), 1) = Fwd(c, b, k)
      <4>1. k - 1 \in Int /\ (k - 1) + 1 = k
        OBVIOUS
      <4> QED
        BY <4>1, FwdFwd
    <3>2. Fwd(c, b, k - 1) \in 0..(c - 1)
      BY <1>2, <2>1
    <3> QED
      BY <1>1, <2>1, <3>1, <3>2 DEF Even
  <2>3. nw[k] = at[k] => nw[k].dist <= nw[k - 1].dist + 1
    BY <1>4, <1>7, <2>1, <2>2
  <2>4. ASSUME nw[k] # at[k] PROVE nw[k].dist <= nw[k - 1].dist + 1
    <3>1. k \in 1..w /\ k \in 0..w /\ k - 1 \in 0..w
      BY <1>3, <2>1, <2>4
    <3>2. nw[k] = f[k]
      BY <1>3, <2>4, <3>1
    <3>3. /\ f[k] = Hand(at[k - 1], f[k - 1]) /\ at[k - 1] \in Entries
          /\ f[k - 1] \in Entries
      BY <1>3, <3>1
    <3>4. nw[k - 1] = IF f[k - 1].dist > at[k - 1].dist THEN f[k - 1] ELSE at[k - 1]
      BY <1>3, <3>1
    <3>5. f[k - 1].dist \in Int /\ at[k - 1].dist \in Int
      BY <3>3, SlotTypes
    <3>6. f[k].dist = IF f[k - 1].dist > at[k - 1].dist THEN at[k - 1].dist + 1
                      ELSE f[k - 1].dist + 1
      BY <3>3, HandIs
    <3> QED
      BY <3>2, <3>4, <3>5, <3>6
  <2> QED
    BY <2>3, <2>4
<1>9. nw[0].dist <= nw[c - 1].dist + 1
  <2>1. 0 \in 0..(c - 1) /\ c - 1 \in 0..(c - 1) /\ 0 \in 0..w
    BY <1>3
  <2>2. at[0].dist <= at[c - 1].dist + 1
    <3>1. Fwd(c, Fwd(c, b, c - 1), 1) = Fwd(c, b, 0)
      <4>1. Fwd(c, Fwd(c, b, c - 1), 1) = Fwd(c, b, c)
        <5>1. c - 1 \in Int /\ (c - 1) + 1 = c
          OBVIOUS
        <5> QED
          BY <5>1, FwdFwd
      <4> QED
        BY <4>1, Round
    <3> QED
      BY <1>1, <1>2, <2>1, <3>1 DEF Even
  <2>3. nw[0] = at[0] \/ nw[0] = e
    BY <1>3, <2>1
  <2>4. e.dist <= at[c - 1].dist + 1
    BY <1>1, <2>1
  <2>5. e.dist \in Int
    BY SlotTypes
  <2> QED
    BY <1>4, <1>7, <2>1, <2>2, <2>3, <2>4, <2>5
<1>10. Even(new, c)
  <2> SUFFICES ASSUME NEW d \in 0..(c - 1)
               PROVE  new[Fwd(c, d, 1)].dist <= new[d].dist + 1
    BY DEF Even
  <2> DEFINE k == Dst(c, b, d)
  <2>1. k \in 0..(c - 1) /\ Fwd(c, b, k) = d
    BY InTurn, FwdDst
  <2>2. Fwd(c, d, 1) = Fwd(c, b, k + 1)
    BY <2>1, FwdFwd
  <2> HIDE DEF k
  <2>3. new[d] = nw[k]
    BY <1>1, <2>1
  <2>4. CASE k = c - 1
    <3>1. Fwd(c, b, k + 1) = Fwd(c, b, 0)
      <4>1. k + 1 = c
        BY <2>4
      <4> QED
        BY <4>1, Round
    <3>2. new[Fwd(c, d, 1)] = nw[0]
      <4>1. 0 \in 0..(c - 1)
        OBVIOUS
      <4> QED
        BY <1>1, <2>2, <3>1, <4>1
    <3> QED
      BY <1>9, <2>3, <2>4, <3>2
  <2>5. CASE k # c - 1
    <3>1. k + 1 \in 1..(c - 1) /\ k + 1 \in 0..(c - 1) /\ (k + 1) - 1 = k
      BY <2>1, <2>5
    <3>2. new[Fwd(c, d, 1)] = nw[k + 1]
      BY <1>1, <2>2, <3>1
    <3>3. nw[k + 1].dist <= nw[(k + 1) - 1].dist + 1
      BY <1>8, <3>1
    <3> QED
      BY <2>3, <3>1, <3>2, <3>3
  <2> QED
    BY <2>4, <2>5
<1> QED
  BY <1>6, <1>10

(* A table that holds a map but for the value in hand.                       *)
InHand(bs, c, x, map) ==
  /\ Holds(bs, c, Without(map, {x.key}))
  /\ x.key \in DOMAIN map /\ map[x.key] = x.value

LEMMA WithoutIs ==
  \A map, K :
    /\ DOMAIN Without(map, K) = DOMAIN map \ K
    /\ \A key \in DOMAIN map \ K : Without(map, K)[key] = map[key]
    /\ \A S : DOMAIN map \subseteq S => DOMAIN Without(map, K) \subseteq S
  BY DEF Without

LEMMA Swapped ==
  ASSUME NEW c \in Nat \ {0}, NEW bs, bs \in [0..(c - 1) -> Slots], NEW map,
         NEW d \in 0..(c - 1), NEW x \in Entries, NEW y \in Entries,
         bs[d] # Empty, bs[d].key = y.key, bs[d].value = y.value, InHand(bs, c, x, map)
  PROVE  InHand([bs EXCEPT ![d] = x], c, y, map)
<1> DEFINE new == [bs EXCEPT ![d] = x]
           mx == Without(map, {x.key})
           my == Without(map, {y.key})
<1>1. /\ DOMAIN mx = DOMAIN map \ {x.key} /\ DOMAIN my = DOMAIN map \ {y.key}
      /\ \A key \in DOMAIN mx : mx[key] = map[key]
      /\ \A key \in DOMAIN my : my[key] = map[key]
  BY DEF Without
<1>2. new[d] = x /\ \A q \in 0..(c - 1) : q # d => new[q] = bs[q]
  OBVIOUS
<1>3. x # Empty
  BY SlotTypes
<1> HIDE DEF mx, my, new
<1>4. Holds(bs, c, mx) /\ x.key \in DOMAIN map /\ map[x.key] = x.value
  BY DEF InHand, mx
<1>5. y.key \in DOMAIN mx /\ mx[y.key] = y.value
  BY <1>4 DEF Holds
<1>6. \A q \in 0..(c - 1) : bs[q] # Empty /\ bs[q].key = y.key => q = d
  BY <1>4 DEF Holds
<1>7. \A q \in 0..(c - 1) : new[q] # Empty =>
        new[q].key \in DOMAIN my /\ my[new[q].key] = new[q].value
  <2> SUFFICES ASSUME NEW q \in 0..(c - 1), new[q] # Empty
               PROVE  new[q].key \in DOMAIN my /\ my[new[q].key] = new[q].value
    OBVIOUS
  <2>1. CASE q = d
    BY <1>1, <1>2, <1>4, <1>5, <2>1
  <2>2. CASE q # d
    BY <1>1, <1>2, <1>4, <1>6, <2>2 DEF Holds
  <2> QED
    BY <2>1, <2>2
<1>8. \A key \in DOMAIN my : \E q \in 0..(c - 1) : new[q] # Empty /\ new[q].key = key
  <2> SUFFICES ASSUME NEW key \in DOMAIN my
               PROVE  \E q \in 0..(c - 1) : new[q] # Empty /\ new[q].key = key
    OBVIOUS
  <2>1. CASE key = x.key
    BY <1>2, <1>3, <2>1
  <2>2. CASE key # x.key
    <3>1. PICK q \in 0..(c - 1) : bs[q] # Empty /\ bs[q].key = key
      BY <1>1, <1>4, <2>2 DEF Holds
    <3>2. q # d
      BY <1>1, <3>1
    <3> QED
      BY <1>2, <3>1, <3>2
  <2> QED
    BY <2>1, <2>2
<1>9. \A q, r \in 0..(c - 1) :
        new[q] # Empty /\ new[r] # Empty /\ new[q].key = new[r].key => q = r
  <2>1. \A q \in 0..(c - 1) : q # d /\ new[q] # Empty => new[q].key # x.key
    BY <1>1, <1>2, <1>4 DEF Holds
  <2>2. \A q, r \in 0..(c - 1) :
          q # d /\ r # d /\ new[q] # Empty /\ new[r] # Empty /\ new[q].key = new[r].key => q = r
    BY <1>2, <1>4 DEF Holds
  <2> QED
    BY <1>2, <2>1, <2>2
<1>10. Holds(new, c, my)
  BY <1>7, <1>8, <1>9 DEF Holds
<1> QED
  BY <1>1, <1>5, <1>10 DEF InHand, my, new

LEMMA PutDown ==
  ASSUME NEW c \in Nat \ {0}, NEW bs, bs \in [0..(c - 1) -> Slots], NEW map,
         NEW d \in 0..(c - 1), NEW x \in Entries, bs[d] = Empty, InHand(bs, c, x, map)
  PROVE  Holds([bs EXCEPT ![d] = x], c, map)
<1> DEFINE new == [bs EXCEPT ![d] = x]
           mx == Without(map, {x.key})
<1>1. /\ DOMAIN mx = DOMAIN map \ {x.key}
      /\ \A key \in DOMAIN mx : mx[key] = map[key]
  BY DEF Without
<1>2. new[d] = x /\ \A q \in 0..(c - 1) : q # d => new[q] = bs[q]
  OBVIOUS
<1>3. x # Empty
  BY SlotTypes
<1> HIDE DEF mx, new
<1>4. Holds(bs, c, mx) /\ x.key \in DOMAIN map /\ map[x.key] = x.value
  BY DEF InHand, mx
<1>5. \A q \in 0..(c - 1) : q # d /\ new[q] # Empty =>
        new[q].key \in DOMAIN mx /\ mx[new[q].key] = new[q].value
  BY <1>2, <1>4 DEF Holds
<1>6. \A q \in 0..(c - 1) : new[q] # Empty =>
        new[q].key \in DOMAIN map /\ map[new[q].key] = new[q].value
  BY <1>1, <1>2, <1>4, <1>5
<1>7. \A key \in DOMAIN map : \E q \in 0..(c - 1) : new[q] # Empty /\ new[q].key = key
  <2> SUFFICES ASSUME NEW key \in DOMAIN map
               PROVE  \E q \in 0..(c - 1) : new[q] # Empty /\ new[q].key = key
    OBVIOUS
  <2>1. CASE key = x.key
    BY <1>2, <1>3, <2>1
  <2>2. CASE key # x.key
    <3>1. PICK q \in 0..(c - 1) : bs[q] # Empty /\ bs[q].key = key
      BY <1>1, <1>4, <2>2 DEF Holds
    <3> QED
      BY <1>2, <3>1
  <2> QED
    BY <2>1, <2>2
<1>8. \A q, r \in 0..(c - 1) :
        new[q] # Empty /\ new[r] # Empty /\ new[q].key = new[r].key => q = r
  <2>1. \A q \in 0..(c - 1) : q # d /\ new[q] # Empty => new[q].key # x.key
    BY <1>1, <1>5
  <2>2. \A q, r \in 0..(c - 1) :
          q # d /\ r # d /\ new[q] # Empty /\ new[r] # Empty /\ new[q].key = new[r].key => q = r
    BY <1>2, <1>4 DEF Holds
  <2> QED
    BY <1>2, <2>1, <2>2
<1> QED
  BY <1>6, <1>7, <1>8 DEF Holds, new

LEMMA PutInHolds ==
  ASSUME NEW c \in Nat \ {0}, NEW bs, bs \in [0..(c - 1) -> Slots], NEW map,
         NEW b \in 0..(c - 1), NEW e \in Entries, InHand(bs, c, e, map),
         NEW w, NEW f, NEW new, Passes(c, bs, b, e, w, f, new)
  PROVE  Holds(new, c, map)
<1> DEFINE stage(m) == [d \in 0..(c - 1) |-> IF Dst(c, b, d) < m THEN new[d] ELSE bs[d]]
<1>1. /\ w \in 0..(c - 1) /\ bs[Fwd(c, b, w)] = Empty /\ f[0] = e
      /\ \A k \in 0..w : f[k] \in Entries
      /\ new \in [0..(c - 1) -> Slots]
  BY DEF Passes, Carries
<1>2. \A d \in 0..(c - 1) : Dst(c, b, d) \in 0..(c - 1)
  BY InTurn
<1>3. stage(0) = bs
  BY <1>2
<1>4. ASSUME NEW m \in 0..(c - 1)
      PROVE  stage(m + 1) = [stage(m) EXCEPT ![Fwd(c, b, m)] = new[Fwd(c, b, m)]]
  <2> DEFINE q == Fwd(c, b, m)
  <2>1. q \in 0..(c - 1) /\ Dst(c, b, q) = m
    BY InTurn, DstFwd
  <2>2. \A d \in 0..(c - 1) : Dst(c, b, d) = m => d = q
    <3> SUFFICES ASSUME NEW d \in 0..(c - 1), Dst(c, b, d) = m PROVE d = q
      OBVIOUS
    <3>1. Fwd(c, b, Dst(c, b, d)) = d
      BY FwdDst
    <3> QED
      BY <3>1
  <2> HIDE DEF q
  <2>3. \A d \in 0..(c - 1) : d # q => (Dst(c, b, d) < m + 1 <=> Dst(c, b, d) < m)
    <3> SUFFICES ASSUME NEW d \in 0..(c - 1), d # q
                 PROVE  Dst(c, b, d) < m + 1 <=> Dst(c, b, d) < m
      OBVIOUS
    <3>1. PICK k \in 0..(c - 1) : k = Dst(c, b, d)
      BY <1>2
    <3>2. k # m
      BY <2>2, <3>1
    <3>3. k < m + 1 <=> k < m
      BY <3>2
    <3> QED
      BY <3>1, <3>3
  <2>4. \A d \in 0..(c - 1) : stage(m + 1)[d] = IF d = q THEN new[q] ELSE stage(m)[d]
    BY <2>1, <2>3
  <2>5. stage(m + 1) = [stage(m) EXCEPT ![q] = new[q]]
    BY <2>4
  <2> QED
    BY <2>5 DEF q
<1>5. ASSUME NEW m \in 0..(c - 1)
      PROVE  /\ Fwd(c, b, m) \in 0..(c - 1) /\ stage(m)[Fwd(c, b, m)] = bs[Fwd(c, b, m)]
             /\ stage(m) \in [0..(c - 1) -> Slots]
  <2>1. Fwd(c, b, m) \in 0..(c - 1) /\ Dst(c, b, Fwd(c, b, m)) = m
    BY InTurn, DstFwd
  <2>2. stage(m)[Fwd(c, b, m)] = bs[Fwd(c, b, m)]
    BY <2>1
  <2>3. stage(m) \in [0..(c - 1) -> Slots]
    BY <1>1
  <2> QED
    BY <2>1, <2>2, <2>3
<1>6. stage(w + 1) = new
  <2>1. \A d \in 0..(c - 1) : stage(w + 1)[d] = new[d]
    <3> SUFFICES ASSUME NEW d \in 0..(c - 1), ~ (Dst(c, b, d) < w + 1) PROVE new[d] = bs[d]
      OBVIOUS
    <3>1. PICK k \in 0..(c - 1) : k = Dst(c, b, d)
      BY <1>2
    <3>2. k \in (w + 1)..(c - 1)
      BY <1>1, <3>1
    <3>3. Fwd(c, b, k) = d
      BY <3>1, FwdDst
    <3> QED
      BY <3>2, <3>3 DEF Passes
  <2> QED
    BY <1>1, <2>1
<1> HIDE DEF stage
<1>7. \A m \in 0..w : InHand(stage(m), c, f[m], map)
  <2> DEFINE T == {m \in 0..w : ~ InHand(stage(m), c, f[m], map)}
  <2>1. SUFFICES ASSUME T # {} PROVE FALSE
    OBVIOUS
  <2>2. PICK m \in T : \A y \in T : m <= y
    <3>1. T \subseteq Nat
      BY <1>1
    <3> HIDE DEF T
    <3> QED
      BY <2>1, <3>1, LeastNatural
  <2>3. m # 0
    BY <1>1, <1>3
  <2>4. m \in 1..w /\ m - 1 \in 0..w /\ m - 1 \in 0..(c - 1) /\ m - 1 \in 0..(w - 1)
        /\ m - 1 \notin T /\ (m - 1) + 1 = m /\ m \in 0..w
    BY <1>1, <2>2, <2>3
  <2> DEFINE l == m - 1
             q == Fwd(c, b, l)
  <2>5. InHand(stage(l), c, f[l], map)
    BY <2>4
  <2>6. bs[q] \in Entries /\ f[l] \in Entries /\ f[m] \in Entries /\ f[m] = Hand(bs[q], f[l])
    BY <2>4 DEF Passes, Carries
  <2>7. /\ q \in 0..(c - 1) /\ stage(l)[q] = bs[q] /\ stage(l) \in [0..(c - 1) -> Slots]
        /\ stage(m) = [stage(l) EXCEPT ![q] = new[q]]
        /\ new[q] = IF f[l].dist > bs[q].dist THEN f[l] ELSE bs[q]
    <3>1. q \in 0..(c - 1) /\ stage(l)[q] = bs[q] /\ stage(l) \in [0..(c - 1) -> Slots]
      BY <1>5, <2>4
    <3>2. stage(m) = [stage(l) EXCEPT ![q] = new[q]]
      BY <1>4, <2>4
    <3>3. new[q] = IF f[l].dist > bs[q].dist THEN f[l] ELSE bs[q]
      BY <2>4 DEF Passes
    <3> QED
      BY <3>1, <3>2, <3>3
  <2> HIDE DEF l, q, T
  <2>8. InHand(stage(m), c, f[m], map)
    <3>1. CASE f[l].dist > bs[q].dist
      <4>1. bs[q].key = f[m].key /\ bs[q].value = f[m].value
        BY <2>6, <3>1, HandIs
      <4>2. bs[q] # Empty
        BY <2>6, SlotTypes
      <4>3. stage(m) = [stage(l) EXCEPT ![q] = f[l]]
        BY <2>7, <3>1
      <4>4. InHand([stage(l) EXCEPT ![q] = f[l]], c, f[m], map)
        BY <2>5, <2>6, <2>7, <4>1, <4>2, Swapped
      <4> QED
        BY <4>3, <4>4
    <3>2. CASE ~ (f[l].dist > bs[q].dist)
      <4>1. f[m].key = f[l].key /\ f[m].value = f[l].value
        BY <2>6, <3>2, HandIs
      <4>2. stage(m) = stage(l)
        BY <2>7, <3>2
      <4> QED
        BY <2>5, <4>1, <4>2 DEF InHand
    <3> QED
      BY <3>1, <3>2
  <2> QED
    BY <2>2, <2>8 DEF T
<1>8. InHand(stage(w), c, f[w], map) /\ f[w] \in Entries
  BY <1>1, <1>7
<1>9. /\ Fwd(c, b, w) \in 0..(c - 1) /\ stage(w)[Fwd(c, b, w)] = Empty
      /\ stage(w) \in [0..(c - 1) -> Slots] /\ new[Fwd(c, b, w)] = f[w]
  <2>1. w \in 0..(c - 1) /\ w \in 0..w
    BY <1>1
  <2>2. f[w].dist > bs[Fwd(c, b, w)].dist
    BY <1>1, <1>8, SlotTypes
  <2> QED
    BY <1>1, <1>5, <2>1, <2>2 DEF Passes
<1>10. new = [stage(w) EXCEPT ![Fwd(c, b, w)] = f[w]]
  BY <1>1, <1>4, <1>6, <1>9
<1>11. Holds([stage(w) EXCEPT ![Fwd(c, b, w)] = f[w]], c, map)
  BY <1>8, <1>9, PutDown
<1> QED
  BY <1>10, <1>11

(* As many buckets are taken as there are keys; with fewer keys than buckets   *)
(* there is room.                                                           *)
Full(bs, c) == {b \in 0..(c - 1) : bs[b] # Empty}

LEMMA OneEach ==
  ASSUME NEW c \in Nat, NEW bs, NEW map, Holds(bs, c, map)
  PROVE  /\ IsFiniteSet(DOMAIN map) /\ IsFiniteSet(Full(bs, c))
         /\ Cardinality(DOMAIN map) = Cardinality(Full(bs, c))
         /\ Cardinality(DOMAIN map) \in Nat
<1> DEFINE U == Full(bs, c)
           f == [b \in U |-> bs[b].key]
<1>1. IsFiniteSet(U)
  <2>1. U \in SUBSET (0..(c - 1))
    BY DEF Full
  <2>2. IsFiniteSet(0..(c - 1))
    BY FS_Interval
  <2> QED
    BY <2>1, <2>2, FS_Subset
<1>2. f \in Bijection(U, DOMAIN map)
  <2>1. f \in [U -> DOMAIN map]
    BY DEF Holds, Full
  <2>2. \A a, b \in U : f[a] = f[b] => a = b
    BY DEF Holds, Full
  <2>3. \A key \in DOMAIN map : \E b \in U : f[b] = key
    BY DEF Holds, Full
  <2> HIDE DEF f, U
  <2> QED
    BY <2>1, <2>2, <2>3 DEF Bijection, Injection, Surjection, IsInjective
<1>3. ExistsBijection(U, DOMAIN map)
  BY <1>2 DEF ExistsBijection
<1>4. IsFiniteSet(DOMAIN map) /\ Cardinality(DOMAIN map) = Cardinality(U)
  BY <1>1, <1>3, FS_Bijection
<1> QED
  BY <1>1, <1>4, FS_CardinalityType

LEMMA RoomFor ==
  ASSUME NEW c \in Nat \ {0}, NEW bs, NEW map, Holds(bs, c, map),
         Cardinality(DOMAIN map) < c
  PROVE  Room(bs, c)
<1>1. Cardinality(Full(bs, c)) < c
  BY OneEach
<1>2. Cardinality(0..(c - 1)) = c
  BY FS_Interval
<1>3. Full(bs, c) # 0..(c - 1)
  BY <1>1, <1>2
<1> QED
  BY <1>3 DEF Full, Room

LEMMA NewTable ==
  ASSUME NEW c \in Nat, NEW map, DOMAIN map = {}
  PROVE  /\ Sound(Buckets(c), c) /\ Even(Buckets(c), c) /\ Holds(Buckets(c), c, map)
         /\ Count(Buckets(c)) = c
<1> DEFINE bs == Buckets(c)
<1>1. /\ bs \in [0..(c - 1) -> Slots] /\ DOMAIN bs = 0..(c - 1)
      /\ \A b \in 0..(c - 1) : bs[b] = Empty
  BY SlotTypes DEF Buckets
<1> HIDE DEF bs
<1>2. Count(bs) = c
  BY <1>1, CountIs
<1>3. Even(bs, c)
  <2> SUFFICES ASSUME NEW b \in 0..(c - 1) PROVE bs[Fwd(c, b, 1)].dist <= bs[b].dist + 1
    BY DEF Even
  <2>1. c \in Nat \ {0}
    OBVIOUS
  <2>2. Fwd(c, b, 1) \in 0..(c - 1)
    BY <2>1, InTurn
  <2> QED
    BY <1>1, <2>2, SlotTypes
<1>4. Sound(bs, c) /\ Holds(bs, c, map)
  BY <1>1 DEF Sound, Holds
<1> QED
  BY <1>2, <1>3, <1>4 DEF bs

(* A table in order that holds a map.                                        *)
Good(bs, c, map) == Sound(bs, c) /\ Even(bs, c) /\ Holds(bs, c, map)

Adds(map, new, e) ==
  /\ e.key \notin DOMAIN map /\ DOMAIN new = DOMAIN map \cup {e.key}
  /\ new[e.key] = e.value /\ \A key \in DOMAIN map : new[key] = map[key]

LEMMA HoldsSame ==
  ASSUME NEW c \in Nat, NEW bs, NEW map, NEW same, Holds(bs, c, map),
         DOMAIN same = DOMAIN map, \A key \in DOMAIN map : same[key] = map[key]
  PROVE  Holds(bs, c, same)
BY DEF Holds

LEMMA PutInGood ==
  ASSUME NEW c \in Nat \ {0}, NEW bs, NEW map, Good(bs, c, map), Room(bs, c),
         NEW b \in 0..(c - 1), NEW e \in Entries, NEW new, Adds(map, new, e),
         e.dist = Dst(c, e.key, b), e.dist <= bs[Fwd(c, b, c - 1)].dist + 1
  PROVE  Good(PutIn(bs, b, e), c, new)
<1>1. bs \in [0..(c - 1) -> Slots] /\ Sound(bs, c) /\ Even(bs, c) /\ Holds(bs, c, map)
  BY DEF Good, Sound
<1>2. Passes(c, bs, b, e, Way(bs, b), Carried(bs, b, e), PutIn(bs, b, e))
  BY <1>1, PutInPasses
<1>3. Sound(PutIn(bs, b, e), c) /\ Even(PutIn(bs, b, e), c)
  BY <1>1, <1>2, PutInSound
<1>4. InHand(bs, c, e, new)
  <2> DEFINE less == Without(new, {e.key})
  <2>1. DOMAIN less = DOMAIN map /\ \A key \in DOMAIN map : less[key] = map[key]
    BY DEF Adds, Without
  <2> HIDE DEF less
  <2>2. Holds(bs, c, less)
    BY <1>1, <2>1, HoldsSame
  <2> QED
    BY <2>2 DEF InHand, Adds, less
<1>5. Holds(PutIn(bs, b, e), c, new)
  BY <1>1, <1>2, <1>4, PutInHolds
<1> QED
  BY <1>3, <1>5 DEF Good

LEMMA OnRehash ==
  ASSUME NEW c \in Nat \ {0}, NEW bs, NEW map, Good(bs, c, map), Room(bs, c),
         NEW e \in Entries, NEW new, Adds(map, new, e)
  PROVE  Good(insert_value_on_rehash(bs, e), c, new)
<1> DEFINE x == [e EXCEPT !.dist = 0]
           b == Fwd(c, e.key, 0)
<1>1. x \in Entries /\ x.dist = 0 /\ x.key = e.key /\ x.value = e.value /\ e.key \in Nat
  BY SlotTypes DEF Entries
<1>2. b \in 0..(c - 1) /\ Dst(c, e.key, b) = 0
  <2>1. 0 \in 0..(c - 1)
    OBVIOUS
  <2> QED
    BY <1>1, <2>1, InTurn, DstFwd
<1> HIDE DEF x, b
<1>3. x.dist <= bs[Fwd(c, b, c - 1)].dist + 1
  <2>1. Fwd(c, b, c - 1) \in 0..(c - 1)
    BY <1>2, InTurn
  <2> QED
    BY <1>1, <2>1, SlotTypes DEF Good, Sound
<1>4. Adds(map, new, x)
  BY <1>1 DEF Adds
<1>5. Good(PutIn(bs, b, x), c, new)
  BY <1>1, <1>2, <1>3, <1>4, PutInGood
<1>6. insert_value_on_rehash(bs, e) = PutIn(bs, b, x)
  <2>1. DOMAIN bs = 0..(c - 1)
    BY DEF Good, Sound
  <2>2. \A q, k : On(bs, q, k) = Fwd(c, q, k)
    BY <2>1, Steps
  <2> QED
    BY <2>2, Zenon DEF insert_value_on_rehash, bucket_for_hash, x, b
<1> QED
  BY <1>5, <1>6

(* What the first k buckets hold.                                            *)
Part(bs, map, k) == [key \in {bs[b].key : b \in Full(bs, k)} |-> map[key]]

LEMMA MovedGood ==
  ASSUME NEW c \in Nat, NEW bs, bs \in [0..(c - 1) -> Slots], NEW map, Holds(bs, c, map),
         NEW d \in Nat, d = 0 => DOMAIN map = {}, d # 0 => Cardinality(DOMAIN map) < d
  PROVE  Good(Moved(bs, d), d, map)
<1> DEFINE part(k) == Part(bs, map, k)
           S == [k \in 0..c |-> {x \in [0..(d - 1) -> Slots] : Good(x, d, part(k))}]
           step(k, x) == IF empty(bs[k - 1]) THEN x ELSE insert_value_on_rehash(x, bs[k - 1])
           F == [k \in 1..c |-> [x \in S[k - 1] |-> step(k, x)]]
<1>1. Count(bs) = c
  BY CountIs
<1>2. \A k \in 0..c : \A x : x \in S[k] <=> x \in [0..(d - 1) -> Slots] /\ Good(x, d, part(k))
  OBVIOUS
<1>3. \A k \in 0..c : DOMAIN part(k) \subseteq DOMAIN map
  BY DEF Part, Full, Holds
<1>4. Buckets(d) \in S[0]
  <2>1. DOMAIN part(0) = {}
    BY DEF Part, Full
  <2> HIDE DEF part, S
  <2>2. Good(Buckets(d), d, part(0)) /\ Buckets(d) \in [0..(d - 1) -> Slots]
    BY <2>1, NewTable DEF Good, Sound
  <2> QED
    BY <1>2, <2>2
<1>5. ASSUME NEW k \in 1..c, NEW x \in S[k - 1] PROVE step(k, x) \in S[k]
  <2>1. k - 1 \in 0..(c - 1) /\ k - 1 \in 0..c /\ k \in 0..c
        /\ \A b : b \in 0..(k - 1) <=> b \in 0..((k - 1) - 1) \/ b = k - 1
    OBVIOUS
  <2> DEFINE e == bs[k - 1]
  <2>2. x \in [0..(d - 1) -> Slots] /\ Good(x, d, part(k - 1))
    BY <1>2, <2>1
  <2>3. e \in Slots
    BY <2>1
  <2>4. CASE e = Empty
    <3>1. Full(bs, k) = Full(bs, k - 1)
      BY <2>1, <2>4 DEF Full
    <3>2. part(k) = part(k - 1)
      BY <3>1 DEF Part
    <3>3. step(k, x) = x
      BY <2>4, SlotTypes
    <3> HIDE DEF step, part, S
    <3> QED
      BY <1>2, <2>1, <2>2, <3>2, <3>3
  <2>5. CASE e # Empty
    <3>1. e \in Entries /\ ~ empty(e)
      BY <2>3, <2>5, SlotTypes
    <3>2. Full(bs, k) = Full(bs, k - 1) \cup {k - 1}
      BY <2>1, <2>5 DEF Full
    <3>3. e.key \in DOMAIN map /\ map[e.key] = e.value
      BY <2>1, <2>5 DEF Holds
    <3>4. e.key \notin DOMAIN part(k - 1)
      <4> SUFFICES ASSUME NEW b \in Full(bs, k - 1), bs[b].key = e.key PROVE FALSE
        BY DEF Part
      <4>1. b \in 0..(c - 1) /\ b # k - 1 /\ bs[b] # Empty
        BY <2>1 DEF Full
      <4> QED
        BY <2>1, <2>5, <4>1 DEF Holds
    <3>5. Adds(part(k - 1), part(k), e)
      <4> DEFINE A == {bs[b].key : b \in Full(bs, k - 1)}
                 B == {bs[b].key : b \in Full(bs, k)}
      <4>1. B = A \cup {e.key}
        BY <3>2
      <4>2. /\ DOMAIN part(k - 1) = A /\ DOMAIN part(k) = B
            /\ \A key \in A : part(k - 1)[key] = map[key]
            /\ \A key \in B : part(k)[key] = map[key]
        BY DEF Part
      <4> HIDE DEF A, B, part, e
      <4> QED
        BY <3>3, <3>4, <4>1, <4>2 DEF Adds
    <3>6. d \in Nat \ {0}
      BY <3>3
    <3>7. Room(x, d)
      <4>1. Holds(x, d, part(k - 1))
        BY <2>2 DEF Good
      <4>2. Cardinality(DOMAIN part(k - 1)) <= Cardinality(DOMAIN map)
            /\ Cardinality(DOMAIN map) \in Nat /\ Cardinality(DOMAIN part(k - 1)) \in Nat
        <5>1. DOMAIN part(k - 1) \in SUBSET (DOMAIN map)
          BY <1>3, <2>1
        <5>2. IsFiniteSet(DOMAIN map)
          BY OneEach
        <5> HIDE DEF part
        <5> QED
          BY <5>1, <5>2, FS_Subset, FS_CardinalityType
      <4> HIDE DEF part
      <4>3. Cardinality(DOMAIN part(k - 1)) < d
        BY <3>6, <4>2
      <4> QED
        BY <3>6, <4>1, <4>3, RoomFor
    <3> HIDE DEF part, S, e
    <3>8. Good(insert_value_on_rehash(x, e), d, part(k))
      BY <2>2, <3>1, <3>5, <3>6, <3>7, OnRehash
    <3>9. step(k, x) = insert_value_on_rehash(x, e)
      BY <3>1 DEF e
    <3> QED
      BY <1>2, <2>1, <3>8, <3>9 DEF Good, Sound
  <2> QED
    BY <2>4, <2>5
<1> DEFINE Is(h) == h = [b \in 0..Count(bs) |->
                           IF b = 0 THEN Buckets(d)
                           ELSE IF empty(bs[b - 1]) THEN h[b - 1]
                           ELSE insert_value_on_rehash(h[b - 1], bs[b - 1])]
           f == CHOOSE h : Is(h)
<1>6. Moved(bs, d) = f[c]
  BY <1>1, Zenon DEF Moved
<1>7. \A h : Is(h) <=> h = [k \in 0..c |-> IF k = 0 THEN Buckets(d) ELSE step(k, h[k - 1])]
  BY <1>1, Zenon
<1>8. \A k \in 1..c : \A x \in S[k - 1] : F[k][x] = step(k, x)
  OBVIOUS
<1> HIDE DEF step, S, part, Is, f, F
<1>9. Within(c, S, Buckets(d), F)
  BY <1>4, <1>5, <1>8 DEF Within
<1>10. \E h : Is(h)
  <2>1. PICK g : Run(g, c, S, Buckets(d), F)
    BY <1>9, Iterated
  <2>2. /\ g = [k \in 0..c |-> g[k]] /\ g[0] = Buckets(d)
        /\ \A k \in 0..c : g[k] \in S[k]
        /\ \A k \in 1..c : g[k] = F[k][g[k - 1]]
    BY <2>1 DEF Run
  <2>3. \A k \in 0..c : g[k] = IF k = 0 THEN Buckets(d) ELSE step(k, g[k - 1])
    <3> SUFFICES ASSUME NEW k \in 0..c
                 PROVE  g[k] = IF k = 0 THEN Buckets(d) ELSE step(k, g[k - 1])
      OBVIOUS
    <3>1. k # 0 => k \in 1..c /\ k - 1 \in 0..c
      OBVIOUS
    <3> QED
      BY <1>8, <2>2, <3>1
  <2>4. g = [k \in 0..c |-> IF k = 0 THEN Buckets(d) ELSE step(k, g[k - 1])]
    BY <2>2, <2>3
  <2> QED
    BY <1>7, <2>4
<1>11. f = [k \in 0..c |-> IF k = 0 THEN Buckets(d) ELSE step(k, f[k - 1])]
  <2>1. Is(f)
    BY <1>10 DEF f
  <2> QED
    BY <1>7, <2>1
<1>12. f[0] = Buckets(d) /\ \A k \in 1..c : f[k] = step(k, f[k - 1])
  <2>1. 0 \in 0..c /\ \A k \in 1..c : k \in 0..c /\ k # 0
    OBVIOUS
  <2>2. \A k \in 0..c : f[k] = IF k = 0 THEN Buckets(d) ELSE step(k, f[k - 1])
    BY <1>11, Zenon
  <2> QED
    BY <2>1, <2>2, Zenon
<1>13. \A k \in 0..c : f[k] \in S[k]
  <2>1. \A k \in 1..c : f[k - 1] \in S[k - 1] => f[k] = F[k][f[k - 1]]
    BY <1>8, <1>12
  <2> QED
    BY <1>9, <1>12, <2>1, Followed
<1>14. Good(f[c], d, part(c))
  BY <1>2, <1>13
<1>15. DOMAIN part(c) = DOMAIN map /\ \A key \in DOMAIN map : part(c)[key] = map[key]
  <2>1. {bs[b].key : b \in Full(bs, c)} = DOMAIN map
    <3>1. \A b \in Full(bs, c) : bs[b].key \in DOMAIN map
      BY DEF Full, Holds
    <3>2. \A key \in DOMAIN map : \E b \in Full(bs, c) : bs[b].key = key
      BY DEF Full, Holds
    <3> QED
      BY <3>1, <3>2
  <2> QED
    BY <2>1 DEF part, Part
<1>16. Holds(f[c], d, map)
  BY <1>14, <1>15, HoldsSame DEF Good
<1> QED
  BY <1>6, <1>14, <1>16 DEF Good

-----------------------------------------------------------------------------
(* A map as a value: c buckets, all that map has, and more buckets than that.  *)
Tab(t) == t = Table(t.bs, t.nb, t.grow, t.shrink)

KeptAt(t, map, c) ==
  /\ c \in Nat /\ Tab(t) /\ Sound(t.bs, c) /\ Holds(t.bs, c, map)
  /\ t.nb = Cardinality(DOMAIN map) /\ (c # 0 => t.nb < c)

FineAt(t, map, c) == KeptAt(t, map, c) /\ Even(t.bs, c)

LEMMA KeptIs ==
  ASSUME NEW t, NEW map, NEW c, KeptAt(t, map, c)
  PROVE  /\ c \in Nat /\ t.bs \in [0..(c - 1) -> Slots] /\ DOMAIN t.bs = 0..(c - 1)
         /\ Count(t.bs) = c /\ t.nb \in Nat /\ IsFiniteSet(DOMAIN map)
         /\ (c = 0 => DOMAIN map = {} /\ t.nb = 0)
         /\ (c # 0 => c \in Nat \ {0} /\ Room(t.bs, c))
<1>1. c \in Nat /\ t.bs \in [0..(c - 1) -> Slots] /\ DOMAIN t.bs = 0..(c - 1)
  BY DEF KeptAt, Sound
<1>2. Count(t.bs) = c
  BY <1>1, CountIs
<1>3. IsFiniteSet(DOMAIN map) /\ t.nb \in Nat
  BY OneEach DEF KeptAt
<1>4. c = 0 => DOMAIN map = {} /\ t.nb = 0
  <2>1. c = 0 => DOMAIN map = {}
    BY DEF KeptAt, Holds
  <2>2. Cardinality({}) = 0
    BY FS_EmptySet
  <2> QED
    BY <2>1, <2>2 DEF KeptAt
<1>5. c # 0 => c \in Nat \ {0} /\ Room(t.bs, c)
  <2> SUFFICES ASSUME c # 0 PROVE c \in Nat \ {0} /\ Room(t.bs, c)
    OBVIOUS
  <2>1. c \in Nat \ {0} /\ Holds(t.bs, c, map) /\ Cardinality(DOMAIN map) < c
    BY <1>1 DEF KeptAt
  <2> QED
    BY <2>1, RoomFor
<1> QED
  BY <1>1, <1>2, <1>3, <1>4, <1>5

(* Looking up in it.                                                        *)
LEMMA Lookup ==
  ASSUME NEW t, NEW map, NEW c, FineAt(t, map, c), NEW key \in Nat, NEW p,
         p = find_impl(t.bs, key)
  PROVE  /\ (p.found <=> key \in DOMAIN map)
         /\ p.found => /\ c # 0 /\ p.b \in 0..(c - 1) /\ t.bs[p.b] # Empty
                       /\ t.bs[p.b].key = key /\ t.bs[p.b].value = map[key]
         /\ ~ p.found /\ c # 0 => Belongs(t.bs, c, key, p)
<1>1. KeptAt(t, map, c) /\ Sound(t.bs, c) /\ Even(t.bs, c) /\ Holds(t.bs, c, map)
  BY DEF FineAt, KeptAt
<1>2. /\ c \in Nat /\ t.bs \in [0..(c - 1) -> Slots] /\ DOMAIN t.bs = 0..(c - 1)
      /\ Count(t.bs) = c /\ (c = 0 => DOMAIN map = {})
      /\ (c # 0 => c \in Nat \ {0} /\ Room(t.bs, c))
  BY <1>1, KeptIs
<1>4. CASE c = 0
  <2>1. DOMAIN t.bs = {} /\ Count(t.bs) = 0
    BY <1>2, <1>4
  <2> DEFINE T == {k \in 0..Count(t.bs) : \/ k > At(t.bs, On(t.bs, key, k)).dist
                                         \/ At(t.bs, On(t.bs, key, k)).key = key}
  <2>2. \A b : At(t.bs, b) = Empty
    BY <2>1 DEF At
  <2>3. 0 \in T /\ T \subseteq Nat
    BY <2>1, <2>2, SlotTypes
  <2>4. Least(T) \in Nat
    <3> HIDE DEF T
    <3> QED
      BY <2>3, LeastIs
  <2>5. p.found = (Least(T) <= At(t.bs, On(t.bs, key, Least(T))).dist)
    BY DEF find_impl
  <2> HIDE DEF T
  <2>6. ~ (Least(T) <= At(t.bs, On(t.bs, key, Least(T))).dist)
    BY <2>2, <2>4, SlotTypes
  <2>7. ~ p.found
    BY <2>5, <2>6, Zenon
  <2> QED
    BY <1>2, <1>4, <2>7
<1>5. CASE c # 0 /\ key \in DOMAIN map
  <2>1. PICK b \in 0..(c - 1) : t.bs[b] # Empty /\ t.bs[b].key = key
    BY <1>1, <1>5 DEF Holds
  <2>2. \A d \in 0..(c - 1) : t.bs[d] # Empty /\ t.bs[d].key = t.bs[b].key => d = b
    BY <1>1, <2>1 DEF Holds
  <2>3. p.found /\ p.b = b
    <3>1. c \in Nat \ {0} /\ Room(t.bs, c)
      BY <1>2, <1>5
    <3> QED
      BY <1>1, <2>1, <2>2, <3>1, Found
  <2>4. t.bs[b].value = map[key]
    BY <1>1, <2>1 DEF Holds
  <2> QED
    BY <1>5, <2>1, <2>3, <2>4
<1>6. CASE c # 0 /\ key \notin DOMAIN map
  <2>1. \A d \in 0..(c - 1) : t.bs[d] # Empty => t.bs[d].key # key
    BY <1>1, <1>6 DEF Holds
  <2>2. ~ p.found /\ Belongs(t.bs, c, key, p)
    BY <1>2, <1>6, <2>1, NotFound
  <2> QED
    BY <1>6, <2>2
<1> QED
  BY <1>4, <1>5, <1>6

(* Putting in where it belongs.                                             *)
LEMMA PutWhereItBelongs ==
  ASSUME NEW c \in Nat \ {0}, NEW bs, NEW map, Good(bs, c, map), Room(bs, c),
         NEW key \in Keys \cap Nat, NEW value \in Values, NEW new, NEW p,
         Belongs(bs, c, key, p),
         Adds(map, new, [dist |-> p.dist, key |-> key, value |-> value])
  PROVE  Good(PutIn(bs, p.b, [dist |-> p.dist, key |-> key, value |-> value]), c, new)
<1> DEFINE e == [dist |-> p.dist, key |-> key, value |-> value]
           k == p.dist
           b == p.b
<1>1. k \in 0..(c - 1) /\ b = Fwd(c, key, k) /\ key \in Int
      /\ (k > 0 => k - 1 <= bs[Fwd(c, key, k - 1)].dist)
  BY DEF Belongs
<1>2. e \in Entries /\ e.dist = k /\ e.key = key
  BY <1>1 DEF Entries
<1> HIDE DEF e, k, b
<1>3. b \in 0..(c - 1) /\ Dst(c, key, b) = k
  BY <1>1, InTurn, DstFwd
<1>4. \A d \in 0..(c - 1) : bs[d].dist \in Int /\ bs[d].dist >= -1
  BY SlotTypes DEF Good, Sound
<1>5. k <= bs[Fwd(c, b, c - 1)].dist + 1
  <2>1. Fwd(c, b, c - 1) \in 0..(c - 1)
    BY <1>3, InTurn
  <2>2. CASE k = 0
    BY <1>4, <2>1, <2>2
  <2>3. CASE k > 0
    <3> DEFINE a == Fwd(c, key, k - 1)
    <3>1. k - 1 \in Int /\ c - 1 \in Int /\ c \in Int /\ k + (c - 1) = (k - 1) + c /\ k \in Int
      BY <1>1
    <3>2. a \in 0..(c - 1) /\ Fwd(c, a, c) = a
      BY <1>1, <3>1, InTurn, Round
    <3>3. Fwd(c, a, c) = Fwd(c, key, (k - 1) + c)
      BY <1>1, <3>1, FwdFwd
    <3>4. Fwd(c, b, c - 1) = Fwd(c, key, k + (c - 1))
      BY <1>1, <3>1, FwdFwd
    <3>5. Fwd(c, b, c - 1) = a
      BY <3>1, <3>2, <3>3, <3>4
    <3>6. k - 1 <= bs[a].dist /\ bs[a].dist \in Int
      BY <1>1, <1>4, <2>3, <3>2
    <3> HIDE DEF a
    <3> QED
      BY <1>1, <3>5, <3>6
  <2> QED
    BY <1>1, <2>2, <2>3
<1>6. Adds(map, new, e)
  BY DEF e, k
<1>7. Good(PutIn(bs, b, e), c, new)
  BY <1>2, <1>3, <1>5, <1>6, PutInGood
<1> QED
  BY <1>7 DEF e, k, b

-----------------------------------------------------------------------------
(* Load factors below 1 leave room: for values there are more buckets.        *)
LoadFactors ==
  /\ m_max_load_factor \in (Nat \ {0}) \X (Nat \ {0})
  /\ m_max_load_factor[1] * 20 <= m_max_load_factor[2] * 19
  /\ m_min_load_factor \in Nat \X (Nat \ {0})

LEMMA Divided ==
  ASSUME NEW a \in Int, NEW g \in Nat \ {0}, NEW k \in Int
  PROVE  /\ a \div g \in Int
         /\ g * k <= a => k <= a \div g
         /\ a < g * k => a \div g < k
<1> DEFINE h == a \div g
           r == a % g
<1>1. h \in Int /\ r \in 0..(g - 1) /\ a = g * h + r
  OBVIOUS
<1> HIDE DEF h, r
<1>2. ASSUME g * k <= a, h < k PROVE FALSE
  <2>1. h + 1 <= k
    BY <1>1, <1>2
  <2>2. PICK x \in Nat : k = h + 1 + x
    <3>1. k - (h + 1) \in Nat /\ k = h + 1 + (k - (h + 1))
      BY <1>1, <2>1
    <3> QED
      BY <3>1
  <2>3. g * k = g * h + g + g * x /\ g * x \in Nat /\ g * h \in Int
    BY <1>1, <2>2
  <2> QED
    BY <1>1, <1>2, <2>3
<1>3. ASSUME a < g * k, k <= h PROVE FALSE
  <2>1. PICK x \in Nat : h = k + x
    <3>1. h - k \in Nat /\ h = k + (h - k)
      BY <1>1, <1>3
    <3> QED
      BY <3>1
  <2>2. g * h = g * k + g * x /\ g * x \in Nat /\ g * k \in Int
    BY <2>1
  <2> QED
    BY <1>1, <1>3, <2>2
<1> QED
  BY <1>1, <1>2, <1>3 DEF h

LEMMA CeilMore ==
  ASSUME LoadFactors, NEW k \in Nat
  PROVE  /\ ceil(k, m_max_load_factor) \in Nat
         /\ k = 0 => ceil(k, m_max_load_factor) = 0
         /\ k # 0 => k < ceil(k, m_max_load_factor)
<1> DEFINE g == m_max_load_factor[1]
           h == m_max_load_factor[2]
           a == k * h + g - 1
           q == a \div g
<1>1. g \in Nat \ {0} /\ h \in Nat \ {0} /\ g * 20 <= h * 19
  BY DEF LoadFactors
<1>2. ceil(k, m_max_load_factor) = q
  BY DEF ceil
<1> HIDE DEF g, h
<1>3. k * h \in Nat /\ a \in Nat
  BY <1>1
<1>4. q \in Int /\ 0 <= q
  <2>1. g * 0 <= a
    BY <1>1, <1>3
  <2> HIDE DEF a
  <2> QED
    BY <1>1, <1>3, <2>1, Divided
<1>5. k = 0 => q = 0
  <2> SUFFICES ASSUME k = 0 PROVE q < 1
    BY <1>4
  <2>1. k * h = 0
    BY <1>1
  <2>2. a < g * 1
    BY <1>1, <2>1
  <2> HIDE DEF a
  <2> QED
    BY <1>1, <1>3, <2>2, Divided
<1>6. k # 0 => k < q
  <2> SUFFICES ASSUME k # 0 PROVE k + 1 <= q
    BY <1>4
  <2>1. PICK x \in Nat \ {0} : h = g + x
    <3>1. h > g
      BY <1>1
    <3>2. h - g \in Nat \ {0} /\ h = g + (h - g)
      BY <1>1, <3>1
    <3> QED
      BY <3>2
  <2>2. PICK y \in Nat : k = 1 + y
    <3>1. k - 1 \in Nat /\ k = 1 + (k - 1)
      OBVIOUS
    <3> QED
      BY <3>1
  <2>3. k * h = k * g + k * x /\ k * x = x + y * x /\ y * x \in Nat /\ k * g \in Nat
    BY <1>1, <2>1, <2>2
  <2>4. g * (k + 1) = k * g + g
    BY <1>1
  <2>5. g * (k + 1) <= a
    BY <1>1, <2>1, <2>3, <2>4
  <2> HIDE DEF a
  <2> QED
    BY <1>1, <1>3, <2>5, Divided
<1> QED
  BY <1>2, <1>4, <1>5, <1>6

LEMMA Threshold ==
  ASSUME LoadFactors, NEW c \in Nat
  PROVE  LET x == (c * m_max_load_factor[1]) \div m_max_load_factor[2]
         IN  x \in Nat /\ (c = 0 => x = 0) /\ (c # 0 => x < c)
<1> DEFINE g == m_max_load_factor[1]
           h == m_max_load_factor[2]
           a == c * g
           q == a \div h
<1>1. g \in Nat \ {0} /\ h \in Nat \ {0} /\ g * 20 <= h * 19
  BY DEF LoadFactors
<1> HIDE DEF g, h
<1>2. a \in Nat
  BY <1>1
<1>3. h * 0 <= a
  BY <1>1, <1>2
<1>4. c = 0 => a < h * 1
  <2>1. c = 0 => a = 0
    BY <1>1
  <2> HIDE DEF a
  <2> QED
    BY <1>1, <2>1
<1>5. c # 0 => a < h * c
  <2> SUFFICES ASSUME c # 0 PROVE a < h * c
    OBVIOUS
  <2>1. PICK x \in Nat \ {0} : h = g + x
    <3>1. h > g
      BY <1>1
    <3>2. h - g \in Nat \ {0} /\ h = g + (h - g)
      BY <1>1, <3>1
    <3> QED
      BY <3>2
  <2>2. PICK y \in Nat : c = 1 + y
    <3>1. c - 1 \in Nat /\ c = 1 + (c - 1)
      OBVIOUS
    <3> QED
      BY <3>1
  <2>3. h * c = c * g + c * x /\ c * x = x + y * x /\ y * x \in Nat /\ c * g \in Nat
    BY <1>1, <2>1, <2>2
  <2> QED
    BY <2>1, <2>3
<1> HIDE DEF a
<1>6. q \in Int /\ 0 <= q /\ (c = 0 => q < 1) /\ (c # 0 => q < c)
  BY <1>1, <1>2, <1>3, <1>4, <1>5, Divided
<1>7. q \in Nat /\ (c = 0 => q = 0) /\ (c # 0 => q < c)
  BY <1>6
<1> QED
  BY <1>7 DEF a, g, h

LEMMA RoundUp ==
  ASSUME NEW count \in Nat
  PROVE  /\ round_up_to_power_of_two(count) \in Nat
         /\ count <= round_up_to_power_of_two(count)
         /\ count = 0 => round_up_to_power_of_two(count) = 0
<1>1. CASE count = 0
  BY <1>1 DEF round_up_to_power_of_two
<1>2. CASE count # 0
  <2> DEFINE T == {k \in 0..count : Pow2[k] >= count}
  <2>1. (\A k \in Nat : Pow2[k] \in Nat) /\ Pow2[0] = 1 /\ \A k \in Nat : Pow2[k + 1] = 2 * Pow2[k]
    BY Pow2Laws
  <2>2. count \in T
    <3>1. count < Pow2[count] /\ Pow2[count] \in Nat
      BY <2>1, Pow2Grows
    <3> QED
      BY <3>1
  <2>3. PICK k \in T : \A y \in T : k <= y
    <3>1. T \subseteq Nat
      OBVIOUS
    <3> HIDE DEF T
    <3> QED
      BY <2>2, <3>1, LeastNatural
  <2>4. k \in 0..count /\ Pow2[k] >= count /\ Pow2[k] \in Nat
    BY <2>1, <2>3
  <2>5. Pow2[k] < 2 * count
    <3>1. CASE k = 0
      BY <1>2, <2>1, <3>1
    <3>2. CASE k # 0
      <4>1. k - 1 \in 0..count /\ k - 1 \notin T /\ k - 1 \in Nat /\ (k - 1) + 1 = k
        BY <2>3, <3>2
      <4>2. Pow2[k - 1] < count /\ Pow2[k - 1] \in Nat
        BY <2>1, <4>1
      <4>3. Pow2[k] = 2 * Pow2[k - 1]
        BY <2>1, <4>1
      <4> QED
        BY <4>2, <4>3
    <3> QED
      BY <3>1, <3>2
  <2> DEFINE R == {p \in {Pow2[x] : x \in 0..count} : p >= count /\ p < 2 * count}
             r == CHOOSE p \in {Pow2[x] : x \in 0..count} : p >= count /\ p < 2 * count
  <2>6. \E p \in {Pow2[x] : x \in 0..count} : p >= count /\ p < 2 * count
    BY <2>4, <2>5
  <2>7. r \in {Pow2[x] : x \in 0..count} /\ r >= count
    BY <2>6
  <2>8. r \in Nat
    <3> HIDE DEF r
    <3>1. PICK x \in 0..count : r = Pow2[x]
      BY <2>7
    <3> QED
      BY <2>1, <3>1
  <2>9. round_up_to_power_of_two(count) = r
    BY <1>2 DEF round_up_to_power_of_two
  <2> HIDE DEF r
  <2> QED
    BY <1>2, <2>7, <2>8, <2>9
<1> QED
  BY <1>1, <1>2

(* Into a new table, with a bucket for each value and one more at least.       *)
LEMMA RehashImpl ==
  ASSUME NEW t, NEW map, NEW c, KeptAt(t, map, c), NEW count \in Nat,
         count = 0 => DOMAIN map = {}, count # 0 => Cardinality(DOMAIN map) < count
  PROVE  \E d \in Nat : /\ FineAt(rehash_impl(t, count), map, d) /\ count <= d
                        /\ rehash_impl(t, count).nb = t.nb
<1> DEFINE d == round_up_to_power_of_two(count)
           u == rehash_impl(t, count)
<1>1. d \in Nat /\ count <= d /\ (count = 0 => d = 0)
  BY RoundUp
<1>2. u.bs = Moved(t.bs, d) /\ u.nb = t.nb /\ Tab(u)
  BY DEF rehash_impl, Table, Tab
<1> HIDE DEF d, u
<1>3. c \in Nat /\ t.bs \in [0..(c - 1) -> Slots] /\ Holds(t.bs, c, map)
      /\ t.nb = Cardinality(DOMAIN map) /\ t.nb \in Nat
  BY KeptIs DEF KeptAt
<1>4. d = 0 => DOMAIN map = {}
  BY <1>1
<1>5. d # 0 => Cardinality(DOMAIN map) < d
  BY <1>1, <1>3
<1>6. Good(Moved(t.bs, d), d, map)
  BY <1>1, <1>3, <1>4, <1>5, MovedGood
<1>7. FineAt(u, map, d)
  BY <1>1, <1>2, <1>3, <1>5, <1>6 DEF FineAt, KeptAt, Good
<1> QED
  BY <1>1, <1>2, <1>7 DEF u

LEMMA RehashFine ==
  ASSUME LoadFactors, NEW t, NEW map, NEW c, KeptAt(t, map, c), NEW count \in Nat
  PROVE  \E d \in Nat : /\ FineAt(rehash(t, count), map, d) /\ count <= d
                        /\ rehash(t, count).nb = t.nb
<1> DEFINE need == ceil(t.nb, m_max_load_factor)
           x == IF count > need THEN count ELSE need
<1>1. t.nb \in Nat /\ IsFiniteSet(DOMAIN map) /\ t.nb = Cardinality(DOMAIN map)
  BY KeptIs DEF KeptAt
<1>2. need \in Nat /\ (t.nb # 0 => t.nb < need)
  BY <1>1, CeilMore
<1>3. rehash(t, count) = rehash_impl(t, x)
  BY DEF rehash
<1> HIDE DEF need
<1>4. x \in Nat /\ count <= x /\ (t.nb # 0 => t.nb < x)
  BY <1>1, <1>2
<1> HIDE DEF x
<1>5. x = 0 => DOMAIN map = {}
  <2>1. x = 0 => Cardinality(DOMAIN map) = 0
    BY <1>1, <1>4
  <2> QED
    BY <1>1, <2>1, FS_EmptySet
<1>6. x # 0 => Cardinality(DOMAIN map) < x
  BY <1>1, <1>4
<1>7. PICK d \in Nat : /\ FineAt(rehash_impl(t, x), map, d) /\ x <= d
                       /\ rehash_impl(t, x).nb = t.nb
  BY <1>4, <1>5, <1>6, RehashImpl
<1>8. count <= d
  BY <1>4, <1>7
<1> QED
  BY <1>3, <1>7, <1>8

LEMMA ReserveFine ==
  ASSUME LoadFactors, NEW t, NEW map, NEW c, KeptAt(t, map, c), NEW count \in Nat
  PROVE  \E d \in Nat : /\ FineAt(reserve(t, count), map, d)
                        /\ (count # 0 => count < d) /\ reserve(t, count).nb = t.nb
<1> DEFINE x == ceil(count, m_max_load_factor)
<1>1. x \in Nat /\ (count # 0 => count < x)
  BY CeilMore
<1>2. reserve(t, count) = rehash(t, x)
  BY DEF reserve
<1> HIDE DEF x
<1>3. PICK d \in Nat : FineAt(rehash(t, x), map, d) /\ x <= d /\ rehash(t, x).nb = t.nb
  BY <1>1, RehashFine
<1> QED
  BY <1>1, <1>2, <1>3

(* Before a value is put in: with it there are still fewer than buckets.       *)
LEMMA ExtremeLoadFine ==
  ASSUME LoadFactors, NEW t, NEW map, NEW c, FineAt(t, map, c)
  PROVE  \E d \in Nat : /\ FineAt(rehash_on_extreme_load(t), map, d)
                        /\ t.nb + 1 < d /\ rehash_on_extreme_load(t).nb = t.nb
<1> DEFINE u == rehash_on_extreme_load(t)
<1>0. KeptAt(t, map, c)
  BY DEF FineAt
<1>1. c \in Nat /\ Count(t.bs) = c /\ t.nb \in Nat /\ t.nb = Cardinality(DOMAIN map)
      /\ (DOMAIN t.bs = {} <=> c = 0) /\ (c = 0 => DOMAIN map = {}) /\ (c # 0 => t.nb < c)
      /\ (c = 0 => t.nb = 0)
  BY <1>0, KeptIs, CountIs DEF KeptAt
<1>2. load_threshold(t) \in Nat /\ (c = 0 => load_threshold(t) = 0)
      /\ (c # 0 => load_threshold(t) < c)
  BY <1>1, Threshold DEF load_threshold
<1>3. CASE t.grow \/ t.nb >= load_threshold(t)
  <2> DEFINE x == next_bucket_count(t.bs)
  <2>1. x \in Nat /\ x # 0 /\ t.nb + 1 < x
    BY <1>1 DEF next_bucket_count
  <2>2. u = rehash_impl(t, x)
    BY <1>3 DEF rehash_on_extreme_load
  <2> HIDE DEF x, u
  <2>3. Cardinality(DOMAIN map) < x
    BY <1>1, <2>1
  <2>4. PICK d \in Nat : /\ FineAt(rehash_impl(t, x), map, d) /\ x <= d
                         /\ rehash_impl(t, x).nb = t.nb
    BY <1>0, <2>1, <2>3, RehashImpl
  <2>5. t.nb + 1 < d
    BY <1>1, <2>1, <2>4
  <2> QED
    BY <2>2, <2>4, <2>5 DEF u
<1>4. CASE ~ (t.grow \/ t.nb >= load_threshold(t))
  <2>1. c # 0 /\ t.nb + 1 < c
    BY <1>1, <1>2, <1>4
  <2>2. CASE t.shrink /\ m_min_load_factor[1] # 0 /\ below_min_load(t)
    <3>1. u = reserve(t, t.nb + 1)
      BY <1>4, <2>2 DEF rehash_on_extreme_load
    <3> HIDE DEF u
    <3>2. PICK k \in Nat : k = t.nb + 1
      BY <1>1
    <3>3. PICK d \in Nat : /\ FineAt(reserve(t, k), map, d) /\ (k # 0 => k < d)
                           /\ reserve(t, k).nb = t.nb
      BY <1>0, ReserveFine
    <3>4. t.nb + 1 < d
      BY <1>1, <3>2, <3>3
    <3> QED
      BY <3>1, <3>2, <3>3, <3>4 DEF u
  <2>3. CASE ~ (t.shrink /\ m_min_load_factor[1] # 0 /\ below_min_load(t))
    <3>1. u = [t EXCEPT !.shrink = FALSE]
      BY <1>4, <2>3 DEF rehash_on_extreme_load
    <3>2. t = Table(t.bs, t.nb, t.grow, t.shrink)
      BY <1>0 DEF KeptAt, Tab
    <3>3. u = Table(t.bs, t.nb, t.grow, FALSE)
      BY <3>1, <3>2 DEF Table
    <3>4. u.bs = t.bs /\ u.nb = t.nb /\ Tab(u)
      BY <3>3 DEF Table, Tab
    <3> HIDE DEF u
    <3>5. FineAt(u, map, c)
      BY <3>4 DEF FineAt, KeptAt
    <3> QED
      BY <1>1, <2>1, <3>4, <3>5 DEF u
  <2> QED
    BY <2>2, <2>3
<1> QED
  BY <1>3, <1>4

LEMMA PutNewIs ==
  ASSUME NEW map, NEW key, NEW value, key \notin DOMAIN map, NEW k
  PROVE  Adds(map, PutNew(map, key, value), [dist |-> k, key |-> key, value |-> value])
<1>1. PutNew(map, key, value) = [x \in DOMAIN map \cup {key} |-> IF x = key THEN value ELSE map[x]]
  BY DEF PutNew, Put
<1> QED
  BY <1>1 DEF Adds

LEMMA InsertFine ==
  ASSUME LoadFactors, NEW t, NEW map, NEW c, FineAt(t, map, c),
         NEW key \in Keys \cap Nat, NEW value \in Values
  PROVE  \E d \in Nat : FineAt(insert_impl(t, key, value), PutNew(map, key, value), d)
<1> DEFINE here == find_impl(t.bs, key)
           u == rehash_on_extreme_load(t)
           p == IF u.bs = t.bs THEN here ELSE Seek(u.bs, key)
           e == [dist |-> p.dist, key |-> key, value |-> value]
           new == PutNew(map, key, value)
<1>1. c \in Nat /\ Count(t.bs) = c /\ t.nb = Cardinality(DOMAIN map) /\ t.nb \in Nat
  BY KeptIs DEF FineAt, KeptAt
<1>2. (here.found <=> key \in DOMAIN map)
      /\ (~ here.found /\ c # 0 => Belongs(t.bs, c, key, here))
  <2> HIDE DEF here
  <2>1. here = find_impl(t.bs, key) /\ key \in Nat
    BY DEF here
  <2> QED
    BY <2>1, Lookup
<1>3. insert_impl(t, key, value) =
        IF here.found THEN t
        ELSE Table(PutIn(u.bs, p.b, e), u.nb + 1, u.grow \/ TooFar(u.bs, p.b, e), u.shrink)
  BY DEF insert_impl
<1>4. CASE here.found
  <2>1. new = map
    BY <1>2, <1>4 DEF PutNew
  <2>2. insert_impl(t, key, value) = t
    BY <1>3, <1>4
  <2> QED
    BY <1>1, <2>1, <2>2
<1>5. CASE ~ here.found
  <2>1. PICK d \in Nat : FineAt(u, map, d) /\ t.nb + 1 < d /\ u.nb = t.nb
    BY ExtremeLoadFine
  <2> HIDE DEF u
  <2>2. d \in Nat \ {0} /\ u.bs \in [0..(d - 1) -> Slots] /\ Room(u.bs, d) /\ Count(u.bs) = d
        /\ Good(u.bs, d, map)
    <3>1. d # 0
      BY <1>1, <2>1
    <3> QED
      BY <2>1, <3>1, KeptIs DEF FineAt, KeptAt, Good
  <2>3. Belongs(u.bs, d, key, p)
    <3>1. CASE u.bs = t.bs
      <4>1. c = d /\ c # 0
        BY <1>1, <2>2, <3>1
      <4>2. Belongs(t.bs, c, key, here)
        BY <1>2, <1>5, <4>1
      <4> HIDE DEF here
      <4> QED
        BY <3>1, <4>1, <4>2
    <3>2. CASE u.bs # t.bs
      <4>1. Belongs(u.bs, d, key, Seek(u.bs, key))
        BY <2>2, Sought
      <4> QED
        BY <3>2, <4>1
    <3> QED
      BY <3>1, <3>2
  <2> HIDE DEF p, here
  <2>4. Adds(map, new, e)
    BY <1>2, <1>5, PutNewIs
  <2>5. Good(PutIn(u.bs, p.b, e), d, new)
    BY <2>2, <2>3, <2>4, PutWhereItBelongs
  <2> DEFINE v == Table(PutIn(u.bs, p.b, e), u.nb + 1, u.grow \/ TooFar(u.bs, p.b, e), u.shrink)
  <2>6. v.bs = PutIn(u.bs, p.b, e) /\ v.nb = u.nb + 1 /\ Tab(v)
    BY DEF Table, Tab
  <2>7. Cardinality(DOMAIN new) = t.nb + 1
    <3>1. DOMAIN new = DOMAIN map \cup {key} /\ key \notin DOMAIN map
      BY <2>4 DEF Adds
    <3>2. IsFiniteSet(DOMAIN map)
      BY KeptIs DEF FineAt
    <3> HIDE DEF new, v, e
    <3>3. Cardinality(DOMAIN map \cup {key}) = Cardinality(DOMAIN map) + 1
      BY <3>1, <3>2, FS_AddElement
    <3> QED
      BY <1>1, <3>1, <3>3
  <2> HIDE DEF e, new, v
  <2>8. FineAt(v, new, d)
    BY <1>1, <2>1, <2>2, <2>5, <2>6, <2>7 DEF FineAt, KeptAt, Good
  <2>9. insert_impl(t, key, value) = v
    BY <1>3, <1>5 DEF v
  <2> QED
    BY <2>8, <2>9 DEF new
<1> QED
  BY <1>4, <1>5

(* A range, put in one pair after another: the first of each key stays.        *)
PutSome(map, pairs, k) ==
  [key \in DOMAIN map \cup {pairs[j][1] : j \in 1..k} |->
     IF key \in DOMAIN map THEN map[key]
     ELSE pairs[Least({j \in 1..k : pairs[j][1] = key})][2]]

PutAt(pairs, h, key) == {j \in 1..h : pairs[j][1] = key}

LEMMA FirstOf ==
  ASSUME NEW pairs, NEW k \in Nat \ {0}, NEW key
  PROVE  /\ PutAt(pairs, k - 1, key) # {} =>
              Least(PutAt(pairs, k, key)) = Least(PutAt(pairs, k - 1, key))
         /\ PutAt(pairs, k - 1, key) = {} /\ pairs[k][1] = key =>
              Least(PutAt(pairs, k, key)) = k
<1> DEFINE of(h) == PutAt(pairs, h, key)
<1>1. of(k) \subseteq Nat /\ of(k - 1) \subseteq Nat /\ of(k - 1) \subseteq of(k)
      /\ (\A j \in of(k) : j \in of(k - 1) \/ j = k) /\ (\A j \in of(k - 1) : j < k)
      /\ (pairs[k][1] = key => k \in of(k))
  BY DEF PutAt
<1> DEFINE A == of(k - 1)
           B == of(k)
<1> HIDE DEF A, B
<1>2. /\ A \subseteq Nat /\ B \subseteq Nat /\ A \subseteq B
      /\ (\A j \in B : j \in A \/ j = k) /\ (\A j \in A : j < k)
      /\ (pairs[k][1] = key => k \in B)
  BY <1>1 DEF A, B
<1>3. A # {} => Least(B) = Least(A)
  <2> SUFFICES ASSUME A # {} PROVE Least(B) = Least(A)
    OBVIOUS
  <2>1. Least(A) \in A /\ \A j \in A : Least(A) <= j
    BY <1>2, LeastIs
  <2>2. B # {}
    BY <1>2
  <2>3. Least(B) \in B /\ \A j \in B : Least(B) <= j
    BY <1>2, <2>2, LeastIs
  <2>4. Least(A) \in Nat /\ Least(B) \in Nat /\ Least(B) <= Least(A) /\ Least(A) < k
    BY <1>2, <2>1, <2>3
  <2>5. Least(B) \in A
    BY <1>2, <2>3, <2>4
  <2> QED
    BY <2>1, <2>4, <2>5
<1>4. A = {} /\ pairs[k][1] = key => Least(B) = k
  <2> SUFFICES ASSUME A = {}, pairs[k][1] = key PROVE Least(B) = k
    OBVIOUS
  <2>1. B # {} /\ k \in B
    BY <1>2
  <2>2. Least(B) \in B
    BY <1>2, <2>1, LeastIs
  <2> QED
    BY <1>2, <2>2
<1> QED
  BY <1>3, <1>4 DEF A, B

LEMMA PutOneMore ==
  ASSUME NEW map, NEW pairs, NEW k \in Nat \ {0}
  PROVE  PutSome(map, pairs, k) =
           PutNew(PutSome(map, pairs, k - 1), pairs[k][1], pairs[k][2])
<1> DEFINE of(h, key) == PutAt(pairs, h, key)
           A == {pairs[j][1] : j \in 1..(k - 1)}
           B == {pairs[j][1] : j \in 1..k}
           x == pairs[k][1]
           old == PutSome(map, pairs, k - 1)
           new == PutSome(map, pairs, k)
<1>1. B = A \cup {x}
  <2>1. \A j : j \in 1..k <=> j \in 1..(k - 1) \/ j = k
    OBVIOUS
  <2> QED
    BY <2>1
<1>2. \A key \in A : of(k - 1, key) # {}
  BY DEF PutAt
<1>3. \A key : key \notin A => of(k - 1, key) = {}
  BY DEF PutAt
<1>4. \A key \in A : Least(of(k, key)) = Least(of(k - 1, key))
  <2> SUFFICES ASSUME NEW key \in A PROVE Least(of(k, key)) = Least(of(k - 1, key))
    OBVIOUS
  <2>1. of(k - 1, key) # {}
    BY <1>2
  <2> HIDE DEF A
  <2> QED
    BY <2>1, FirstOf
<1>5. x \notin A => Least(of(k, x)) = k
  <2>1. x \notin A => of(k - 1, x) = {}
    BY <1>3
  <2>2. pairs[k][1] = x
    OBVIOUS
  <2> HIDE DEF A, x
  <2> QED
    BY <2>1, <2>2, FirstOf
<1>6. old = [key \in DOMAIN map \cup A |-> IF key \in DOMAIN map THEN map[key]
                                           ELSE pairs[Least(of(k - 1, key))][2]]
  BY Zenon DEF PutSome, PutAt
<1>7. new = [key \in DOMAIN map \cup B |-> IF key \in DOMAIN map THEN map[key]
                                           ELSE pairs[Least(of(k, key))][2]]
  BY Zenon DEF PutSome, PutAt
<1> DEFINE put == PutNew(old, x, pairs[k][2])
<1>8. put = IF x \in DOMAIN old THEN old
            ELSE [key \in DOMAIN old \cup {x} |-> IF key = x THEN pairs[k][2] ELSE old[key]]
  BY DEF PutNew, Put
<1> HIDE DEF of, A, B, x, old, new, put
<1>9. DOMAIN old = DOMAIN map \cup A /\ DOMAIN new = DOMAIN map \cup B
  BY <1>6, <1>7
<1>10. \A key \in DOMAIN map \cup A : new[key] = old[key]
  BY <1>1, <1>4, <1>6, <1>7
<1>11. CASE x \in DOMAIN old
  <2>1. DOMAIN new = DOMAIN old
    BY <1>1, <1>9, <1>11
  <2>2. new = old
    BY <1>6, <1>7, <1>9, <1>10, <2>1
  <2> QED
    BY <1>8, <1>11, <2>2 DEF new, put, old, x
<1>12. CASE x \notin DOMAIN old
  <2>1. DOMAIN new = DOMAIN old \cup {x}
    BY <1>1, <1>9
  <2>2. new[x] = pairs[k][2]
    <3>1. x \notin A /\ x \notin DOMAIN map /\ x \in B
      BY <1>1, <1>9, <1>12
    <3> QED
      BY <1>5, <1>7, <3>1
  <2>3. \A key \in DOMAIN old \cup {x} : new[key] = IF key = x THEN pairs[k][2] ELSE old[key]
    BY <1>9, <1>10, <2>2
  <2>4. new = [key \in DOMAIN old \cup {x} |-> IF key = x THEN pairs[k][2] ELSE old[key]]
    BY <1>7, <1>9, <2>1, <2>3
  <2> QED
    BY <1>8, <1>12, <2>4 DEF new, put, old, x
<1> QED
  BY <1>11, <1>12

LEMMA FineSame ==
  ASSUME NEW t, NEW map, NEW c, NEW same, DOMAIN same = DOMAIN map,
         \A key \in DOMAIN map : same[key] = map[key]
  PROVE  /\ KeptAt(t, map, c) => KeptAt(t, same, c)
         /\ FineAt(t, map, c) => FineAt(t, same, c)
<1>1. ASSUME KeptAt(t, map, c) PROVE KeptAt(t, same, c)
  <2>1. c \in Nat /\ Holds(t.bs, c, map)
    BY <1>1 DEF KeptAt
  <2>2. Holds(t.bs, c, same)
    BY <2>1, HoldsSame
  <2> QED
    BY <1>1, <2>2 DEF KeptAt
<1> QED
  BY <1>1 DEF FineAt

LEMMA InsertRangeFine ==
  ASSUME LoadFactors, NEW t, NEW map, NEW c, FineAt(t, map, c),
         NEW pairs \in Seq((Keys \cap Nat) \X Values)
  PROVE  \E d \in Nat : FineAt(insert_range(t, pairs), PutAllNew(map, pairs), d)
<1> DEFINE l == Len(pairs)
           free == load_threshold(t) - t.nb
           base == IF 0 <= free /\ free < l THEN reserve(t, t.nb + l) ELSE t
           step(k, x) == insert_impl(x, pairs[k][1], pairs[k][2])
           Is(h) == h = [k \in 0..l |-> IF k = 0 THEN base ELSE step(k, h[k - 1])]
           f == CHOOSE h : Is(h)
           some(k) == PutSome(map, pairs, k)
<1>1. l \in Nat /\ DOMAIN pairs = 1..l
      /\ \A k \in 1..l : pairs[k][1] \in Keys \cap Nat /\ pairs[k][2] \in Values
  <2>1. \A k \in 1..l : pairs[k] \in (Keys \cap Nat) \X Values
    OBVIOUS
  <2> QED
    BY <2>1
<1>2. insert_range(t, pairs) = f[l]
  BY Zenon DEF insert_range
<1>3. \E d \in Nat : FineAt(base, map, d)
  <2>1. c \in Nat /\ KeptAt(t, map, c) /\ t.nb + l \in Nat
    BY <1>1, KeptIs DEF FineAt
  <2>2. \E d \in Nat : FineAt(reserve(t, t.nb + l), map, d)
    BY <2>1, ReserveFine
  <2> QED
    BY <2>1, <2>2
<1>4. some(0) = [key \in DOMAIN map |-> map[key]]
  <2>1. {pairs[j][1] : j \in 1..0} = {}
    OBVIOUS
  <2> QED
    BY <2>1 DEF PutSome
<1>5. \A k \in 1..l : some(k) = PutNew(some(k - 1), pairs[k][1], pairs[k][2])
  BY <1>1, PutOneMore
<1>6. PutAllNew(map, pairs) = some(l)
  BY <1>1, Zenon DEF PutAllNew, PutSome
<1> HIDE DEF base, step, f, some, l
<1>7. \E h : Is(h)
  <2> DEFINE To(m, g) == g = [k \in 0..m |-> IF k = 0 THEN base ELSE step(k, g[k - 1])]
             T == {m \in 0..l : ~ \E g : To(m, g)}
  <2>1. SUFFICES ASSUME T # {} PROVE FALSE
    <3>1. \A h : To(l, h) => Is(h)
      OBVIOUS
    <3>2. T = {} => \E g : To(l, g)
      <4>1. l \in 0..l
        BY <1>1
      <4> HIDE DEF To
      <4> QED
        BY <4>1
    <3> HIDE DEF To, Is, T
    <3> QED
      BY <3>1, <3>2
  <2>2. PICK m \in T : \A y \in T : m <= y
    <3>1. T \subseteq Nat
      BY <1>1
    <3> HIDE DEF T
    <3> QED
      BY <2>1, <3>1, LeastNatural
  <2>3. m # 0
    <3>1. To(0, [k \in 0..0 |-> base])
      OBVIOUS
    <3> QED
      BY <3>1
  <2>4. m \in 1..l /\ m - 1 \in 0..l /\ m - 1 \notin T
    <3>1. m \in 0..l
      OBVIOUS
    <3> HIDE DEF T
    <3> QED
      BY <1>1, <2>2, <2>3, <3>1
  <2>5. PICK g : To(m - 1, g)
    <3> HIDE DEF To
    <3> QED
      BY <2>4
  <2> DEFINE u == [k \in 0..m |-> IF k = m THEN step(m, g[m - 1]) ELSE g[k]]
  <2>6. \A k \in 0..m : u[k] = IF k = 0 THEN base ELSE step(k, u[k - 1])
    <3> SUFFICES ASSUME NEW k \in 0..m PROVE u[k] = IF k = 0 THEN base ELSE step(k, u[k - 1])
      OBVIOUS
    <3>1. u[k] = IF k = m THEN step(m, g[m - 1]) ELSE g[k]
      OBVIOUS
    <3>2. k # 0 => u[k - 1] = g[k - 1]
      BY <2>4
    <3>3. k # m => g[k] = IF k = 0 THEN base ELSE step(k, g[k - 1])
      <4>1. k # m => k \in 0..(m - 1)
        BY <2>4
      <4> QED
        BY <2>5, <4>1
    <3> QED
      BY <2>3, <3>1, <3>2, <3>3
  <2>7. u = [k \in 0..m |-> u[k]]
    OBVIOUS
  <2> HIDE DEF u
  <2>8. To(m, u)
    BY <2>6, <2>7
  <2> QED
    BY <2>2, <2>8
<1>8. Is(f)
  BY <1>7 DEF f
<1>9. f[0] = base /\ \A k \in 1..l : f[k] = step(k, f[k - 1])
  <2>1. 0 \in 0..l /\ \A k \in 1..l : k \in 0..l /\ k # 0
    BY <1>1
  <2>2. \A k \in 0..l : f[k] = IF k = 0 THEN base ELSE step(k, f[k - 1])
    BY <1>8, Zenon
  <2> QED
    BY <2>1, <2>2, Zenon
<1>10. \A k \in 0..l : \E d \in Nat : FineAt(f[k], some(k), d)
  <2> DEFINE T == {k \in 0..l : ~ \E d \in Nat : FineAt(f[k], some(k), d)}
  <2>1. SUFFICES ASSUME T # {} PROVE FALSE
    OBVIOUS
  <2>2. PICK k \in T : \A y \in T : k <= y
    <3>1. T \subseteq Nat
      BY <1>1
    <3> HIDE DEF T
    <3> QED
      BY <2>1, <3>1, LeastNatural
  <2>3. k # 0
    <3>1. PICK d \in Nat : FineAt(base, map, d)
      BY <1>3
    <3>2. DOMAIN some(0) = DOMAIN map /\ \A key \in DOMAIN map : some(0)[key] = map[key]
      BY <1>4
    <3>3. FineAt(base, some(0), d)
      BY <3>1, <3>2, FineSame
    <3> QED
      BY <1>9, <3>3
  <2>4. k \in 1..l /\ k - 1 \in 0..l /\ k - 1 \notin T
    BY <1>1, <2>2, <2>3
  <2>5. PICK d \in Nat : FineAt(f[k - 1], some(k - 1), d)
    BY <2>4
  <2>6. pairs[k][1] \in Keys \cap Nat /\ pairs[k][2] \in Values
    BY <1>1, <2>4
  <2>7. \E q \in Nat : FineAt(insert_impl(f[k - 1], pairs[k][1], pairs[k][2]),
                              PutNew(some(k - 1), pairs[k][1], pairs[k][2]), q)
    BY <2>5, <2>6, InsertFine
  <2>8. f[k] = insert_impl(f[k - 1], pairs[k][1], pairs[k][2])
    BY <1>9, <2>4 DEF step
  <2> QED
    BY <1>5, <2>2, <2>4, <2>7, <2>8
<1> QED
  BY <1>1, <1>2, <1>6, <1>10

-----------------------------------------------------------------------------
LEMMA AssignFine ==
  ASSUME NEW t, NEW map, NEW c, FineAt(t, map, c), NEW b \in 0..(c - 1), t.bs[b] # Empty,
         NEW value \in Values
  PROVE  FineAt([t EXCEPT !.bs[b].value = value], Put(map, t.bs[b].key, value), c)
<1> DEFINE bs == t.bs
           e == bs[b]
           x == [e EXCEPT !.value = value]
           new == [bs EXCEPT ![b] = x]
           u == [t EXCEPT !.bs[b].value = value]
           put == Put(map, e.key, value)
<1>1. /\ c \in Nat /\ bs \in [0..(c - 1) -> Slots] /\ Tab(t) /\ Sound(bs, c) /\ Holds(bs, c, map)
      /\ Even(bs, c) /\ t.nb = Cardinality(DOMAIN map) /\ (c # 0 => t.nb < c)
  BY KeptIs DEF FineAt, KeptAt
<1>2. u.bs = new /\ u.nb = t.nb /\ Tab(u)
  <2>1. t = Table(t.bs, t.nb, t.grow, t.shrink)
    BY <1>1 DEF Tab
  <2>2. u = Table(new, t.nb, t.grow, t.shrink)
    BY <2>1 DEF Table
  <2> QED
    BY <2>2 DEF Table, Tab
<1>3. e \in Entries /\ x \in Entries /\ x.dist = e.dist /\ x.key = e.key /\ x.value = value
      /\ x # Empty
  <2>1. e \in Entries
    BY <1>1, SlotTypes
  <2>2. x \in Entries /\ x.dist = e.dist /\ x.key = e.key /\ x.value = value
    BY <2>1 DEF Entries
  <2> HIDE DEF e, x
  <2> QED
    BY <2>1, <2>2, SlotTypes
<1>4. new[b] = x /\ \A d \in 0..(c - 1) : d # b => new[d] = bs[d]
  BY <1>1
<1>5. DOMAIN put = DOMAIN map \cup {e.key} /\ put[e.key] = value
      /\ \A key \in DOMAIN map : key # e.key => put[key] = map[key]
  BY DEF Put
<1>6. e.key \in DOMAIN map /\ bs[b] = e /\ e # Empty
  BY <1>1 DEF Holds
<1>7. new \in [0..(c - 1) -> Slots]
  BY <1>1, <1>3, SlotTypes
<1> HIDE DEF e, x, new, u, put, bs
<1>8. \A d \in 0..(c - 1) : /\ new[d] # Empty <=> bs[d] # Empty
                           /\ new[d].dist = bs[d].dist /\ new[d].key = bs[d].key
  BY <1>3, <1>4, <1>6
<1>9. Sound(new, c)
  BY <1>1, <1>7, <1>8 DEF Sound
<1>10. Even(new, c)
  <2>1. \A d \in 0..(c - 1) : Fwd(c, d, 1) \in 0..(c - 1)
    BY <1>1, InTurn
  <2> QED
    BY <1>1, <1>8, <2>1 DEF Even
<1>11. Holds(new, c, put)
  <2>1. \A d \in 0..(c - 1) : new[d] # Empty =>
          new[d].key \in DOMAIN put /\ put[new[d].key] = new[d].value
    <3> SUFFICES ASSUME NEW d \in 0..(c - 1), new[d] # Empty
                 PROVE  new[d].key \in DOMAIN put /\ put[new[d].key] = new[d].value
      OBVIOUS
    <3>1. CASE d = b
      BY <1>3, <1>4, <1>5, <3>1
    <3>2. CASE d # b
      <4>1. bs[d] = new[d] /\ bs[d].key # e.key
        BY <1>1, <1>4, <1>6, <3>2 DEF Holds
      <4> QED
        BY <1>1, <1>5, <4>1 DEF Holds
    <3> QED
      BY <3>1, <3>2
  <2>2. DOMAIN put = DOMAIN map
    BY <1>5, <1>6
  <2>3. \A key \in DOMAIN put : \E d \in 0..(c - 1) : new[d] # Empty /\ new[d].key = key
    BY <1>1, <1>8, <2>2 DEF Holds
  <2>4. \A d, q \in 0..(c - 1) :
          new[d] # Empty /\ new[q] # Empty /\ new[d].key = new[q].key => d = q
    BY <1>1, <1>8 DEF Holds
  <2> QED
    BY <2>1, <2>3, <2>4 DEF Holds
<1>12. DOMAIN put = DOMAIN map
  BY <1>5, <1>6
<1>13. FineAt(u, put, c)
  BY <1>1, <1>2, <1>9, <1>10, <1>11, <1>12 DEF FineAt, KeptAt
<1> QED
  BY <1>13 DEF u, put, e, bs

LEMMA InsertOrAssignFine ==
  ASSUME LoadFactors, NEW t, NEW map, NEW c, FineAt(t, map, c),
         NEW key \in Keys \cap Nat, NEW value \in Values
  PROVE  \E d \in Nat : FineAt(insert_or_assign(t, key, value), Put(map, key, value), d)
<1>1. PICK p : p = find_impl(t.bs, key)
  OBVIOUS
<1>2. /\ (p.found <=> key \in DOMAIN map)
      /\ (p.found => c # 0 /\ p.b \in 0..(c - 1) /\ t.bs[p.b] # Empty /\ t.bs[p.b].key = key)
  BY <1>1, Lookup
<1>3. insert_or_assign(t, key, value) =
        IF p.found THEN [t EXCEPT !.bs[p.b].value = value] ELSE insert_impl(t, key, value)
  BY <1>1 DEF insert_or_assign
<1>4. CASE p.found
  <2>1. FineAt([t EXCEPT !.bs[p.b].value = value], Put(map, t.bs[p.b].key, value), c)
    BY <1>2, <1>4, AssignFine
  <2>2. c \in Nat
    BY DEF FineAt, KeptAt
  <2> QED
    BY <1>2, <1>3, <1>4, <2>1, <2>2
<1>5. CASE ~ p.found
  <2>1. PutNew(map, key, value) = Put(map, key, value)
    BY <1>2, <1>5 DEF PutNew
  <2>2. \E d \in Nat : FineAt(insert_impl(t, key, value), PutNew(map, key, value), d)
    BY InsertFine
  <2> QED
    BY <1>3, <1>5, <2>1, <2>2
<1> QED
  BY <1>4, <1>5

(* A table that got all its entries from another, but those with some keys.    *)
Comes(new, bs, c, src, K) ==
  /\ \A d \in 0..(c - 1) : new[d] # Empty =>
       /\ src[d] \in 0..(c - 1) /\ bs[src[d]] # Empty /\ new[d].key = bs[src[d]].key
       /\ new[d].value = bs[src[d]].value /\ new[d].key \notin K
  /\ \A d, q \in 0..(c - 1) :
       new[d] # Empty /\ new[q] # Empty /\ src[d] = src[q] => d = q
  /\ \A q \in 0..(c - 1) : bs[q] # Empty /\ bs[q].key \notin K =>
       \E d \in 0..(c - 1) : new[d] # Empty /\ src[d] = q

LEMMA Rearranged ==
  ASSUME NEW c \in Nat, NEW bs, NEW map, Holds(bs, c, map), NEW new, NEW src, NEW K,
         Comes(new, bs, c, src, K)
  PROVE  Holds(new, c, Without(map, K))
<1> DEFINE less == Without(map, K)
<1>1. DOMAIN less = DOMAIN map \ K /\ \A key \in DOMAIN map \ K : less[key] = map[key]
  BY DEF Without
<1> HIDE DEF less
<1>2. \A d \in 0..(c - 1) : new[d] # Empty =>
        new[d].key \in DOMAIN less /\ less[new[d].key] = new[d].value
  BY <1>1 DEF Comes, Holds
<1>3. \A key \in DOMAIN less : \E d \in 0..(c - 1) : new[d] # Empty /\ new[d].key = key
  <2> SUFFICES ASSUME NEW key \in DOMAIN less
               PROVE  \E d \in 0..(c - 1) : new[d] # Empty /\ new[d].key = key
    OBVIOUS
  <2>1. PICK q \in 0..(c - 1) : bs[q] # Empty /\ bs[q].key = key
    BY <1>1 DEF Holds
  <2>2. PICK d \in 0..(c - 1) : new[d] # Empty /\ src[d] = q
    BY <1>1, <2>1 DEF Comes
  <2> QED
    BY <2>1, <2>2 DEF Comes
<1>4. \A d, q \in 0..(c - 1) :
        new[d] # Empty /\ new[q] # Empty /\ new[d].key = new[q].key => d = q
  <2> SUFFICES ASSUME NEW d \in 0..(c - 1), NEW q \in 0..(c - 1), new[d] # Empty,
                      new[q] # Empty, new[d].key = new[q].key
               PROVE  d = q
    OBVIOUS
  <2>1. src[d] = src[q]
    BY DEF Comes, Holds
  <2> QED
    BY <2>1 DEF Comes
<1> QED
  BY <1>2, <1>3, <1>4 DEF Holds, less

(* What erasing at bucket b does, in terms of the buckets behind it.          *)
Shifts(c, bs, b, end, new) ==
  /\ end \in 1..(c - 1)
  /\ \A k \in 1..(end - 1) : bs[Fwd(c, b, k)].dist >= 1
  /\ bs[Fwd(c, b, end)].dist <= 0
  /\ \A k \in 0..(end - 2) : new[Fwd(c, b, k)] = [bs[Fwd(c, b, k + 1)] EXCEPT !.dist = @ - 1]
  /\ new[Fwd(c, b, end - 1)] = Empty
  /\ \A k \in end..(c - 1) : new[Fwd(c, b, k)] = bs[Fwd(c, b, k)]
  /\ new = [d \in 0..(c - 1) |-> new[d]]

LEMMA EraseShifts ==
  ASSUME NEW c \in Nat \ {0}, NEW t, Tab(t), t.bs \in [0..(c - 1) -> Slots], Room(t.bs, c),
         NEW b \in 0..(c - 1), t.bs[b] # Empty
  PROVE  \E end, new : /\ Shifts(c, t.bs, b, end, new)
                       /\ erase_from_bucket(t, b) = Table(new, t.nb - 1, t.grow, TRUE)
<1> DEFINE bs == [t.bs EXCEPT ![b] = Empty]
           T == {k \in 1..Count(bs) : bs[On(bs, b, k)].dist <= 0}
           end == Least(T)
           at(d) == LET k == Behind(bs, b, d)
                    IN  IF k < end - 1 THEN [bs[next_bucket(bs, d)] EXCEPT !.dist = @ - 1]
                        ELSE IF k = end - 1 THEN Empty ELSE bs[d]
           new == [d \in DOMAIN bs |-> at(d)]
<1>1. /\ bs[b] = Empty /\ DOMAIN bs = 0..(c - 1) /\ bs \in [0..(c - 1) -> Slots]
      /\ \A d \in 0..(c - 1) : d # b => bs[d] = t.bs[d]
  BY SlotTypes
<1>2. erase_from_bucket(t, b) = Table(new, t.nb - 1, t.grow, TRUE)
  <2>1. t = Table(t.bs, t.nb, t.grow, t.shrink)
    BY DEF Tab
  <2>2. erase_from_bucket(t, b) = [t EXCEPT !.bs = new, !.nb = @ - 1, !.shrink = TRUE]
    BY Zenon DEF erase_from_bucket
  <2> HIDE DEF new
  <2> QED
    BY <2>1, <2>2 DEF Table
<1> HIDE DEF bs
<1>3. /\ \A d, k : On(bs, d, k) = Fwd(c, d, k)
      /\ \A d, q : Behind(bs, d, q) = Dst(c, d, q)
      /\ \A d : next_bucket(bs, d) = Fwd(c, d, 1)
      /\ Count(bs) = c
  BY <1>1, Steps
<1>4. T = {k \in 1..c : bs[Fwd(c, b, k)].dist <= 0}
  BY <1>3
<1>5. new = [d \in 0..(c - 1) |->
               IF Dst(c, b, d) < end - 1 THEN [bs[Fwd(c, d, 1)] EXCEPT !.dist = @ - 1]
               ELSE IF Dst(c, b, d) = end - 1 THEN Empty ELSE bs[d]]
  <2> HIDE DEF T, end
  <2>1. \A d : at(d) = IF Dst(c, b, d) < end - 1 THEN [bs[Fwd(c, d, 1)] EXCEPT !.dist = @ - 1]
                       ELSE IF Dst(c, b, d) = end - 1 THEN Empty ELSE bs[d]
    BY <1>3, Zenon
  <2> HIDE DEF at
  <2> QED
    BY <1>1, <2>1, Zenon
<1> HIDE DEF T, new
<1>6. PICK q \in 0..(c - 1) : t.bs[q] = Empty
  BY DEF Room
<1> DEFINE h == Dst(c, b, q)
<1>7. h \in 1..(c - 1) /\ Fwd(c, b, h) = q /\ q # b
  <2>1. h \in 0..(c - 1) /\ Fwd(c, b, h) = q
    BY InTurn, FwdDst
  <2>2. h # 0
    BY <1>6, <2>1, Round
  <2> QED
    BY <1>6, <2>1, <2>2
<1> HIDE DEF h
<1>8. h \in T /\ T \subseteq Nat
  <2>1. bs[Fwd(c, b, h)].dist <= 0 /\ h \in 1..c
    BY <1>1, <1>6, <1>7, SlotTypes
  <2> QED
    BY <1>4, <2>1
<1>9. end \in T /\ \A k \in T : end <= k
  BY <1>8, LeastIs
<1> HIDE DEF end
<1>10. end \in 1..(c - 1)
  BY <1>4, <1>7, <1>8, <1>9
<1>11. \A k \in 1..(c - 1) : Fwd(c, b, k) \in 0..(c - 1) /\ Fwd(c, b, k) # b
  <2> SUFFICES ASSUME NEW k \in 1..(c - 1) PROVE Fwd(c, b, k) \in 0..(c - 1) /\ Fwd(c, b, k) # b
    OBVIOUS
  <2>1. Fwd(c, b, k) \in 0..(c - 1) /\ Dst(c, b, Fwd(c, b, k)) = k
    <3>1. k \in 0..(c - 1)
      OBVIOUS
    <3> QED
      BY <3>1, InTurn, DstFwd
  <2>2. Dst(c, b, b) = 0 /\ k # 0
    BY Round
  <2> QED
    BY <2>1, <2>2
<1>12. \A k \in 1..(c - 1) : bs[Fwd(c, b, k)] = t.bs[Fwd(c, b, k)]
  BY <1>1, <1>11
<1>13. \A k \in 1..(end - 1) : t.bs[Fwd(c, b, k)].dist >= 1
  <2> SUFFICES ASSUME NEW k \in 1..(end - 1) PROVE t.bs[Fwd(c, b, k)].dist >= 1
    OBVIOUS
  <2>1. k \in 1..(c - 1) /\ k \in 1..c /\ k < end
    BY <1>10
  <2>2. k \notin T
    BY <1>9, <1>10, <2>1
  <2>3. ~ (bs[Fwd(c, b, k)].dist <= 0)
    BY <1>4, <2>1, <2>2
  <2>4. bs[Fwd(c, b, k)].dist \in Int
    BY <1>1, <1>11, <2>1, SlotTypes
  <2> QED
    BY <1>12, <2>1, <2>3, <2>4
<1>14. t.bs[Fwd(c, b, end)].dist <= 0
  BY <1>4, <1>9, <1>10, <1>12
<1>15. ASSUME NEW k \in 0..(c - 1)
       PROVE  new[Fwd(c, b, k)] =
                IF k < end - 1 THEN [bs[Fwd(c, b, k + 1)] EXCEPT !.dist = @ - 1]
                ELSE IF k = end - 1 THEN Empty ELSE bs[Fwd(c, b, k)]
  <2> DEFINE d == Fwd(c, b, k)
  <2>1. d \in 0..(c - 1) /\ Dst(c, b, d) = k /\ Fwd(c, d, 1) = Fwd(c, b, k + 1)
    BY InTurn, DstFwd, FwdFwd
  <2> HIDE DEF d
  <2>2. new[d] = IF k < end - 1 THEN [bs[Fwd(c, b, k + 1)] EXCEPT !.dist = @ - 1]
                 ELSE IF k = end - 1 THEN Empty ELSE bs[d]
    BY <1>5, <2>1
  <2> QED
    BY <2>2 DEF d
<1>16. \A k \in 0..(end - 2) : new[Fwd(c, b, k)] = [t.bs[Fwd(c, b, k + 1)] EXCEPT !.dist = @ - 1]
  <2> SUFFICES ASSUME NEW k \in 0..(end - 2)
               PROVE  new[Fwd(c, b, k)] = [t.bs[Fwd(c, b, k + 1)] EXCEPT !.dist = @ - 1]
    OBVIOUS
  <2>1. k \in 0..(c - 1) /\ k < end - 1 /\ k + 1 \in 1..(c - 1)
    BY <1>10
  <2> QED
    BY <1>12, <1>15, <2>1
<1>17. new[Fwd(c, b, end - 1)] = Empty
  <2>1. end - 1 \in 0..(c - 1) /\ ~ (end - 1 < end - 1)
    BY <1>10
  <2> QED
    BY <1>15, <2>1
<1>18. \A k \in end..(c - 1) : new[Fwd(c, b, k)] = t.bs[Fwd(c, b, k)]
  <2> SUFFICES ASSUME NEW k \in end..(c - 1) PROVE new[Fwd(c, b, k)] = t.bs[Fwd(c, b, k)]
    OBVIOUS
  <2>1. k \in 0..(c - 1) /\ ~ (k < end - 1) /\ k # end - 1 /\ k \in 1..(c - 1)
    BY <1>10
  <2> QED
    BY <1>12, <1>15, <2>1
<1>19. new = [d \in 0..(c - 1) |-> new[d]]
  BY <1>5
<1>20. Shifts(c, t.bs, b, end, new)
  BY <1>10, <1>13, <1>14, <1>16, <1>17, <1>18, <1>19 DEF Shifts
<1> QED
  BY <1>2, <1>20

(* The bucket an entry is in now, in terms of the one it came from.           *)
LEMMA ShiftIs ==
  ASSUME NEW c \in Nat \ {0}, NEW bs, Sound(bs, c), NEW b \in 0..(c - 1),
         NEW end, NEW new, Shifts(c, bs, b, end, new), NEW k \in 0..(end - 2)
  PROVE  LET e == bs[Fwd(c, b, k + 1)]
             x == new[Fwd(c, b, k)]
         IN  /\ e \in Entries /\ x \in Entries /\ e.dist >= 1 /\ x.dist = e.dist - 1
             /\ x.key = e.key /\ x.value = e.value /\ x.dist = Dst(c, x.key, Fwd(c, b, k))
<1> DEFINE d == Fwd(c, b, k)
           q == Fwd(c, b, k + 1)
           e == bs[q]
           x == new[d]
<1>1. end \in 1..(c - 1) /\ k + 1 \in 1..(end - 1) /\ k \in Int /\ k + 1 \in Int
  BY DEF Shifts
<1>2. d \in 0..(c - 1) /\ q \in 0..(c - 1) /\ Fwd(c, d, 1) = q
  BY <1>1, InTurn, FwdFwd
<1>3. e.dist >= 1 /\ x = [e EXCEPT !.dist = @ - 1]
  BY <1>1 DEF Shifts
<1> HIDE DEF d, q, x
<1>4. e \in Slots /\ e # Empty
  <2>1. e \in Slots
    BY <1>2 DEF Sound
  <2> HIDE DEF e
  <2> QED
    BY <1>3, <2>1, SlotTypes
<1>5. e.dist = Dst(c, e.key, q)
  BY <1>2, <1>4 DEF Sound
<1> HIDE DEF e
<1>6. e \in Entries /\ e.dist \in Nat /\ e.key \in Nat
  BY <1>4, SlotTypes
<1>7. x \in Entries /\ x.dist = e.dist - 1 /\ x.key = e.key /\ x.value = e.value
  BY <1>3, <1>6 DEF Entries
<1>8. Dst(c, e.key, q) = IF Dst(c, e.key, d) = c - 1 THEN 0 ELSE Dst(c, e.key, d) + 1
  BY <1>2, <1>6, OneOn
<1>9. Dst(c, e.key, d) \in 0..(c - 1)
  BY <1>2, <1>6, InTurn
<1>10. x.dist = Dst(c, x.key, d)
  BY <1>3, <1>5, <1>6, <1>7, <1>8, <1>9
<1> QED
  BY <1>3, <1>6, <1>7, <1>10 DEF d, q, e, x

(* Even, bucket by bucket from b on around.                                  *)
LEMMA EvenAround ==
  ASSUME NEW c \in Nat \ {0}, NEW bs, NEW b \in 0..(c - 1)
  PROVE  Even(bs, c) <=> /\ \A k \in 1..(c - 1) :
                              bs[Fwd(c, b, k)].dist <= bs[Fwd(c, b, k - 1)].dist + 1
                         /\ bs[Fwd(c, b, 0)].dist <= bs[Fwd(c, b, c - 1)].dist + 1
<1>1. \A k \in Int : Fwd(c, b, k - 1) \in 0..(c - 1) /\ Fwd(c, Fwd(c, b, k - 1), 1) = Fwd(c, b, k)
  <2> SUFFICES ASSUME NEW k \in Int
               PROVE  /\ Fwd(c, b, k - 1) \in 0..(c - 1)
                      /\ Fwd(c, Fwd(c, b, k - 1), 1) = Fwd(c, b, k)
    OBVIOUS
  <2>1. k - 1 \in Int /\ (k - 1) + 1 = k
    OBVIOUS
  <2>2. Fwd(c, Fwd(c, b, k - 1), 1) = Fwd(c, b, (k - 1) + 1)
    BY <2>1, FwdFwd
  <2> QED
    BY <2>1, <2>2, InTurn
<1>2. Fwd(c, b, c) = Fwd(c, b, 0)
  BY Round
<1>3. ASSUME Even(bs, c)
      PROVE  /\ \A k \in 1..(c - 1) :
                  bs[Fwd(c, b, k)].dist <= bs[Fwd(c, b, k - 1)].dist + 1
             /\ bs[Fwd(c, b, 0)].dist <= bs[Fwd(c, b, c - 1)].dist + 1
  <2>1. \A k \in Int : bs[Fwd(c, b, k)].dist <= bs[Fwd(c, b, k - 1)].dist + 1
    <3> SUFFICES ASSUME NEW k \in Int
                 PROVE  bs[Fwd(c, b, k)].dist <= bs[Fwd(c, b, k - 1)].dist + 1
      OBVIOUS
    <3>1. Fwd(c, b, k - 1) \in 0..(c - 1) /\ Fwd(c, Fwd(c, b, k - 1), 1) = Fwd(c, b, k)
      BY <1>1
    <3> QED
      BY <1>3, <3>1, Zenon DEF Even
  <2>2. c \in Int /\ \A k \in 1..(c - 1) : k \in Int
    OBVIOUS
  <2> QED
    BY <1>2, <2>1, <2>2
<1>4. ASSUME \A k \in 1..(c - 1) : bs[Fwd(c, b, k)].dist <= bs[Fwd(c, b, k - 1)].dist + 1,
             bs[Fwd(c, b, 0)].dist <= bs[Fwd(c, b, c - 1)].dist + 1
      PROVE  Even(bs, c)
  <2> SUFFICES ASSUME NEW d \in 0..(c - 1)
               PROVE  bs[Fwd(c, d, 1)].dist <= bs[d].dist + 1
    BY DEF Even
  <2>1. PICK k \in 0..(c - 1) : Fwd(c, b, k) = d
    <3>1. Dst(c, b, d) \in 0..(c - 1) /\ Fwd(c, b, Dst(c, b, d)) = d
      BY InTurn, FwdDst
    <3> QED
      BY <3>1
  <2>2. PICK h \in 1..c : h = k + 1
    OBVIOUS
  <2>3. h \in Int /\ h - 1 = k
    BY <2>2
  <2>4. Fwd(c, d, 1) = Fwd(c, b, h) /\ Fwd(c, b, h - 1) = d
    BY <1>1, <2>1, <2>3
  <2>5. CASE h = c
    <3>1. c - 1 = h - 1
      BY <2>5
    <3> QED
      BY <1>2, <1>4, <2>4, <2>5
  <2>6. CASE h # c
    <3>1. h \in 1..(c - 1)
      BY <2>6
    <3>2. bs[Fwd(c, b, h)].dist <= bs[Fwd(c, b, h - 1)].dist + 1
      BY <1>4, <3>1
    <3> QED
      BY <2>4, <3>2
  <2> QED
    BY <2>5, <2>6
<1> QED
  BY <1>3, <1>4

LEMMA ShiftsSound ==
  ASSUME NEW c \in Nat \ {0}, NEW bs, Sound(bs, c), Even(bs, c), NEW b \in 0..(c - 1),
         NEW end, NEW new, Shifts(c, bs, b, end, new)
  PROVE  Sound(new, c) /\ Even(new, c)
<1> DEFINE P == [k \in 0..(c - 1) |-> bs[Fwd(c, b, k)]]
           N == [k \in 0..(c - 1) |-> new[Fwd(c, b, k)]]
<1>1. \A k \in 0..(c - 1) : P[k] = bs[Fwd(c, b, k)] /\ N[k] = new[Fwd(c, b, k)]
  OBVIOUS
<1> HIDE DEF P, N
<1>2. end \in 1..(c - 1) /\ new = [d \in 0..(c - 1) |-> new[d]]
  BY DEF Shifts
<1>3. \A k \in 0..(c - 1) : Fwd(c, b, k) \in 0..(c - 1)
  BY InTurn
<1>4. \A k \in 0..(c - 1) : P[k] \in Slots /\ P[k].dist \in Int /\ P[k].dist >= -1
  BY <1>1, <1>3, SlotTypes DEF Sound
<1>5. \A k \in 0..(end - 2) : /\ N[k] \in Entries /\ N[k].dist = P[k + 1].dist - 1
                              /\ N[k].dist = Dst(c, N[k].key, Fwd(c, b, k))
  <2> SUFFICES ASSUME NEW k \in 0..(end - 2)
               PROVE  /\ N[k] \in Entries /\ N[k].dist = P[k + 1].dist - 1
                      /\ N[k].dist = Dst(c, N[k].key, Fwd(c, b, k))
    OBVIOUS
  <2>1. k \in 0..(c - 1) /\ k + 1 \in 0..(c - 1)
    BY <1>2
  <2>2. /\ new[Fwd(c, b, k)] \in Entries
        /\ new[Fwd(c, b, k)].dist = bs[Fwd(c, b, k + 1)].dist - 1
        /\ new[Fwd(c, b, k)].dist = Dst(c, new[Fwd(c, b, k)].key, Fwd(c, b, k))
    BY ShiftIs
  <2> QED
    BY <1>1, <2>1, <2>2
<1>6. N[end - 1] = Empty /\ \A k \in end..(c - 1) : N[k] = P[k]
  <2>1. end - 1 \in 0..(c - 1) /\ \A k \in end..(c - 1) : k \in 0..(c - 1)
    BY <1>2
  <2> QED
    BY <1>1, <2>1 DEF Shifts
<1>7. P[end].dist <= 0
  <2>1. end \in 0..(c - 1)
    BY <1>2
  <2> QED
    BY <1>1, <2>1 DEF Shifts
<1>8. \A k \in 0..(c - 1) : k \in 0..(end - 2) \/ k = end - 1 \/ k \in end..(c - 1)
  BY <1>2
<1>9. \A k \in 0..(c - 1) : N[k] \in Slots /\ N[k].dist \in Int /\ N[k].dist >= -1
  <2>1. \A k \in 0..(c - 1) : N[k] \in Slots
    BY <1>4, <1>5, <1>6, <1>8, SlotTypes
  <2> QED
    BY <2>1, SlotTypes
<1>10. ASSUME NEW d \in 0..(c - 1)
       PROVE  new[d] \in Slots /\ (new[d] # Empty => new[d].dist = Dst(c, new[d].key, d))
  <2>1. PICK k \in 0..(c - 1) : Fwd(c, b, k) = d
    <3>1. Dst(c, b, d) \in 0..(c - 1) /\ Fwd(c, b, Dst(c, b, d)) = d
      BY InTurn, FwdDst
    <3> QED
      BY <3>1
  <2>2. new[d] = N[k] /\ bs[d] = P[k]
    BY <1>1, <2>1
  <2>3. CASE k \in 0..(end - 2)
    BY <1>5, <1>9, <2>1, <2>2, <2>3
  <2>4. CASE k = end - 1
    BY <1>6, <1>9, <2>2, <2>4
  <2>5. CASE k \in end..(c - 1)
    BY <1>6, <1>9, <2>2, <2>5 DEF Sound
  <2> QED
    BY <1>8, <2>3, <2>4, <2>5
<1>11. Sound(new, c)
  BY <1>2, <1>10 DEF Sound
<1>12. /\ \A k \in 1..(c - 1) : P[k].dist <= P[k - 1].dist + 1
       /\ P[0].dist <= P[c - 1].dist + 1
  <2>1. /\ \A k \in 1..(c - 1) : bs[Fwd(c, b, k)].dist <= bs[Fwd(c, b, k - 1)].dist + 1
        /\ bs[Fwd(c, b, 0)].dist <= bs[Fwd(c, b, c - 1)].dist + 1
    BY EvenAround
  <2>2. 0 \in 0..(c - 1) /\ c - 1 \in 0..(c - 1)
        /\ \A k \in 1..(c - 1) : k \in 0..(c - 1) /\ k - 1 \in 0..(c - 1)
    OBVIOUS
  <2> QED
    BY <1>1, <2>1, <2>2
<1>13. \A k \in 1..(c - 1) : N[k].dist <= N[k - 1].dist + 1
  <2> SUFFICES ASSUME NEW k \in 1..(c - 1) PROVE N[k].dist <= N[k - 1].dist + 1
    OBVIOUS
  <2>0. k \in 0..(c - 1) /\ k - 1 \in 0..(c - 1)
    OBVIOUS
  <2>1. CASE k \in 0..(end - 2)
    <3>1. k - 1 \in 0..(end - 2) /\ (k - 1) + 1 = k /\ k + 1 \in 1..(c - 1) /\ (k + 1) - 1 = k
          /\ k + 1 \in 0..(c - 1)
      BY <1>2, <2>1
    <3>2. N[k].dist = P[k + 1].dist - 1 /\ N[k - 1].dist = P[k].dist - 1
      BY <1>5, <2>1, <3>1
    <3>3. P[k + 1].dist <= P[k].dist + 1
      BY <1>12, <3>1
    <3> QED
      BY <1>4, <2>0, <3>1, <3>2, <3>3
  <2>2. CASE k = end - 1
    BY <1>6, <1>9, <2>0, <2>2, SlotTypes
  <2>3. CASE k = end
    <3>1. N[k].dist <= 0
      BY <1>2, <1>6, <1>7, <2>3
    <3>2. N[k - 1].dist = -1
      BY <1>6, <2>3, SlotTypes
    <3> QED
      BY <1>9, <2>0, <3>1, <3>2
  <2>4. CASE k > end
    <3>1. k \in end..(c - 1) /\ k - 1 \in end..(c - 1)
      BY <1>2, <2>4
    <3> QED
      BY <1>6, <1>12, <3>1
  <2> QED
    BY <1>2, <2>1, <2>2, <2>3, <2>4
<1>14. N[0].dist <= N[c - 1].dist + 1
  <2>1. c - 1 \in end..(c - 1) /\ 0 \in 0..(c - 1) /\ c - 1 \in 0..(c - 1) /\ 1 \in 1..(c - 1)
        /\ 1 \in 0..(c - 1)
    BY <1>2
  <2>2. N[c - 1] = P[c - 1]
    BY <1>6, <2>1
  <2>3. CASE end = 1
    BY <1>4, <1>6, <2>1, <2>2, <2>3, SlotTypes
  <2>4. CASE end # 1
    <3>1. 0 \in 0..(end - 2) /\ 0 + 1 = 1 /\ 1 - 1 = 0
      BY <1>2, <2>4
    <3>2. N[0].dist = P[1].dist - 1
      BY <1>5, <3>1
    <3>3. P[1].dist <= P[0].dist + 1
      BY <1>12, <2>1, <3>1
    <3> QED
      BY <1>4, <1>12, <2>1, <2>2, <3>2, <3>3
  <2> QED
    BY <2>3, <2>4
<1>15. Even(new, c)
  <2>1. /\ \A k \in 1..(c - 1) : new[Fwd(c, b, k)].dist <= new[Fwd(c, b, k - 1)].dist + 1
        /\ new[Fwd(c, b, 0)].dist <= new[Fwd(c, b, c - 1)].dist + 1
    <3>1. 0 \in 0..(c - 1) /\ c - 1 \in 0..(c - 1)
          /\ \A k \in 1..(c - 1) : k \in 0..(c - 1) /\ k - 1 \in 0..(c - 1)
      OBVIOUS
    <3> QED
      BY <1>1, <1>13, <1>14, <3>1
  <2> QED
    BY <2>1, EvenAround
<1> QED
  BY <1>11, <1>15

LEMMA ShiftsHolds ==
  ASSUME NEW c \in Nat \ {0}, NEW bs, Sound(bs, c), NEW map, Holds(bs, c, map),
         NEW b \in 0..(c - 1), bs[b] # Empty,
         NEW end, NEW new, Shifts(c, bs, b, end, new)
  PROVE  Holds(new, c, Without(map, {bs[b].key}))
<1> DEFINE key == bs[b].key
           K == {key}
           src == [d \in 0..(c - 1) |-> IF Dst(c, b, d) < end - 1
                                        THEN Fwd(c, b, Dst(c, b, d) + 1) ELSE d]
<1>1. end \in 1..(c - 1)
  BY DEF Shifts
<1>2. ASSUME NEW d \in 0..(c - 1)
      PROVE  \E k \in 0..(c - 1) : k = Dst(c, b, d) /\ Fwd(c, b, k) = d
  BY InTurn, FwdDst
<1>3. \A k \in 0..(c - 1) : Fwd(c, b, k) \in 0..(c - 1) /\ Dst(c, b, Fwd(c, b, k)) = k
  BY InTurn, DstFwd
<1>4. \A k \in 1..(c - 1) : Fwd(c, b, k) # b
  <2> SUFFICES ASSUME NEW k \in 1..(c - 1) PROVE Fwd(c, b, k) # b
    OBVIOUS
  <2>1. k \in 0..(c - 1) /\ k # 0
    OBVIOUS
  <2>2. Dst(c, b, Fwd(c, b, k)) = k /\ Dst(c, b, b) = 0
    BY <1>3, <2>1, Round
  <2> QED
    BY <2>1, <2>2
<1>5. \A d \in 0..(c - 1) : d # b /\ bs[d] # Empty => bs[d].key # key
  BY DEF Holds
<1>6. ASSUME NEW d \in 0..(c - 1), NEW k, k = Dst(c, b, d)
      PROVE  src[d] = IF k < end - 1 THEN Fwd(c, b, k + 1) ELSE d
  BY <1>6
<1> HIDE DEF src, key
<1>7. ASSUME NEW d \in 0..(c - 1), new[d] # Empty
      PROVE  /\ src[d] \in 0..(c - 1) /\ bs[src[d]] # Empty /\ new[d].key = bs[src[d]].key
             /\ new[d].value = bs[src[d]].value /\ new[d].key \notin K
             /\ \E k \in 0..(c - 1) : /\ k = Dst(c, b, d) /\ Fwd(c, b, k) = d
                                      /\ k # end - 1
  <2>1. PICK k \in 0..(c - 1) : k = Dst(c, b, d) /\ Fwd(c, b, k) = d
    BY <1>2
  <2>2. k # end - 1
    BY <1>7, <2>1 DEF Shifts
  <2>3. CASE k < end - 1
    <3>1. k \in 0..(end - 2) /\ k + 1 \in 1..(c - 1) /\ k + 1 \in 0..(c - 1)
      BY <1>1, <2>3
    <3>2. src[d] = Fwd(c, b, k + 1)
      BY <1>6, <2>1, <2>3
    <3>3. /\ bs[Fwd(c, b, k + 1)] \in Entries
          /\ new[Fwd(c, b, k)].key = bs[Fwd(c, b, k + 1)].key
          /\ new[Fwd(c, b, k)].value = bs[Fwd(c, b, k + 1)].value
      BY <3>1, ShiftIs
    <3>4. Fwd(c, b, k + 1) # b /\ Fwd(c, b, k + 1) \in 0..(c - 1)
      BY <1>3, <1>4, <3>1
    <3>5. bs[src[d]] # Empty
      BY <3>2, <3>3, SlotTypes
    <3>6. bs[src[d]].key # key
      BY <1>5, <3>2, <3>4, <3>5
    <3> QED
      BY <2>1, <2>2, <3>2, <3>3, <3>4, <3>5, <3>6
  <2>4. CASE ~ (k < end - 1)
    <3>1. k \in end..(c - 1) /\ k \in 1..(c - 1)
      BY <1>1, <2>2, <2>4
    <3>2. src[d] = d
      BY <1>6, <2>1, <2>4
    <3>3. new[d] = bs[d]
      BY <2>1, <3>1 DEF Shifts
    <3>4. d # b
      BY <1>4, <2>1, <3>1
    <3> QED
      BY <1>5, <1>7, <2>1, <2>2, <3>2, <3>3, <3>4
  <2> QED
    BY <2>3, <2>4
<1>8. ASSUME NEW d \in 0..(c - 1), NEW q \in 0..(c - 1), new[d] # Empty, new[q] # Empty,
             src[d] = src[q]
      PROVE  d = q
  <2>1. PICK k \in 0..(c - 1) : k = Dst(c, b, d) /\ Fwd(c, b, k) = d /\ k # end - 1
    BY <1>7, <1>8
  <2>2. PICK h \in 0..(c - 1) : h = Dst(c, b, q) /\ Fwd(c, b, h) = q /\ h # end - 1
    BY <1>7, <1>8
  <2> DEFINE kk == IF k < end - 1 THEN k + 1 ELSE k
             hh == IF h < end - 1 THEN h + 1 ELSE h
  <2>3. src[d] = Fwd(c, b, kk) /\ src[q] = Fwd(c, b, hh)
    BY <1>6, <2>1, <2>2
  <2>4. kk \in 0..(c - 1) /\ hh \in 0..(c - 1)
    BY <1>1, <2>1, <2>2
  <2>5. kk = hh => k = h
    BY <1>1, <2>1, <2>2
  <2> HIDE DEF kk, hh
  <2>6. kk = hh
    <3>1. Dst(c, b, Fwd(c, b, kk)) = kk /\ Dst(c, b, Fwd(c, b, hh)) = hh
      BY <1>3, <2>4
    <3>2. Fwd(c, b, kk) = Fwd(c, b, hh)
      BY <1>8, <2>3
    <3> QED
      BY <3>1, <3>2
  <2> QED
    BY <2>1, <2>2, <2>5, <2>6
<1>9. ASSUME NEW q \in 0..(c - 1), bs[q] # Empty, bs[q].key \notin K
      PROVE  \E d \in 0..(c - 1) : new[d] # Empty /\ src[d] = q
  <2>1. q # b
    BY <1>9 DEF key
  <2>2. PICK h \in 0..(c - 1) : h = Dst(c, b, q) /\ Fwd(c, b, h) = q
    BY <1>2
  <2>3. h # 0
    BY <2>1, <2>2, Round
  <2>4. CASE h < end
    <3>1. h - 1 \in 0..(end - 2) /\ (h - 1) + 1 = h /\ h - 1 \in 0..(c - 1) /\ h - 1 < end - 1
      BY <1>1, <2>3, <2>4
    <3>2. PICK d \in 0..(c - 1) : d = Fwd(c, b, h - 1) /\ h - 1 = Dst(c, b, d)
      BY <1>3, <3>1
    <3>3. src[d] = q
      BY <1>6, <2>2, <3>1, <3>2
    <3>4. new[d] \in Entries
      BY <3>1, <3>2, ShiftIs
    <3> QED
      BY <3>3, <3>4, SlotTypes
  <2>5. CASE ~ (h < end)
    <3>1. h \in end..(c - 1) /\ ~ (h < end - 1)
      BY <1>1, <2>5
    <3>2. new[q] = bs[q]
      BY <2>2, <3>1 DEF Shifts
    <3>3. src[q] = q
      BY <1>6, <2>2, <3>1
    <3> QED
      BY <1>9, <3>2, <3>3
  <2> QED
    BY <2>4, <2>5
<1>10. Comes(new, bs, c, src, K)
  BY <1>7, <1>8, <1>9 DEF Comes
<1>11. Holds(new, c, Without(map, K))
  BY <1>10, Rearranged
<1> QED
  BY <1>11 DEF key

LEMMA EraseAtFine ==
  ASSUME NEW t, NEW map, NEW c, FineAt(t, map, c), NEW b \in 0..(c - 1), t.bs[b] # Empty
  PROVE  FineAt(erase_from_bucket(t, b), Without(map, {t.bs[b].key}), c)
<1>1. KeptAt(t, map, c) /\ Even(t.bs, c) /\ Sound(t.bs, c) /\ Holds(t.bs, c, map) /\ Tab(t)
      /\ t.nb = Cardinality(DOMAIN map) /\ (c # 0 => t.nb < c)
  BY DEF FineAt, KeptAt
<1>2. c \in Nat \ {0} /\ t.bs \in [0..(c - 1) -> Slots] /\ Room(t.bs, c) /\ t.nb \in Nat
      /\ IsFiniteSet(DOMAIN map)
  <2>1. c \in Nat /\ c # 0
    BY <1>1, KeptIs
  <2> QED
    BY <1>1, <2>1, KeptIs
<1>3. PICK end, new : /\ Shifts(c, t.bs, b, end, new)
                      /\ erase_from_bucket(t, b) = Table(new, t.nb - 1, t.grow, TRUE)
  BY <1>1, <1>2, EraseShifts
<1> DEFINE u == Table(new, t.nb - 1, t.grow, TRUE)
           less == Without(map, {t.bs[b].key})
<1>4. u.bs = new /\ u.nb = t.nb - 1 /\ Tab(u)
  BY DEF Table, Tab
<1>5. Sound(new, c) /\ Even(new, c)
  BY <1>1, <1>2, <1>3, ShiftsSound
<1>6. Holds(new, c, less)
  BY <1>1, <1>2, <1>3, ShiftsHolds
<1>7. Cardinality(DOMAIN less) = t.nb - 1
  <2>1. t.bs[b].key \in DOMAIN map
    BY <1>1 DEF Holds
  <2>2. DOMAIN less = DOMAIN map \ {t.bs[b].key}
    BY DEF Without
  <2> HIDE DEF less
  <2>3. Cardinality(DOMAIN map \ {t.bs[b].key}) = Cardinality(DOMAIN map) - 1
    <3>1. IsFiniteSet(DOMAIN map)
      BY <1>2
    <3> QED
      BY <2>1, <3>1, FS_RemoveElement
  <2> QED
    BY <1>1, <2>2, <2>3
<1> HIDE DEF u, less
<1>8. FineAt(u, less, c)
  BY <1>1, <1>2, <1>4, <1>5, <1>6, <1>7 DEF FineAt, KeptAt
<1> QED
  BY <1>3, <1>8 DEF u, less

LEMMA EraseKeyFine ==
  ASSUME NEW t, NEW map, NEW c, FineAt(t, map, c), NEW key \in Nat
  PROVE  FineAt(erase_key(t, key), Without(map, {key}), c)
<1>1. PICK p : p = find_impl(t.bs, key)
  OBVIOUS
<1>2. /\ (p.found <=> key \in DOMAIN map)
      /\ (p.found => c # 0 /\ p.b \in 0..(c - 1) /\ t.bs[p.b] # Empty /\ t.bs[p.b].key = key)
  BY <1>1, Lookup
<1>3. erase_key(t, key) = IF p.found THEN erase_from_bucket(t, p.b) ELSE t
  BY <1>1 DEF erase_key
<1>4. CASE p.found
  <2>1. FineAt(erase_from_bucket(t, p.b), Without(map, {t.bs[p.b].key}), c)
    BY <1>2, <1>4, EraseAtFine
  <2> QED
    BY <1>2, <1>3, <1>4, <2>1
<1>5. CASE ~ p.found
  <2> DEFINE less == Without(map, {key})
  <2>1. DOMAIN less = DOMAIN map /\ \A k \in DOMAIN map : less[k] = map[k]
    BY <1>2, <1>5 DEF Without
  <2> HIDE DEF less
  <2>2. FineAt(t, less, c)
    BY <2>1, FineSame
  <2> QED
    BY <1>3, <1>5, <2>2 DEF less
<1> QED
  BY <1>4, <1>5

LEMMA ClearFine ==
  ASSUME NEW t, NEW map, NEW c, KeptAt(t, map, c), NEW none, DOMAIN none = {}
  PROVE  FineAt(clear(t), none, c)
<1>1. c \in Nat /\ Count(t.bs) = c /\ Tab(t)
  BY KeptIs DEF KeptAt
<1>2. clear(t) = Table(Buckets(c), 0, FALSE, t.shrink)
  <2>1. t = Table(t.bs, t.nb, t.grow, t.shrink)
    BY <1>1 DEF Tab
  <2>2. clear(t) = [t EXCEPT !.bs = Buckets(c), !.nb = 0, !.grow = FALSE]
    BY <1>1, Zenon DEF clear
  <2> QED
    BY <2>1, <2>2 DEF Table
<1> DEFINE u == Table(Buckets(c), 0, FALSE, t.shrink)
<1>3. u.bs = Buckets(c) /\ u.nb = 0 /\ Tab(u)
  BY DEF Table, Tab
<1>4. Sound(Buckets(c), c) /\ Even(Buckets(c), c) /\ Holds(Buckets(c), c, none)
  BY <1>1, NewTable
<1>5. Cardinality(DOMAIN none) = 0
  BY FS_EmptySet
<1> HIDE DEF u
<1>6. FineAt(u, none, c)
  BY <1>1, <1>3, <1>4, <1>5 DEF FineAt, KeptAt
<1> QED
  BY <1>2, <1>6 DEF u

-----------------------------------------------------------------------------
LEMMA FwdIn ==
  \A c, b, k : c \in Nat \ {0} /\ b \in Int /\ k \in Int /\ b + k \in 0..(c - 1) =>
    Fwd(c, b, k) = b + k
<1> SUFFICES ASSUME NEW c \in Nat \ {0}, NEW b \in Int, NEW k \in Int, b + k \in 0..(c - 1)
             PROVE  Fwd(c, b, k) = b + k
  OBVIOUS
<1>1. b + k \in Int
  OBVIOUS
<1> QED
  BY <1>1, ModIn DEF Fwd

LEMMA BackOn ==
  \A c, key, b, k :
    c \in Nat \ {0} /\ key \in Int /\ b \in Int /\ k \in 0..Dst(c, key, b) =>
      Dst(c, key, b - k) = Dst(c, key, b) - k
<1> SUFFICES ASSUME NEW c \in Nat \ {0}, NEW key \in Int, NEW b \in Int,
                    NEW k \in 0..Dst(c, key, b)
             PROVE  Dst(c, key, b - k) = Dst(c, key, b) - k
  OBVIOUS
<1>1. PICK x \in Int : x = b - key
  OBVIOUS
<1>2. Dst(c, key, b) = Mod(c, x) /\ Mod(c, x) \in 0..(c - 1)
  BY <1>1, InTurn DEF Dst
<1>3. k \in Int /\ (b - k) - key = x - k
  BY <1>1
<1>4. Mod(c, Mod(c, x) - k) = Mod(c, x - k)
  BY <1>3, ModSum, Zenon
<1>5. Mod(c, x) - k \in 0..(c - 1) /\ Mod(c, x) - k \in Int
  BY <1>2
<1>6. Mod(c, Mod(c, x) - k) = Mod(c, x) - k
  BY <1>5, ModIn
<1> QED
  BY <1>2, <1>3, <1>4, <1>6 DEF Dst

(* What erasing the values from first up to last does: those from last up to  *)
(* end move, each by as much as the one before it or into its ideal bucket.    *)
Closes(c, bs, first, last, end, by, new) ==
  /\ first \in 0..(c - 1) /\ last \in (first + 1)..c /\ end \in last..c
  /\ end < c => bs[end].dist <= 0
  /\ \A b \in last..(end - 1) :
       /\ bs[b].dist >= 1 /\ by[b] \in 1..(last - first) /\ by[b] <= bs[b].dist
       /\ new[b - by[b]] = [bs[b] EXCEPT !.dist = @ - by[b]]
       /\ \A a \in last..b : by[b] <= by[a]
       /\ by[b] = bs[b].dist \/ (IF b = last THEN by[b] = last - first ELSE by[b] = by[b - 1])
  /\ \A d \in first..(end - 1) : (\A b \in last..(end - 1) : b - by[b] # d) => new[d] = Empty
  /\ \A d \in 0..(c - 1) : d < first \/ d >= end => new[d] = bs[d]
  /\ new = [d \in 0..(c - 1) |-> new[d]]

LEMMA RangeCloses ==
  ASSUME NEW c \in Nat \ {0}, NEW t, Tab(t), t.bs \in [0..(c - 1) -> Slots],
         NEW first \in 0..(c - 1), NEW last \in (first + 1)..c
  PROVE  \E end, by, new, shrink :
           /\ Closes(c, t.bs, first, last, end, by, new)
           /\ erase_range(t, first, last) =
                Table(new,
                      t.nb - Cardinality({b \in first..(last - 1) : ~ empty(t.bs[b])}),
                      t.grow, shrink)
<1> DEFINE gone == {b \in first..(last - 1) : ~ empty(t.bs[b])}
           bs == [b \in DOMAIN t.bs |-> IF b \in gone THEN Empty ELSE t.bs[b]]
           U == {b \in last..Count(bs) : b = Count(bs) \/ bs[b].dist <= 0}
           end == Least(U)
           of(b) == {last - first} \cup {bs[x].dist : x \in last..b}
           by(b) == Least(of(b))
           mover(d) == {b \in last..(end - 1) : b - by(b) = d}
           at(d) == IF mover(d) # {}
                    THEN LET b == CHOOSE b \in mover(d) : TRUE
                         IN  [bs[b] EXCEPT !.dist = @ - by(b)]
                    ELSE IF d \in last..(end - 1) THEN Empty ELSE bs[d]
           closer == [d \in DOMAIN bs |-> at(d)]
           nb == t.nb - Cardinality(gone)
<1>1. /\ DOMAIN bs = 0..(c - 1) /\ Count(bs) = c /\ Count(t.bs) = c
      /\ bs \in [0..(c - 1) -> Slots]
      /\ \A b \in first..(last - 1) : bs[b] = Empty
      /\ \A b \in 0..(c - 1) : b < first \/ b >= last => bs[b] = t.bs[b]
  <2>1. DOMAIN t.bs = 0..(c - 1) /\ DOMAIN bs = 0..(c - 1)
    OBVIOUS
  <2>2. Count(bs) = c /\ Count(t.bs) = c
    <3> HIDE DEF bs
    <3> QED
      BY <2>1, CountIs
  <2>3. bs \in [0..(c - 1) -> Slots]
    BY SlotTypes
  <2>4. \A b \in first..(last - 1) : bs[b] = Empty
    <3> SUFFICES ASSUME NEW b \in first..(last - 1) PROVE bs[b] = Empty
      OBVIOUS
    <3>1. b \in 0..(c - 1) /\ t.bs[b] \in Slots
      OBVIOUS
    <3>2. empty(t.bs[b]) => t.bs[b] = Empty
      BY <3>1, SlotTypes
    <3>3. bs[b] = IF empty(t.bs[b]) THEN t.bs[b] ELSE Empty
      BY <3>1
    <3> QED
      BY <3>2, <3>3
  <2>5. \A b \in 0..(c - 1) : b < first \/ b >= last => bs[b] = t.bs[b]
    OBVIOUS
  <2> HIDE DEF bs
  <2> QED
    BY <2>1, <2>2, <2>3, <2>4, <2>5
<1>2. t = Table(t.bs, t.nb, t.grow, t.shrink)
  BY DEF Tab
<1>3. last # c => erase_range(t, first, last) = Table(closer, nb, t.grow, TRUE)
  <2>1. Count(t.bs) = c
    BY <1>1
  <2>2. last # c => erase_range(t, first, last) =
          [[t EXCEPT !.bs = bs, !.nb = @ - Cardinality(gone)] EXCEPT !.bs = closer, !.shrink = TRUE]
    BY <2>1, Zenon DEF erase_range
  <2> HIDE DEF closer, gone, bs
  <2> QED
    BY <1>2, <2>2 DEF Table
<1>4. last = c => erase_range(t, first, last) = Table(bs, nb, t.grow, t.shrink)
  <2>1. Count(t.bs) = c
    BY <1>1
  <2>2. last = c => erase_range(t, first, last) =
          [t EXCEPT !.bs = bs, !.nb = @ - Cardinality(gone)]
    BY <2>1, Zenon DEF erase_range
  <2> HIDE DEF gone, bs
  <2> QED
    BY <1>2, <2>2 DEF Table
<1> DEFINE new == IF last = c THEN bs ELSE closer
           shrink == IF last = c THEN t.shrink ELSE TRUE
           B == [b \in last..(end - 1) |-> by(b)]
<1>5. erase_range(t, first, last) = Table(new, nb, t.grow, shrink)
  BY <1>3, <1>4
<1> HIDE DEF bs, gone
<1>6. end \in last..c /\ (end < c => bs[end].dist <= 0)
      /\ \A b \in last..(end - 1) : ~ (bs[b].dist <= 0)
  <2>1. U = {b \in last..c : b = c \/ bs[b].dist <= 0}
    BY <1>1
  <2> HIDE DEF U
  <2>2. U \subseteq Nat /\ c \in U
    BY <2>1
  <2>3. end \in U /\ \A b \in U : end <= b
    BY <2>2, LeastIs
  <2> HIDE DEF end
  <2>4. end \in last..c
    BY <2>1, <2>3
  <2>5. \A b \in last..(end - 1) : b \in last..c /\ ~ (end <= b)
    BY <2>4
  <2> QED
    BY <2>1, <2>3, <2>4, <2>5
<1> HIDE DEF U, end
<1>7. \A b \in last..(end - 1) : b \in 0..(c - 1) /\ bs[b] = t.bs[b] /\ bs[b].dist \in Nat
                                 /\ bs[b].dist >= 1
  <2> SUFFICES ASSUME NEW b \in last..(end - 1)
               PROVE  /\ b \in 0..(c - 1) /\ bs[b] = t.bs[b] /\ bs[b].dist \in Nat
                      /\ bs[b].dist >= 1
    OBVIOUS
  <2>1. b \in 0..(c - 1) /\ b >= last
    BY <1>6
  <2>2. bs[b] = t.bs[b] /\ bs[b] \in Slots
    BY <1>1, <2>1
  <2>3. bs[b].dist \in Int
    BY <2>2, SlotTypes
  <2> QED
    BY <1>6, <2>1, <2>2, <2>3
<1>8. \A b \in last..(end - 1) : /\ of(b) \subseteq Nat /\ last - first \in of(b) /\ bs[b].dist \in of(b)
                                 /\ by(b) \in of(b) /\ \A x \in of(b) : x >= 1 /\ by(b) <= x
  <2> SUFFICES ASSUME NEW b \in last..(end - 1)
               PROVE  /\ of(b) \subseteq Nat /\ last - first \in of(b) /\ bs[b].dist \in of(b)
                      /\ by(b) \in of(b) /\ \A x \in of(b) : x >= 1 /\ by(b) <= x
    OBVIOUS
  <2>1. \A x \in last..b : x \in last..(end - 1)
    BY <1>6
  <2>2. /\ of(b) \subseteq Nat /\ last - first \in of(b) /\ bs[b].dist \in of(b)
        /\ \A x \in of(b) : x >= 1
    <3>1. last - first \in Nat /\ last - first >= 1
      BY <1>6
    <3>2. \A x \in last..b : bs[x].dist \in Nat /\ bs[x].dist >= 1
      BY <1>7, <2>1
    <3>3. b \in last..b
      BY <1>6
    <3> QED
      BY <3>1, <3>2, <3>3
  <2> HIDE DEF of
  <2>3. by(b) \in of(b) /\ \A x \in of(b) : by(b) <= x
    BY <2>2, LeastIs
  <2> QED
    BY <2>2, <2>3
<1>9. \A b \in last..(end - 1) : \A a \in last..b : by(b) <= by(a)
  <2> SUFFICES ASSUME NEW b \in last..(end - 1), NEW a \in last..b PROVE by(b) <= by(a)
    OBVIOUS
  <2>1. a \in last..(end - 1)
    BY <1>6
  <2>2. of(a) \subseteq of(b)
    <3>1. \A x \in last..a : x \in last..b
      BY <1>6
    <3> QED
      BY <3>1
  <2> HIDE DEF of, by
  <2> QED
    BY <1>8, <2>1, <2>2
<1>10. \A b \in last..(end - 1) :
         by(b) = bs[b].dist \/ (IF b = last THEN by(b) = last - first ELSE by(b) = by(b - 1))
  <2> SUFFICES ASSUME NEW b \in last..(end - 1), by(b) # bs[b].dist
               PROVE  IF b = last THEN by(b) = last - first ELSE by(b) = by(b - 1)
    OBVIOUS
  <2>1. CASE b = last
    <3>1. of(b) = {last - first} \cup {bs[b].dist}
      <4>1. last..b = {b}
        BY <1>6, <2>1
      <4>2. {bs[x].dist : x \in {b}} = {bs[b].dist}
        OBVIOUS
      <4> QED
        BY <4>1, <4>2
    <3> HIDE DEF of, by
    <3> QED
      BY <1>8, <2>1, <3>1
  <2>2. CASE b # last
    <3>1. b - 1 \in last..(end - 1) /\ b - 1 \in last..b
      BY <1>6, <2>2
    <3>2. of(b) = of(b - 1) \cup {bs[b].dist}
      <4>1. \A x : x \in last..b <=> x \in last..(b - 1) \/ x = b
        BY <1>6, <2>2
      <4> QED
        BY <4>1
    <3> HIDE DEF of, by
    <3>3. by(b) \in of(b - 1)
      BY <1>8, <3>2
    <3>4. by(b - 1) <= by(b) /\ by(b) <= by(b - 1)
      BY <1>8, <1>9, <3>1, <3>3
    <3>5. by(b) \in Nat /\ by(b - 1) \in Nat
      BY <1>8, <3>1
    <3> QED
      BY <2>2, <3>4, <3>5
  <2> QED
    BY <2>1, <2>2
<1> HIDE DEF by
<1>11. \A b \in last..(end - 1) : B[b] = by(b) /\ by(b) \in Nat
  BY <1>8
<1>12. \A a, b \in last..(end - 1) : a - by(a) = b - by(b) => a = b
  <2>1. \A a, b \in last..(end - 1) : a < b => a - by(a) < b - by(b)
    <3> SUFFICES ASSUME NEW a \in last..(end - 1), NEW b \in last..(end - 1), a < b
                 PROVE  a - by(a) < b - by(b)
      OBVIOUS
    <3>1. a \in last..b /\ a \in Int /\ b \in Int
      BY <1>6
    <3>2. by(b) <= by(a) /\ by(b) \in Nat /\ by(a) \in Nat
      BY <1>9, <1>11, <3>1
    <3> QED
      BY <3>1, <3>2
  <2> SUFFICES ASSUME NEW a \in last..(end - 1), NEW b \in last..(end - 1),
                      a - by(a) = b - by(b)
               PROVE  a = b
    OBVIOUS
  <2>2. a \in Int /\ b \in Int /\ by(a) \in Nat /\ by(b) \in Nat
    BY <1>6, <1>11
  <2> QED
    BY <2>1, <2>2
<1>13. ASSUME NEW b \in last..(end - 1)
       PROVE  mover(b - by(b)) = {b}
  BY <1>12
<1>14. \A b \in last..(end - 1) : /\ by(b) \in 1..(last - first) /\ b - by(b) \in first..(end - 1)
                                  /\ by(b) <= t.bs[b].dist
  <2> SUFFICES ASSUME NEW b \in last..(end - 1)
               PROVE  /\ by(b) \in 1..(last - first) /\ b - by(b) \in first..(end - 1)
                      /\ by(b) <= t.bs[b].dist
    OBVIOUS
  <2>1. by(b) \in Nat /\ by(b) >= 1 /\ by(b) <= last - first /\ by(b) <= bs[b].dist
    <3> HIDE DEF of
    <3> QED
      BY <1>8
  <2>2. b \in Int /\ b >= last /\ b <= end - 1 /\ first \in Nat /\ last \in Nat /\ end \in Nat
    BY <1>6
  <2>3. bs[b].dist = t.bs[b].dist
    BY <1>7
  <2> DEFINE x == by(b)
  <2>4. x \in Nat /\ x >= 1 /\ x <= last - first /\ x <= bs[b].dist
    BY <2>1
  <2> HIDE DEF x
  <2>5. x \in 1..(last - first) /\ b - x \in first..(end - 1)
    BY <2>2, <2>4
  <2> QED
    BY <2>3, <2>4, <2>5 DEF x
<1>15. \A b \in last..(end - 1) : new[b - by(b)] = [t.bs[b] EXCEPT !.dist = @ - by(b)]
  <2> SUFFICES ASSUME NEW b \in last..(end - 1)
               PROVE  new[b - by(b)] = [t.bs[b] EXCEPT !.dist = @ - by(b)]
    OBVIOUS
  <2>1. last # c
    BY <1>6
  <2>2. b - by(b) \in 0..(c - 1)
    BY <1>6, <1>14
  <2>3. new[b - by(b)] = at(b - by(b))
    BY <1>1, <2>1, <2>2
  <2>4. mover(b - by(b)) = {b}
    BY <1>13
  <2> HIDE DEF mover
  <2>5. (CHOOSE x \in mover(b - by(b)) : TRUE) = b
    BY <2>4
  <2>6. at(b - by(b)) = [bs[b] EXCEPT !.dist = @ - by(b)]
    <3>1. mover(b - by(b)) # {}
      BY <2>4
    <3> QED
      BY <2>5, <3>1
  <2> QED
    BY <1>7, <2>3, <2>6
<1>16. \A d \in first..(end - 1) :
         (\A b \in last..(end - 1) : b - by(b) # d) => new[d] = Empty
  <2> SUFFICES ASSUME NEW d \in first..(end - 1), \A b \in last..(end - 1) : b - by(b) # d
               PROVE  new[d] = Empty
    OBVIOUS
  <2>1. mover(d) = {} /\ d \in 0..(c - 1)
    BY <1>6
  <2>2. d \in first..(last - 1) \/ d \in last..(end - 1)
    BY <1>6
  <2> HIDE DEF mover
  <2>3. at(d) = IF d \in last..(end - 1) THEN Empty ELSE bs[d]
    BY <2>1
  <2>4. new[d] = IF last = c THEN bs[d] ELSE at(d)
    BY <1>1, <2>1
  <2>5. last = c => d \in first..(last - 1)
    BY <1>6
  <2> QED
    BY <1>1, <2>2, <2>3, <2>4, <2>5
<1>17. \A d \in 0..(c - 1) : d < first \/ d >= end => new[d] = t.bs[d]
  <2> SUFFICES ASSUME NEW d \in 0..(c - 1), d < first \/ d >= end PROVE new[d] = t.bs[d]
    OBVIOUS
  <2>1. mover(d) = {}
    <3>1. \A b \in last..(end - 1) : b - by(b) # d
      BY <1>6, <1>14
    <3> QED
      BY <3>1
  <2>2. d \notin last..(end - 1)
    BY <1>6
  <2> HIDE DEF mover
  <2>3. new[d] = bs[d]
    BY <1>1, <2>1, <2>2
  <2>4. d < first \/ d >= last
    BY <1>6
  <2> QED
    BY <1>1, <2>3, <2>4
<1>18. new = [d \in 0..(c - 1) |-> new[d]]
  <2>1. closer = [d \in 0..(c - 1) |-> closer[d]]
    <3> HIDE DEF at
    <3> QED
      BY <1>1
  <2> HIDE DEF closer
  <2> QED
    BY <1>1, <2>1
<1> HIDE DEF new, shrink, B, nb
<1>19. \A b \in last..(end - 1) :
         /\ t.bs[b].dist >= 1 /\ B[b] \in 1..(last - first) /\ B[b] <= t.bs[b].dist
         /\ new[b - B[b]] = [t.bs[b] EXCEPT !.dist = @ - B[b]]
         /\ \A a \in last..b : B[b] <= B[a]
         /\ B[b] = t.bs[b].dist \/ (IF b = last THEN B[b] = last - first ELSE B[b] = B[b - 1])
  <2> SUFFICES ASSUME NEW b \in last..(end - 1)
               PROVE  /\ t.bs[b].dist >= 1 /\ B[b] \in 1..(last - first) /\ B[b] <= t.bs[b].dist
                      /\ new[b - B[b]] = [t.bs[b] EXCEPT !.dist = @ - B[b]]
                      /\ \A a \in last..b : B[b] <= B[a]
                      /\ B[b] = t.bs[b].dist \/ (IF b = last THEN B[b] = last - first
                                                 ELSE B[b] = B[b - 1])
    OBVIOUS
  <2>1. (\A a \in last..b : a \in last..(end - 1)) /\ (b # last => b - 1 \in last..(end - 1))
    BY <1>6
  <2>2. B[b] = by(b)
    BY <1>11
  <2>3. \A a \in last..b : B[b] <= B[a]
    BY <1>9, <1>11, <2>1
  <2>4. B[b] = t.bs[b].dist \/ (IF b = last THEN B[b] = last - first ELSE B[b] = B[b - 1])
    BY <1>7, <1>10, <1>11, <2>1
  <2> QED
    BY <1>7, <1>14, <1>15, <2>2, <2>3, <2>4
<1>20. \A d \in first..(end - 1) :
         (\A b \in last..(end - 1) : b - B[b] # d) => new[d] = Empty
  BY <1>11, <1>16
<1>21. end < c => t.bs[end].dist <= 0
  <2>1. end < c => end \in 0..(c - 1) /\ end >= last
    BY <1>6
  <2> QED
    BY <1>1, <1>6, <2>1
<1>22. Closes(c, t.bs, first, last, end, B, new)
  BY <1>6, <1>17, <1>18, <1>19, <1>20, <1>21 DEF Closes
<1> QED
  BY <1>5, <1>22 DEF nb, gone

(* Where the value from b is now.                                            *)
LEMMA CloseIs ==
  ASSUME NEW c \in Nat \ {0}, NEW bs, Sound(bs, c), NEW first, NEW last, NEW end, NEW by,
         NEW new, Closes(c, bs, first, last, end, by, new)
  PROVE  /\ first \in Nat /\ last \in Nat /\ end \in Nat
         /\ \A b \in last..(end - 1) :
              /\ b \in 0..(c - 1) /\ by[b] \in Nat /\ by[b] >= 1 /\ by[b] <= last - first
              /\ b - by[b] \in first..(end - 1) /\ b - by[b] \in 0..(c - 1)
              /\ bs[b] \in Entries /\ new[b - by[b]] \in Entries
              /\ new[b - by[b]].dist = bs[b].dist - by[b]
              /\ new[b - by[b]].key = bs[b].key /\ new[b - by[b]].value = bs[b].value
              /\ new[b - by[b]].dist = Dst(c, bs[b].key, b - by[b])
<1>1. first \in 0..(c - 1) /\ last \in (first + 1)..c /\ end \in last..c
  BY DEF Closes
<1> SUFFICES ASSUME NEW b \in last..(end - 1)
             PROVE  /\ b \in 0..(c - 1) /\ by[b] \in Nat /\ by[b] >= 1 /\ by[b] <= last - first
                    /\ b - by[b] \in first..(end - 1) /\ b - by[b] \in 0..(c - 1)
                    /\ bs[b] \in Entries /\ new[b - by[b]] \in Entries
                    /\ new[b - by[b]].dist = bs[b].dist - by[b]
                    /\ new[b - by[b]].key = bs[b].key /\ new[b - by[b]].value = bs[b].value
                    /\ new[b - by[b]].dist = Dst(c, bs[b].key, b - by[b])
  BY <1>1
<1> DEFINE x == by[b]
           e == bs[b]
           d == b - x
<1>2. e.dist >= 1 /\ x \in 1..(last - first) /\ x <= e.dist /\ new[d] = [e EXCEPT !.dist = @ - x]
  BY DEF Closes
<1>3. b \in 0..(c - 1)
  BY <1>1
<1>4. e \in Slots
  BY <1>3 DEF Sound
<1> HIDE DEF x
<1>5. d \in first..(end - 1) /\ d \in 0..(c - 1) /\ x \in Nat /\ x >= 1 /\ x <= last - first
  BY <1>1, <1>2
<1>6. e # Empty
  <2> HIDE DEF e
  <2> QED
    BY <1>2, <1>4, SlotTypes
<1>7. e.dist = Dst(c, e.key, b)
  BY <1>3, <1>6 DEF Sound
<1> HIDE DEF e
<1>8. e \in Entries /\ e.dist \in Nat /\ e.key \in Int
  BY <1>4, <1>6, SlotTypes
<1>9. Dst(c, e.key, d) = e.dist - x
  <2>1. b \in Int /\ x \in 0..Dst(c, e.key, b)
    BY <1>2, <1>3, <1>5, <1>7, <1>8
  <2> QED
    BY <1>7, <1>8, <2>1, BackOn
<1> HIDE DEF d
<1>10. /\ new[d] \in Entries /\ new[d].dist = e.dist - x /\ new[d].key = e.key
       /\ new[d].value = e.value
  BY <1>2, <1>5, <1>8 DEF Entries
<1> QED
  BY <1>3, <1>5, <1>8, <1>9, <1>10 DEF d, x, e

LEMMA ClosesSound ==
  ASSUME NEW c \in Nat \ {0}, NEW bs, Sound(bs, c), Even(bs, c), NEW first, NEW last, NEW end,
         NEW by, NEW new, Closes(c, bs, first, last, end, by, new)
  PROVE  /\ Sound(new, c)
         /\ \A d \in 1..(c - 1) : new[d].dist <= new[d - 1].dist + 1
<1> DEFINE L == last..(end - 1)
<1>1. first \in 0..(c - 1) /\ last \in (first + 1)..c /\ end \in last..c
  BY DEF Closes
<1>2. \A d \in 0..(c - 1) : d < first \/ d >= end => new[d] = bs[d]
  BY DEF Closes
<1>3. \A d \in first..(end - 1) : new[d] = Empty \/ \E b \in L : d = b - by[b]
  BY DEF Closes
<1>4. \A b \in L :
        /\ b \in 0..(c - 1) /\ by[b] \in Nat /\ by[b] >= 1 /\ by[b] <= last - first
        /\ b - by[b] \in first..(end - 1) /\ b - by[b] \in 0..(c - 1)
        /\ bs[b] \in Entries /\ new[b - by[b]] \in Entries
        /\ new[b - by[b]].dist = bs[b].dist - by[b]
        /\ new[b - by[b]].key = bs[b].key /\ new[b - by[b]].value = bs[b].value
        /\ new[b - by[b]].dist = Dst(c, bs[b].key, b - by[b])
  BY CloseIs
<1>5. ASSUME NEW d \in 0..(c - 1)
      PROVE  new[d] \in Slots /\ (new[d] # Empty => new[d].dist = Dst(c, new[d].key, d))
  <2>1. CASE d < first \/ d >= end
    BY <1>2, <2>1 DEF Sound
  <2>2. CASE d \in first..(end - 1) /\ new[d] = Empty
    BY <2>2, SlotTypes
  <2>3. CASE \E b \in L : d = b - by[b]
    BY <1>4, <2>3, SlotTypes
  <2>4. d < first \/ d >= end \/ d \in first..(end - 1)
    BY <1>1
  <2> QED
    BY <1>3, <2>1, <2>2, <2>3, <2>4
<1>6. Sound(new, c)
  BY <1>5 DEF Sound, Closes
<1>7. \A d \in 0..(c - 1) : /\ new[d].dist \in Int /\ new[d].dist >= -1
                            /\ bs[d].dist \in Int /\ bs[d].dist >= -1
  BY <1>5, SlotTypes DEF Sound
<1>8. \A d \in 1..(c - 1) : d - 1 \in 0..(c - 1) /\ d \in 0..(c - 1)
                            /\ bs[d].dist <= bs[d - 1].dist + 1
  <2> SUFFICES ASSUME NEW d \in 1..(c - 1)
               PROVE  d - 1 \in 0..(c - 1) /\ d \in 0..(c - 1) /\ bs[d].dist <= bs[d - 1].dist + 1
    OBVIOUS
  <2>1. PICK q \in 0..(c - 1) : q = d - 1 /\ q + 1 = d /\ q + 1 \in 0..(c - 1)
    OBVIOUS
  <2>2. Fwd(c, q, 1) = d
    BY <2>1, FwdIn
  <2> QED
    BY <2>1, <2>2 DEF Even
<1>9. ASSUME NEW d \in 1..(c - 1) PROVE new[d].dist <= new[d - 1].dist + 1
  <2>0. d - 1 \in 0..(c - 1) /\ d \in 0..(c - 1)
    OBVIOUS
  <2>1. CASE d < first \/ d > end
    <3>1. new[d] = bs[d] /\ new[d - 1] = bs[d - 1]
      BY <1>1, <1>2, <2>0, <2>1
    <3> QED
      BY <1>8, <3>1
  <2>2. CASE d = end
    <3>1. new[d] = bs[d] /\ bs[d].dist <= 0
      BY <1>1, <1>2, <2>0, <2>2 DEF Closes
    <3> QED
      BY <1>7, <2>0, <3>1
  <2>3. CASE d \in first..(end - 1) /\ new[d] = Empty
    BY <1>7, <2>0, <2>3, SlotTypes
  <2>4. CASE d \in first..(end - 1) /\ \E b \in L : d = b - by[b]
    <3>1. PICK b \in L : d = b - by[b]
      BY <2>4
    <3>2. PICK x \in Nat : x = by[b]
      BY <1>4
    <3>3. d = b - x /\ b \in 0..(c - 1) /\ x <= last - first /\ new[d].dist = bs[b].dist - x
          /\ b >= last
      BY <1>1, <1>4, <3>1, <3>2
    <3>4. CASE d = first
      <4>1. b = last /\ x = last - first /\ first - 1 \in 0..(c - 1)
        BY <1>1, <2>0, <3>2, <3>3, <3>4
      <4>2. new[d - 1] = bs[first - 1]
        BY <1>1, <1>2, <2>0, <3>4
      <4>3. bs[last].dist <= bs[first - 1].dist + (x + 1)
        <5>1. PICK q \in 0..(c - 1) : q = first - 1
          BY <4>1
        <5>2. x + 1 \in Nat /\ q + (x + 1) = last /\ q + (x + 1) \in 0..(c - 1)
          BY <1>1, <3>2, <3>3, <4>1, <5>1
        <5>3. Fwd(c, q, x + 1) = last
          BY <5>2, FwdIn
        <5>4. bs \in [0..(c - 1) -> Slots]
          BY DEF Sound
        <5>5. bs[Fwd(c, q, x + 1)].dist <= bs[q].dist + (x + 1)
          BY <5>2, <5>4, Ahead
        <5> QED
          BY <5>1, <5>3, <5>5
      <4> QED
        BY <1>7, <3>2, <3>3, <4>1, <4>2, <4>3
    <3>5. CASE d # first
      <4>1. by[b] = bs[b].dist \/ (IF b = last THEN by[b] = last - first ELSE by[b] = by[b - 1])
        BY DEF Closes
      <4>2. CASE x = bs[b].dist
        BY <1>7, <2>0, <3>2, <3>3, <4>2
      <4>3. CASE x # bs[b].dist
        <5>1. b # last
          BY <1>1, <3>2, <3>3, <3>5, <4>1, <4>3
        <5>2. x = by[b - 1] /\ b - 1 \in L /\ b \in 1..(c - 1)
          BY <1>1, <3>2, <3>3, <4>1, <4>3, <5>1
        <5>3. (b - 1) - x = d - 1
          BY <3>2, <3>3
        <5>4. new[d - 1].dist = bs[b - 1].dist - x
          BY <1>4, <5>2, <5>3
        <5>5. bs[b].dist <= bs[b - 1].dist + 1 /\ b - 1 \in 0..(c - 1)
          BY <1>8, <5>2
        <5> QED
          BY <1>7, <3>2, <3>3, <5>4, <5>5
      <4> QED
        BY <4>2, <4>3
    <3> QED
      BY <3>4, <3>5
  <2>5. d < first \/ d > end \/ d = end \/ d \in first..(end - 1)
    BY <1>1
  <2> QED
    BY <1>3, <2>1, <2>2, <2>3, <2>4, <2>5
<1> QED
  BY <1>6, <1>9

(* Unless the first bucket is too far for the last one before it, it is even.   *)
LEMMA NotTorn ==
  ASSUME NEW c \in Nat \ {0}, NEW bs, DOMAIN bs = 0..(c - 1),
         \A d \in 1..(c - 1) : bs[d].dist <= bs[d - 1].dist + 1,
         bs[0].dist \in Int, bs[c - 1].dist \in Int, ~ Torn(bs)
  PROVE  Even(bs, c)
<1>1. Count(bs) = c
  BY CountIs
<1>2. bs[0].dist <= bs[c - 1].dist + 1
  BY <1>1 DEF Torn
<1> SUFFICES ASSUME NEW b \in 0..(c - 1) PROVE bs[Fwd(c, b, 1)].dist <= bs[b].dist + 1
  BY DEF Even
<1>3. CASE b = c - 1
  <2>1. 0 \in 0..(c - 1) /\ 0 \in Int /\ c \in Int /\ 1 \in Int /\ b \in Int /\ c - 1 \in Int
        /\ 0 + (c - 1) = b /\ (c - 1) + 1 = c
    BY <1>3
  <2>2. Fwd(c, 0, c) = 0
    BY <2>1, Round
  <2>3. Fwd(c, 0, c - 1) = b
    BY <2>1, FwdIn
  <2>4. Fwd(c, Fwd(c, 0, c - 1), 1) = Fwd(c, 0, (c - 1) + 1)
    BY <2>1, FwdFwd
  <2>5. Fwd(c, b, 1) = 0
    BY <2>1, <2>2, <2>3, <2>4
  <2> QED
    BY <1>2, <1>3, <2>5
<1>4. CASE b # c - 1
  <2>1. PICK d \in 1..(c - 1) : d = b + 1 /\ d - 1 = b /\ b + 1 \in 0..(c - 1)
    BY <1>4
  <2>2. Fwd(c, b, 1) = d
    BY <2>1, FwdIn
  <2> QED
    BY <2>1, <2>2
<1> QED
  BY <1>3, <1>4

(* The entries with their values there, from first up to last.                *)
Among(bs, first, last) == {b \in first..(last - 1) : bs[b] # Empty}
KeysAmong(bs, first, last) == {bs[b].key : b \in Among(bs, first, last)}

LEMMA ClosesHolds ==
  ASSUME NEW c \in Nat \ {0}, NEW bs, Sound(bs, c), NEW map, Holds(bs, c, map),
         NEW first, NEW last, NEW end, NEW by, NEW new,
         Closes(c, bs, first, last, end, by, new)
  PROVE  Holds(new, c, Without(map, KeysAmong(bs, first, last)))
<1> DEFINE L == last..(end - 1)
           K == KeysAmong(bs, first, last)
           from(d) == {b \in L : b - by[b] = d}
           src == [d \in 0..(c - 1) |-> IF from(d) # {} THEN CHOOSE b \in from(d) : TRUE ELSE d]
<1>1. first \in 0..(c - 1) /\ last \in (first + 1)..c /\ end \in last..c
  BY DEF Closes
<1>2. \A d \in 0..(c - 1) : d < first \/ d >= end => new[d] = bs[d]
  BY DEF Closes
<1>3. \A d \in first..(end - 1) : new[d] = Empty \/ \E b \in L : d = b - by[b]
  BY DEF Closes
<1>4. \A b \in L :
        /\ b \in 0..(c - 1) /\ by[b] \in Nat /\ by[b] >= 1 /\ by[b] <= last - first
        /\ b - by[b] \in first..(end - 1) /\ b - by[b] \in 0..(c - 1)
        /\ bs[b] \in Entries /\ new[b - by[b]] \in Entries
        /\ new[b - by[b]].key = bs[b].key /\ new[b - by[b]].value = bs[b].value
  BY CloseIs
<1>5. \A a, b \in L : a - by[a] = b - by[b] => a = b
  <2>1. \A a, b \in L : a < b => a - by[a] < b - by[b]
    <3> SUFFICES ASSUME NEW a \in L, NEW b \in L, a < b PROVE a - by[a] < b - by[b]
      OBVIOUS
    <3>1. a \in last..b /\ a \in Int /\ b \in Int
      BY <1>1
    <3>2. by[b] <= by[a]
      BY <3>1 DEF Closes
    <3>3. by[a] \in Nat /\ by[b] \in Nat
      BY <1>4
    <3> QED
      BY <3>1, <3>2, <3>3
  <2> SUFFICES ASSUME NEW a \in L, NEW b \in L, a - by[a] = b - by[b] PROVE a = b
    OBVIOUS
  <2>2. a \in Int /\ b \in Int /\ by[a] \in Nat /\ by[b] \in Nat
    BY <1>4
  <2> HIDE DEF L
  <2> QED
    BY <2>1, <2>2
<1>6. \A b \in L : src[b - by[b]] = b
  <2> SUFFICES ASSUME NEW b \in L PROVE src[b - by[b]] = b
    OBVIOUS
  <2>1. PICK d \in 0..(c - 1) : d = b - by[b]
    BY <1>4
  <2>2. from(d) = {b}
    BY <1>5, <2>1
  <2> HIDE DEF from
  <2>3. (CHOOSE a \in from(d) : TRUE) = b
    BY <2>2
  <2> QED
    BY <2>1, <2>2, <2>3
<1>7. \A d \in 0..(c - 1) : d < first \/ d >= end => src[d] = d
  <2> SUFFICES ASSUME NEW d \in 0..(c - 1), d < first \/ d >= end PROVE src[d] = d
    OBVIOUS
  <2>1. d \notin first..(end - 1)
    BY <1>1
  <2>2. from(d) = {}
    BY <1>4, <2>1
  <2> HIDE DEF from
  <2> QED
    BY <2>2
<1>8. \A d \in 0..(c - 1) : d < first \/ d >= end \/ d \in first..(end - 1)
  BY <1>1
<1>9. \A b \in L : b \notin first..(last - 1) /\ b \in first..(end - 1)
  BY <1>1
<1> HIDE DEF src, from, L
<1>10. \A b \in 0..(c - 1) : bs[b] # Empty /\ b \notin first..(last - 1) => bs[b].key \notin K
  <2> SUFFICES ASSUME NEW b \in 0..(c - 1), bs[b] # Empty, b \notin first..(last - 1),
                      NEW a \in Among(bs, first, last), bs[a].key = bs[b].key
               PROVE  FALSE
    BY DEF KeysAmong
  <2>1. a \in first..(last - 1) /\ a \in 0..(c - 1) /\ bs[a] # Empty
    BY <1>1 DEF Among
  <2> QED
    BY <2>1 DEF Holds
<1>11. \A b \in first..(last - 1) : bs[b] # Empty => bs[b].key \in K
  BY DEF KeysAmong, Among
<1> HIDE DEF K
<1>12. ASSUME NEW d \in 0..(c - 1), new[d] # Empty
       PROVE  \/ \E b \in L : d = b - by[b] /\ src[d] = b
              \/ (d < first \/ d >= end) /\ src[d] = d /\ new[d] = bs[d]
  BY <1>2, <1>3, <1>6, <1>7, <1>8, <1>12
<1>13. ASSUME NEW d \in 0..(c - 1), new[d] # Empty
       PROVE  /\ src[d] \in 0..(c - 1) /\ bs[src[d]] # Empty /\ new[d].key = bs[src[d]].key
              /\ new[d].value = bs[src[d]].value /\ new[d].key \notin K
  <2>1. CASE \E b \in L : d = b - by[b] /\ src[d] = b
    <3>1. PICK b \in L : d = b - by[b] /\ src[d] = b
      BY <2>1
    <3>2. b \in 0..(c - 1) /\ bs[b] # Empty /\ new[d].key = bs[b].key /\ new[d].value = bs[b].value
      BY <1>4, <3>1, SlotTypes
    <3> QED
      BY <1>9, <1>10, <3>1, <3>2
  <2>2. CASE (d < first \/ d >= end) /\ src[d] = d /\ new[d] = bs[d]
    <3>1. d \notin first..(last - 1)
      BY <1>1, <2>2
    <3> QED
      BY <1>10, <1>13, <2>2, <3>1
  <2> QED
    BY <1>12, <1>13, <2>1, <2>2
<1>14. ASSUME NEW d \in 0..(c - 1), NEW q \in 0..(c - 1), new[d] # Empty, new[q] # Empty,
              src[d] = src[q]
       PROVE  d = q
  <2>1. \A x \in 0..(c - 1) : x < first \/ x >= end => x \notin L
    BY <1>1, <1>9
  <2> QED
    BY <1>12, <1>14, <2>1
<1>15. ASSUME NEW q \in 0..(c - 1), bs[q] # Empty, bs[q].key \notin K
       PROVE  \E d \in 0..(c - 1) : new[d] # Empty /\ src[d] = q
  <2>1. q \notin first..(last - 1)
    BY <1>11, <1>15
  <2>2. CASE q \in L
    <3>1. PICK d \in 0..(c - 1) : d = q - by[q]
      BY <1>4, <2>2
    <3>2. new[d] # Empty /\ src[d] = q
      BY <1>4, <1>6, <2>2, <3>1, SlotTypes
    <3> QED
      BY <3>2
  <2>3. CASE q < first \/ q >= end
    BY <1>2, <1>7, <1>15, <2>3
  <2>4. q < first \/ q >= end \/ q \in L
    BY <1>1, <2>1 DEF L
  <2> QED
    BY <2>2, <2>3, <2>4
<1>16. Comes(new, bs, c, src, K)
  BY <1>13, <1>14, <1>15 DEF Comes
<1>17. Holds(new, c, Without(map, K))
  BY <1>16, Rearranged
<1> QED
  BY <1>17 DEF K

LEMMA AsManyKeys ==
  ASSUME NEW c \in Nat, NEW bs, NEW map, Holds(bs, c, map), NEW first \in 0..c, NEW last \in 0..c
  PROVE  /\ Cardinality(DOMAIN map \ KeysAmong(bs, first, last)) =
              Cardinality(DOMAIN map) - Cardinality(Among(bs, first, last))
         /\ Cardinality(Among(bs, first, last)) \in Nat
<1> DEFINE A == Among(bs, first, last)
           K == KeysAmong(bs, first, last)
           f == [b \in A |-> bs[b].key]
<1>1. A \in SUBSET (0..(c - 1)) /\ \A b \in A : bs[b] # Empty
  BY DEF Among
<1>2. IsFiniteSet(A)
  <2>1. IsFiniteSet(0..(c - 1))
    BY FS_Interval
  <2> HIDE DEF A
  <2> QED
    BY <1>1, <2>1, FS_Subset
<1>3. K = {bs[b].key : b \in A}
  BY DEF KeysAmong
<1> HIDE DEF A, K
<1>4. f \in Bijection(A, K)
  <2>1. f \in [A -> K]
    BY <1>3
  <2>2. \A a, b \in A : f[a] = f[b] => a = b
    BY <1>1 DEF Holds
  <2>3. \A key \in K : \E b \in A : f[b] = key
    BY <1>3
  <2> HIDE DEF f
  <2> QED
    BY <2>1, <2>2, <2>3 DEF Bijection, Injection, Surjection, IsInjective
<1>5. IsFiniteSet(K) /\ Cardinality(K) = Cardinality(A)
  <2>1. ExistsBijection(A, K)
    BY <1>4 DEF ExistsBijection
  <2> QED
    BY <1>2, <2>1, FS_Bijection
<1>6. IsFiniteSet(DOMAIN map)
  BY OneEach
<1>7. DOMAIN map \cap K = K
  BY <1>1, <1>3 DEF Holds
<1>8. Cardinality(DOMAIN map \ K) = Cardinality(DOMAIN map) - Cardinality(DOMAIN map \cap K)
  BY <1>6, FS_Difference
<1>9. Cardinality(A) \in Nat
  BY <1>2, FS_CardinalityType
<1> QED
  BY <1>5, <1>6, <1>7, <1>8, <1>9 DEF A, K

(* Erasing the values from first up to last keeps the others; where it takes   *)
(* no run apart the table is in order.                                       *)
LEMMA EraseRangeFine ==
  ASSUME NEW t, NEW map, NEW c, FineAt(t, map, c), NEW first \in 0..(c - 1),
         NEW last \in (first + 1)..c
  PROVE  LET u == erase_range(t, first, last)
             less == Without(map, KeysAmong(t.bs, first, last))
         IN  KeptAt(u, less, c) /\ (~ Torn(u.bs) => FineAt(u, less, c))
<1> DEFINE u == erase_range(t, first, last)
           K == KeysAmong(t.bs, first, last)
           less == Without(map, K)
           gone == {b \in first..(last - 1) : ~ empty(t.bs[b])}
<1>0. KeptAt(t, map, c) /\ c # 0
  <2>1. c \in Nat /\ c # 0
    BY DEF FineAt, KeptAt
  <2> QED
    BY <2>1 DEF FineAt
<1>1. /\ c \in Nat \ {0} /\ t.bs \in [0..(c - 1) -> Slots] /\ Tab(t) /\ Sound(t.bs, c)
      /\ Even(t.bs, c) /\ Holds(t.bs, c, map) /\ t.nb = Cardinality(DOMAIN map) /\ t.nb < c
      /\ t.nb \in Nat /\ c \in Nat
  BY <1>0, KeptIs DEF FineAt, KeptAt
<1>2. PICK end, by, new, shrink :
        /\ Closes(c, t.bs, first, last, end, by, new)
        /\ u = Table(new, t.nb - Cardinality(gone), t.grow, shrink)
  BY <1>1, RangeCloses
<1> HIDE DEF u
<1>3. u.bs = new /\ u.nb = t.nb - Cardinality(gone) /\ Tab(u)
  <2> HIDE DEF gone
  <2> QED
    BY <1>2 DEF Table, Tab
<1>4. gone = Among(t.bs, first, last)
  <2>1. \A b \in first..(last - 1) : empty(t.bs[b]) <=> t.bs[b] = Empty
    <3>1. \A b \in first..(last - 1) : b \in 0..(c - 1)
      BY <1>1
    <3> QED
      BY <1>1, <3>1, SlotTypes
  <2> QED
    BY <2>1 DEF Among
<1>5. /\ Cardinality(DOMAIN map \ K) = t.nb - Cardinality(gone) /\ Cardinality(gone) \in Nat
  <2>1. first \in 0..c /\ last \in 0..c
    BY <1>1
  <2>2. /\ Cardinality(DOMAIN map \ KeysAmong(t.bs, first, last)) =
             Cardinality(DOMAIN map) - Cardinality(Among(t.bs, first, last))
        /\ Cardinality(Among(t.bs, first, last)) \in Nat
    <3>1. c \in Nat /\ Holds(t.bs, c, map)
      BY <1>1
    <3> QED
      BY <2>1, <3>1, AsManyKeys
  <2> QED
    BY <1>1, <1>4, <2>2, Zenon DEF K
<1> HIDE DEF gone
<1>6. DOMAIN less = DOMAIN map \ K
  BY DEF Without
<1>7. Sound(new, c) /\ \A d \in 1..(c - 1) : new[d].dist <= new[d - 1].dist + 1
  BY <1>1, <1>2, ClosesSound
<1>8. Holds(new, c, less)
  BY <1>1, <1>2, ClosesHolds
<1> HIDE DEF less, K
<1>9. KeptAt(u, less, c)
  <2>1. u.nb = Cardinality(DOMAIN less)
    BY <1>3, <1>5, <1>6
  <2>2. u.nb < c
    BY <1>1, <1>3, <1>5
  <2> QED
    BY <1>1, <1>3, <1>7, <1>8, <2>1, <2>2 DEF KeptAt
<1>10. ASSUME ~ Torn(u.bs) PROVE FineAt(u, less, c)
  <2>1. DOMAIN new = 0..(c - 1) /\ new[0] \in Slots /\ new[c - 1] \in Slots
    BY <1>1, <1>7 DEF Sound
  <2>2. new[0].dist \in Int /\ new[c - 1].dist \in Int
    BY <2>1, SlotTypes
  <2>3. Even(new, c)
    BY <1>1, <1>3, <1>7, <1>10, <2>1, <2>2, NotTorn
  <2> QED
    BY <1>3, <1>9, <2>3 DEF FineAt
<1> QED
  BY <1>9, <1>10 DEF u, less, K
-----------------------------------------------------------------------------
(* What holds of a map throughout: the table it has, torn or not, keeps what  *)
(* its user wants, and is in order unless torn.                              *)
InOrder ==
  /\ LoadFactors
  /\ DOMAIN wanted \subseteq Keys
  /\ \E c \in Nat : KeptAt(this, wanted, c) /\ (~ torn => FineAt(this, wanted, c))

LEMMA BecomesIs ==
  ASSUME NEW t, NEW map, NEW c, KeptAt(t, map, c), Becomes(t)
  PROVE  this' = t
<1>1. t = Table(t.bs, t.nb, t.grow, t.shrink)
  BY DEF KeptAt, Tab
<1>2. /\ m_buckets' = t.bs /\ m_nb_elements' = t.nb
      /\ m_grow_on_next_insert' = t.grow /\ m_try_skrink_on_next_insert' = t.shrink
  BY DEF Becomes
<1> QED
  BY <1>1, <1>2, Zenon DEF this, Table

LEMMA InitInOrder == Init => InOrder
<1> SUFFICES ASSUME Init PROVE InOrder
  OBVIOUS
<1>1. LoadFactors
  BY DEF Init, LoadFactors, DEFAULT_MAX_LOAD_FACTOR, DEFAULT_MIN_LOAD_FACTOR
<1>2. DOMAIN wanted = {}
  BY DEF Init
<1>3. this = Table(Buckets(0), 0, FALSE, FALSE)
  BY DEF Init, this
<1>4. this.bs = Buckets(0) /\ this.nb = 0 /\ Tab(this)
  BY <1>3 DEF Table, Tab
<1>5. Cardinality(DOMAIN wanted) = 0
  BY <1>2, FS_EmptySet
<1>6. Sound(Buckets(0), 0) /\ Even(Buckets(0), 0) /\ Holds(Buckets(0), 0, wanted)
  BY <1>2, NewTable
<1>7. FineAt(this, wanted, 0)
  BY <1>4, <1>5, <1>6 DEF FineAt, KeptAt
<1> QED
  BY <1>1, <1>2, <1>7 DEF InOrder, FineAt

LEMMA StepInOrder ==
  ASSUME InOrder, UNCHANGED loads, NEW t, NEW c \in Nat, Becomes(t),
         DOMAIN wanted' \subseteq Keys, KeptAt(t, wanted', c),
         ~ torn' => FineAt(t, wanted', c)
  PROVE  InOrder'
<1>1. LoadFactors'
  <2>1. m_max_load_factor' = m_max_load_factor /\ m_min_load_factor' = m_min_load_factor
    BY DEF loads
  <2> QED
    BY <2>1 DEF InOrder, LoadFactors
<1>2. this' = t
  BY BecomesIs
<1>3. KeptAt(this', wanted', c) /\ (~ torn' => FineAt(this', wanted', c))
  BY <1>2
<1> QED
  BY <1>1, <1>3 DEF InOrder

LEMMA ChangeInOrder ==
  ASSUME RobinConstants, InOrder, ~ torn, Change
  PROVE  InOrder'
<1>1. LoadFactors /\ DOMAIN wanted \subseteq Keys
  BY DEF InOrder
<1>2. PICK c \in Nat : FineAt(this, wanted, c)
  BY DEF InOrder
<1>3. Keys \subseteq Nat /\ Keys \cap Nat = Keys /\ Ranges \subseteq Seq(Keys \X Values)
  BY DEF RobinConstants
<1>4. ASSUME NEW t, NEW d, FineAt(t, wanted', d) PROVE d \in Nat /\ KeptAt(t, wanted', d)
  BY <1>4 DEF FineAt, KeptAt
<1>5. ASSUME NEW key \in Keys, NEW value \in Values, Insert(key, value) PROVE InOrder'
  <2>1. /\ Becomes(insert_impl(this, key, value)) /\ wanted' = PutNew(wanted, key, value)
        /\ UNCHANGED loads
    BY <1>5 DEF Insert
  <2>2. PICK d \in Nat : FineAt(insert_impl(this, key, value), PutNew(wanted, key, value), d)
    BY <1>1, <1>2, <1>3, InsertFine
  <2>3. DOMAIN wanted' \subseteq Keys
    BY <1>1, <2>1 DEF PutNew, Put
  <2> QED
    BY <1>4, <2>1, <2>2, <2>3, StepInOrder
<1>6. ASSUME NEW key \in Keys, NEW value \in Values, InsertOrAssign(key, value) PROVE InOrder'
  <2>1. /\ Becomes(insert_or_assign(this, key, value)) /\ wanted' = Put(wanted, key, value)
        /\ UNCHANGED loads
    BY <1>6 DEF InsertOrAssign
  <2>2. PICK d \in Nat : FineAt(insert_or_assign(this, key, value), Put(wanted, key, value), d)
    BY <1>1, <1>2, <1>3, InsertOrAssignFine
  <2>3. DOMAIN wanted' \subseteq Keys
    BY <1>1, <2>1 DEF Put
  <2> QED
    BY <1>4, <2>1, <2>2, <2>3, StepInOrder
<1>7. ASSUME NEW pairs \in Ranges, InsertRange(pairs) PROVE InOrder'
  <2>1. /\ Becomes(insert_range(this, pairs)) /\ wanted' = PutAllNew(wanted, pairs)
        /\ UNCHANGED loads
    BY <1>7 DEF InsertRange
  <2>2. pairs \in Seq((Keys \cap Nat) \X Values)
    BY <1>3
  <2>3. PICK d \in Nat : FineAt(insert_range(this, pairs), PutAllNew(wanted, pairs), d)
    BY <1>1, <1>2, <2>2, InsertRangeFine
  <2>4. DOMAIN wanted' \subseteq Keys
    <3>1. DOMAIN PutAllNew(wanted, pairs) =
            DOMAIN wanted \cup {pairs[k][1] : k \in DOMAIN pairs}
      BY DEF PutAllNew
    <3>2. \A k \in DOMAIN pairs : pairs[k][1] \in Keys
      BY <1>3
    <3> QED
      BY <1>1, <2>1, <3>1, <3>2
  <2> QED
    BY <1>4, <2>1, <2>3, <2>4, StepInOrder
<1>8. ASSUME NEW key \in Keys, Erase(key) PROVE InOrder'
  <2>1. /\ Becomes(erase_key(this, key)) /\ wanted' = Without(wanted, {key}) /\ UNCHANGED loads
    BY <1>8 DEF Erase
  <2>2. FineAt(erase_key(this, key), Without(wanted, {key}), c)
    BY <1>2, <1>3, EraseKeyFine
  <2>3. DOMAIN wanted' \subseteq Keys
    BY <1>1, <2>1, WithoutIs, Zenon
  <2> QED
    BY <1>2, <1>4, <2>1, <2>2, <2>3, StepInOrder
<1>9. /\ c \in Nat /\ DOMAIN m_buckets = 0..(c - 1) /\ m_bucket_count = c /\ this.bs = m_buckets
      /\ Places = {b \in 0..(c - 1) : m_buckets[b] # Empty}
  <2>1. this.bs = m_buckets
    BY DEF this, Table
  <2>2. DOMAIN m_buckets = 0..(c - 1) /\ Count(m_buckets) = c /\ m_buckets \in [0..(c - 1) -> Slots]
    BY <1>2, <2>1, KeptIs DEF FineAt
  <2>3. \A b \in 0..(c - 1) : empty(m_buckets[b]) <=> m_buckets[b] = Empty
    BY <2>2, SlotTypes
  <2> QED
    BY <2>1, <2>2, <2>3 DEF Places, m_bucket_count
<1>10. ASSUME NEW b \in Places, EraseAt(b) PROVE InOrder'
  <2>1. /\ Becomes(erase_from_bucket(this, b)) /\ UNCHANGED loads
        /\ wanted' = Without(wanted, {m_buckets[b].key})
    BY <1>10 DEF EraseAt
  <2>2. FineAt(erase_from_bucket(this, b), Without(wanted, {m_buckets[b].key}), c)
    BY <1>2, <1>9, EraseAtFine
  <2>3. DOMAIN wanted' \subseteq Keys
    BY <1>1, <2>1, WithoutIs, Zenon
  <2> QED
    BY <1>2, <1>4, <2>1, <2>2, <2>3, StepInOrder
<1>11. ASSUME NEW first \in Places, NEW last \in Places \cup {m_bucket_count}, first < last,
              EraseRange(first, last)
       PROVE  InOrder'
  <2> DEFINE t == erase_range(this, first, last)
             K == {m_buckets[b].key : b \in Places \cap first..(last - 1)}
  <2>1. Becomes(t) /\ torn' = Torn(t.bs) /\ wanted' = Without(wanted, K) /\ UNCHANGED loads
    BY <1>11 DEF EraseRange
  <2>2. first \in 0..(c - 1) /\ last \in (first + 1)..c
    BY <1>9, <1>11
  <2>3. K = KeysAmong(m_buckets, first, last)
    <3>1. Places \cap first..(last - 1) = Among(m_buckets, first, last)
      BY <1>9, <2>2 DEF Among
    <3> QED
      BY <3>1 DEF KeysAmong
  <2> HIDE DEF K
  <2>4. KeptAt(t, Without(wanted, K), c) /\ (~ Torn(t.bs) => FineAt(t, Without(wanted, K), c))
    BY <1>2, <1>9, <2>2, <2>3, EraseRangeFine
  <2>5. DOMAIN wanted' \subseteq Keys
    BY <1>1, <2>1, WithoutIs, Zenon
  <2> HIDE DEF t
  <2> QED
    BY <1>2, <2>1, <2>4, <2>5, StepInOrder
<1>12. ASSUME SetLoadFactors PROVE InOrder'
  <2>1. m_max_load_factor' \in MaxLoads /\ m_min_load_factor' \in MinLoads
        /\ this' = this /\ wanted' = wanted /\ torn' = torn
    BY <1>12 DEF SetLoadFactors, this, Table
  <2>2. LoadFactors'
    BY <2>1 DEF LoadFactors, RobinConstants
  <2> QED
    BY <2>1, <2>2 DEF InOrder
<1> QED
  BY <1>5, <1>6, <1>7, <1>8, <1>10, <1>11, <1>12 DEF Change

LEMMA RestoreInOrder ==
  ASSUME RobinConstants, InOrder, Restore
  PROVE  InOrder'
<1>1. LoadFactors /\ DOMAIN wanted \subseteq Keys
  BY DEF InOrder
<1>2. PICK c \in Nat : KeptAt(this, wanted, c)
  BY DEF InOrder
<1>3. CASE Clear
  <2>1. Becomes(clear(this)) /\ wanted' = Without(wanted, Keys) /\ UNCHANGED loads
    BY <1>3 DEF Clear
  <2>2. DOMAIN wanted' = {}
    <3>1. DOMAIN Without(wanted, Keys) = DOMAIN wanted \ Keys
      BY WithoutIs
    <3> QED
      BY <1>1, <2>1, <3>1
  <2>3. FineAt(clear(this), wanted', c)
    BY <1>2, <2>2, ClearFine
  <2>4. KeptAt(clear(this), wanted', c)
    BY <2>3 DEF FineAt
  <2> QED
    BY <1>2, <2>1, <2>2, <2>3, <2>4, StepInOrder
<1>4. ASSUME NEW count \in 0..MaxBuckets, Rehash(count) PROVE InOrder'
  <2>1. Becomes(rehash(this, count)) /\ wanted' = wanted /\ UNCHANGED loads
    BY <1>4 DEF Rehash
  <2>2. count \in Nat
    OBVIOUS
  <2>3. PICK d \in Nat : FineAt(rehash(this, count), wanted, d)
    BY <1>1, <1>2, <2>2, RehashFine
  <2>4. KeptAt(rehash(this, count), wanted, d)
    BY <2>3 DEF FineAt
  <2> QED
    BY <1>1, <2>1, <2>3, <2>4, StepInOrder
<1>5. ASSUME NEW count \in 0..MaxBuckets, Reserve(count) PROVE InOrder'
  <2>1. Becomes(reserve(this, count)) /\ wanted' = wanted /\ UNCHANGED loads
    BY <1>5 DEF Reserve
  <2>2. count \in Nat
    OBVIOUS
  <2>3. PICK d \in Nat : FineAt(reserve(this, count), wanted, d)
    BY <1>1, <1>2, <2>2, ReserveFine
  <2>4. KeptAt(reserve(this, count), wanted, d)
    BY <2>3 DEF FineAt
  <2> QED
    BY <1>1, <2>1, <2>3, <2>4, StepInOrder
<1> QED
  BY <1>3, <1>4, <1>5 DEF Restore

LEMMA StaysInOrder == RobinConstants /\ InOrder /\ [Next]_vars => InOrder'
<1> SUFFICES ASSUME RobinConstants, InOrder, [Next]_vars PROVE InOrder'
  OBVIOUS
<1>1. CASE UNCHANGED vars
  <2>1. /\ this' = this /\ wanted' = wanted /\ torn' = torn
        /\ m_max_load_factor' = m_max_load_factor /\ m_min_load_factor' = m_min_load_factor
    BY <1>1 DEF vars, this
  <2> QED
    BY <2>1 DEF InOrder, LoadFactors
<1>2. CASE Next
  BY <1>2, ChangeInOrder, RestoreInOrder DEF Next
<1> QED
  BY <1>1, <1>2

(* A map stays in order: whatever is put in, taken out, grown or shrunk, and   *)
(* in every order, its table keeps exactly what its user wants, with a bucket *)
(* to spare, and as erase(first, last) alone can tear it, any rehash or clear *)
(* mends it.                                                                *)
THEOREM AlwaysInOrder ==
  ASSUME RobinConstants
  PROVE  Spec => []InOrder
<1>1. InOrder /\ [Next]_vars => InOrder'
  BY StaysInOrder
<1> QED
  BY <1>1, InitInOrder, PTL DEF Spec

LEMMA PlacesAre ==
  ASSUME NEW c, KeptAt(this, wanted, c)
  PROVE  /\ c \in Nat /\ this.bs = m_buckets /\ this.nb = m_nb_elements /\ m_bucket_count = c
         /\ m_buckets \in [0..(c - 1) -> Slots] /\ DOMAIN m_buckets = 0..(c - 1)
         /\ Places = Full(m_buckets, c)
<1>1. this.bs = m_buckets /\ this.nb = m_nb_elements
  BY DEF this, Table
<1>2. /\ c \in Nat /\ m_buckets \in [0..(c - 1) -> Slots] /\ DOMAIN m_buckets = 0..(c - 1)
      /\ Count(m_buckets) = c
  BY <1>1, KeptIs
<1>3. \A b \in 0..(c - 1) : empty(m_buckets[b]) <=> m_buckets[b] = Empty
  BY <1>2, SlotTypes
<1> QED
  BY <1>1, <1>2, <1>3 DEF Places, Full, m_bucket_count

LEMMA InOrderRoom == InOrder => AlwaysRoom
<1> SUFFICES ASSUME InOrder PROVE AlwaysRoom
  OBVIOUS
<1>1. PICK c \in Nat : KeptAt(this, wanted, c)
  BY DEF InOrder
<1>2. /\ this.bs = m_buckets /\ this.nb = m_nb_elements /\ m_bucket_count = c
      /\ Places = Full(m_buckets, c)
  BY <1>1, PlacesAre
<1>3. /\ Holds(m_buckets, c, wanted) /\ m_nb_elements = Cardinality(DOMAIN wanted)
      /\ (c # 0 => m_nb_elements < c)
  BY <1>1, <1>2 DEF KeptAt
<1>4. Cardinality(DOMAIN wanted) = Cardinality(Full(m_buckets, c))
  BY <1>3, OneEach
<1> QED
  BY <1>2, <1>3, <1>4, Zenon DEF AlwaysRoom

LEMMA InOrderHolds == RobinConstants /\ InOrder => HoldsWhatWasPut
<1> SUFFICES ASSUME RobinConstants, InOrder, ~ torn, NEW key \in Keys,
                    NEW p, p = find_impl(m_buckets, key)
             PROVE  /\ p.found <=> key \in DOMAIN wanted
                    /\ p.found => m_buckets[p.b].value = wanted[key]
  BY DEF HoldsWhatWasPut
<1>1. PICK c \in Nat : FineAt(this, wanted, c)
  BY DEF InOrder
<1>2. this.bs = m_buckets /\ key \in Nat
  BY DEF this, Table, RobinConstants
<1> QED
  BY <1>1, <1>2, Lookup

LEMMA InOrderChains == InOrder => ChainsUnbroken
<1> SUFFICES ASSUME InOrder, ~ torn, NEW b \in Places
             PROVE  LET e == m_buckets[b]
                        before == (b - 1) % m_bucket_count
                    IN  /\ e.dist = (b - bucket_for_hash(m_buckets, e.key)) % m_bucket_count
                        /\ e.dist <= m_buckets[before].dist + 1
                        /\ find_impl(m_buckets, e.key).b = b
  BY DEF ChainsUnbroken
<1> DEFINE e == m_buckets[b]
           before == (b - 1) % m_bucket_count
           home == bucket_for_hash(m_buckets, e.key)
<1>1. PICK c \in Nat : FineAt(this, wanted, c)
  BY DEF InOrder
<1>2. /\ this.bs = m_buckets /\ m_bucket_count = c /\ Places = Full(m_buckets, c)
      /\ m_buckets \in [0..(c - 1) -> Slots] /\ DOMAIN m_buckets = 0..(c - 1)
  BY <1>1, PlacesAre DEF FineAt
<1>3. b \in 0..(c - 1) /\ e # Empty /\ b \in Int
  BY <1>2 DEF Full
<1>4. c \in Nat \ {0}
  BY <1>3
<1>5. Sound(m_buckets, c) /\ Even(m_buckets, c) /\ Holds(m_buckets, c, wanted)
  BY <1>1, <1>2 DEF FineAt, KeptAt
<1>6. e \in Entries /\ e.dist = Dst(c, e.key, b)
  BY <1>2, <1>3, <1>5, SlotTypes DEF Sound
<1>7. e.key \in Nat /\ e.key \in Int
  BY <1>6, SlotTypes
<1>8. e.dist = (b - home) % m_bucket_count
  <2>1. home = Fwd(c, e.key, 0) /\ 0 \in Int
    BY <1>2, <1>4, Steps DEF bucket_for_hash
  <2>2. PICK d \in 0..(c - 1) : d = Dst(c, e.key, b)
    BY <1>3, <1>4, <1>7, InTurn
  <2>3. Fwd(c, e.key, d) = b /\ d \in Int /\ 0 + d = d
    BY <1>3, <1>4, <1>7, <2>2, FwdDst
  <2>4. home \in Int
    <3>1. home \in 0..(c - 1)
      BY <1>4, <1>7, <2>1, InTurn
    <3> QED
      BY <3>1
  <2>5. Fwd(c, Fwd(c, e.key, 0), d) = Fwd(c, e.key, 0 + d)
    BY <1>4, <1>7, <2>1, <2>3, FwdFwd
  <2>6. Fwd(c, home, d) = b
    BY <2>1, <2>3, <2>5
  <2>7. Dst(c, home, Fwd(c, home, d)) = d
    BY <1>4, <2>4, DstFwd
  <2> QED
    BY <1>2, <1>6, <2>2, <2>6, <2>7, Zenon DEF Dst, Mod
<1>9. e.dist <= m_buckets[before].dist + 1
  <2>1. PICK m \in Int : m = -1 /\ b + m = b - 1 /\ m + 1 = 0
    BY <1>3
  <2>2. before = Fwd(c, b, m)
    BY <1>2, <2>1, Zenon DEF Fwd, Mod
  <2>3. Fwd(c, Fwd(c, b, m), 1) = Fwd(c, b, m + 1) /\ Fwd(c, b, m) \in 0..(c - 1)
    BY <1>3, <1>4, <2>1, FwdFwd, InTurn
  <2>4. Fwd(c, before, 1) = b /\ before \in 0..(c - 1)
    BY <1>3, <1>4, <2>1, <2>2, <2>3, Round
  <2> HIDE DEF before
  <2> QED
    BY <1>5, <2>4 DEF Even
<1>10. find_impl(m_buckets, e.key).b = b
  <2>1. PICK p : p = find_impl(m_buckets, e.key)
    OBVIOUS
  <2>2. e.key \in DOMAIN wanted
    BY <1>3, <1>5 DEF Holds
  <2>3. /\ (p.found <=> e.key \in DOMAIN wanted)
        /\ p.found => /\ p.b \in 0..(c - 1) /\ m_buckets[p.b] # Empty
                      /\ m_buckets[p.b].key = e.key
    BY <1>1, <1>2, <1>7, <2>1, Lookup
  <2>4. p.b = b
    BY <1>3, <1>5, <2>2, <2>3 DEF Holds
  <2> QED
    BY <2>1, <2>4
<1> QED
  BY <1>8, <1>9, <1>10

(* There is always an empty bucket to end a search and to take what an         *)
(* insertion carries on, for any load factors below 1 and any operations.     *)
THEOREM RoomAlways ==
  ASSUME RobinConstants
  PROVE  Spec => []AlwaysRoom
BY AlwaysInOrder, InOrderRoom, PTL

(* Runs are unbroken, around the end of the table too: each value is as far    *)
(* from its ideal bucket as it says, at most one farther than the one before  *)
(* it, and find_impl ends at it.                                            *)
THEOREM ChainsHold ==
  ASSUME RobinConstants
  PROVE  Spec => []ChainsUnbroken
BY AlwaysInOrder, InOrderChains, PTL

(* It is a map: find gets to the keys put in and not taken out, each with its  *)
(* value, and to no others, for all keys, values, load factors and limits.    *)
THEOREM HoldsPut ==
  ASSUME RobinConstants
  PROVE  Spec => []HoldsWhatWasPut
<1>1. InOrder => HoldsWhatWasPut
  BY InOrderHolds
<1> QED
  BY <1>1, AlwaysInOrder, PTL
=============================================================================
