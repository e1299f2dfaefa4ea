---------------------------- MODULE WrapperProofs ----------------------------
(***************************************************************************)
(* What a competitor answers about a key of the data, for every dataset and    *)
(* every scale: a window that holds the first row of the key and is no wider   *)
(* than the scale makes it.                                                 *)
(***************************************************************************)
EXTENDS ListLookup, Foundations

(* The keys of a dataset, and the pairs that Build is given.                 *)
KeyType == 0 .. KeyRange - 1

Dataset(ks) ==
  /\ ks \in Seq(KeyType) /\ Len(ks) \in 1 .. RowRange - 1
  /\ \A i, j \in 1 .. Len(ks) : i <= j => ks[i] <= ks[j]

Distinct(ks) == \A i, j \in DOMAIN ks : ks[i] = ks[j] => i = j

PairsOf(ks) == [i \in DOMAIN ks |-> [key |-> ks[i], val |-> i - 1]]

Entry == [key : KeyType, val : Nat]

(* A dictionary keeps the pairs of the rows in V, in order.                  *)
Keeps(e, ks, V) ==
  /\ V \subseteq 0 .. Len(ks) - 1
  /\ e \in Seq(Entry)
  /\ \A k \in 1 .. Len(e) : e[k].val \in V /\ e[k].key = ks[e[k].val + 1]
  /\ \A v \in V : \E k \in 1 .. Len(e) : e[k].val = v
  /\ \A k, l \in 1 .. Len(e) : k < l => e[k].val < e[l].val

USE ListLookupAssumption

LEMMA DatasetTyped ==
  ASSUME NEW ks, Dataset(ks)
  PROVE  /\ Len(ks) \in Nat /\ 1 <= Len(ks) /\ Len(ks) < RowRange
         /\ DOMAIN ks = 1 .. Len(ks)
         /\ KeyRange \in Nat /\ RowRange \in Nat
         /\ \A i \in 1 .. Len(ks) : ks[i] \in Nat /\ ks[i] < KeyRange
         /\ PairsOf(ks) \in Seq(Entry) /\ Len(PairsOf(ks)) = Len(ks)
         /\ \A i \in 1 .. Len(ks) : PairsOf(ks)[i] = [key |-> ks[i], val |-> i - 1]
<1>1. /\ Len(ks) \in Nat /\ 1 <= Len(ks) /\ Len(ks) < RowRange
      /\ DOMAIN ks = 1 .. Len(ks) /\ RowRange \in Nat /\ KeyRange \in Nat
      /\ \A i \in 1 .. Len(ks) : ks[i] \in KeyType
  BY DEF Dataset
<1>2. \A i \in 1 .. Len(ks) : ks[i] \in Nat /\ ks[i] < KeyRange
  BY <1>1 DEF KeyType
<1>3. \A i \in 1 .. Len(ks) : [key |-> ks[i], val |-> i - 1] \in Entry
  BY <1>1 DEF Entry
<1>4. PairsOf(ks) \in [1 .. Len(ks) -> Entry]
  BY <1>1, <1>3 DEF PairsOf
<1>5. ASSUME NEW m \in Nat, NEW g \in [1 .. m -> Entry]
      PROVE  g \in Seq(Entry) /\ Len(g) = m
  OBVIOUS
<1>6. \A i \in 1 .. Len(ks) : PairsOf(ks)[i] = [key |-> ks[i], val |-> i - 1]
  BY <1>1 DEF PairsOf
<1> QED
  BY <1>1, <1>2, <1>4, <1>5, <1>6

(* What is selected from the pairs is kept.                                 *)
LEMMA SelectedKept ==
  ASSUME NEW ks, Dataset(ks), NEW P, P \subseteq 1 .. Len(ks)
  PROVE  Keeps(PairsAt(PairsOf(ks), P), ks, {i - 1 : i \in P})
<1> DEFINE s == PairsOf(ks)
           e == PairsAt(s, P)
           m == Cardinality(P)
           V == {i - 1 : i \in P}
<1>1. /\ s \in Seq(Entry) /\ DOMAIN s = 1 .. Len(ks) /\ Len(ks) \in Nat
      /\ \A i \in P : i \in Nat /\ s[i].key = ks[i] /\ s[i].val = i - 1
  <2>1. /\ s \in Seq(Entry) /\ DOMAIN s = 1 .. Len(ks) /\ Len(ks) \in Nat
        /\ \A i \in 1 .. Len(ks) : s[i] = [key |-> ks[i], val |-> i - 1]
    BY DatasetTyped DEF PairsOf
  <2> HIDE DEF s
  <2> QED
    BY <2>1
<1>2. /\ IsFiniteSet(P) /\ m \in Nat /\ e \in Seq(Entry) /\ Len(e) = m
      /\ \A k \in 1 .. m : \E i \in P : Rank(P, i) = k /\ e[k] = s[i]
  <2>1. ASSUME NEW t \in Seq(Entry), P \subseteq DOMAIN t
        PROVE  /\ IsFiniteSet(P)
               /\ PairsAt(t, P) \in Seq(Entry) /\ Len(PairsAt(t, P)) = Cardinality(P)
               /\ \A k \in 1 .. Cardinality(P) :
                    \E i \in P : Rank(P, i) = k /\ PairsAt(t, P)[k] = t[i]
    BY <2>1, KeptPairs
  <2>2. P \subseteq DOMAIN s /\ s \in Seq(Entry)
    BY <1>1
  <2> HIDE DEF s
  <2>3. /\ IsFiniteSet(P)
        /\ PairsAt(s, P) \in Seq(Entry) /\ Len(PairsAt(s, P)) = Cardinality(P)
        /\ \A k \in 1 .. Cardinality(P) :
             \E i \in P : Rank(P, i) = k /\ PairsAt(s, P)[k] = s[i]
    BY <2>1, <2>2
  <2> QED
    BY <2>3, FS_CardinalityType
<1> HIDE DEF s, e, m, V
<1>3. \A k \in 1 .. m : \E i \in P : Rank(P, i) = k /\ e[k].key = ks[i] /\ e[k].val = i - 1
  <2> SUFFICES ASSUME NEW k \in 1 .. m
               PROVE  \E i \in P : Rank(P, i) = k /\ e[k].key = ks[i] /\ e[k].val = i - 1
    OBVIOUS
  <2>1. PICK i \in P : Rank(P, i) = k /\ e[k] = s[i]
    BY <1>2
  <2> QED
    BY <1>1, <2>1
<1>4. V \subseteq 0 .. Len(ks) - 1
  BY <1>1 DEF V
<1>5. ASSUME NEW k \in 1 .. m PROVE e[k].val \in V /\ e[k].key = ks[e[k].val + 1]
  <2>1. PICK i \in P : e[k].key = ks[i] /\ e[k].val = i - 1
    BY <1>3
  <2>2. i \in Nat /\ i - 1 + 1 = i
    BY <1>1
  <2> QED
    BY <2>1, <2>2 DEF V
<1>6. /\ \A i \in P : Rank(P, i) \in 1 .. m
      /\ \A i, j \in P : i < j => Rank(P, i) < Rank(P, j)
  BY <1>1, <1>2, RankedPlaces DEF m
<1>7. \A i, j \in P : Rank(P, i) = Rank(P, j) => i = j
  <2> SUFFICES ASSUME NEW i \in P, NEW j \in P, Rank(P, i) = Rank(P, j), i # j
               PROVE  FALSE
    OBVIOUS
  <2>1. i \in Nat /\ j \in Nat /\ Rank(P, i) \in Nat /\ (i < j \/ j < i)
    BY <1>1, <1>2, <1>6
  <2> QED
    BY <1>6, <2>1
<1>8. ASSUME NEW i \in P PROVE \E k \in 1 .. m : e[k].val = i - 1
  <2>1. PICK j \in P : Rank(P, j) = Rank(P, i) /\ e[Rank(P, i)].val = j - 1
    BY <1>3, <1>6
  <2> QED
    BY <1>6, <1>7, <2>1
<1>9. ASSUME NEW k \in 1 .. m, NEW l \in 1 .. m, k < l
      PROVE  e[k].val < e[l].val
  <2>1. PICK i \in P : Rank(P, i) = k /\ e[k].val = i - 1
    BY <1>3
  <2>2. PICK j \in P : Rank(P, j) = l /\ e[l].val = j - 1
    BY <1>3
  <2>3. i \in Nat /\ j \in Nat /\ k \in Nat /\ l \in Nat
    BY <1>1, <1>2
  <2>4. ~ (j < i) /\ i # j
    BY <1>6, <1>9, <2>1, <2>2, <2>3
  <2> QED
    BY <2>1, <2>2, <2>3, <2>4
<1>10. Keeps(e, ks, V)
  <2>1. \A v \in V : \E k \in 1 .. m : e[k].val = v
    BY <1>8 DEF V
  <2> QED
    BY <1>2, <1>4, <1>5, <1>9, <2>1 DEF Keeps
<1> QED
  BY <1>10 DEF e, s, V
-----------------------------------------------------------------------------
(* lower_bound returns the first entry not less than the key, or the end.     *)
LEMMA AtLeastFinds ==
  ASSUME NEW entries, Len(entries) \in Nat, NEW key \in Int,
         \A i \in 1 .. Len(entries) : entries[i].key \in Int
  PROVE  /\ AtLeast(entries, key) \in 1 .. Len(entries) + 1
         /\ \A j \in 1 .. Len(entries) :
              j < AtLeast(entries, key) => entries[j].key < key
         /\ AtLeast(entries, key) <= Len(entries) =>
              entries[AtLeast(entries, key)].key >= key
<1> DEFINE n == Len(entries)
           T == {i \in 1 .. n + 1 : i <= n => entries[i].key >= key}
<1>1. T \subseteq Nat /\ n + 1 \in T
  OBVIOUS
<1>2. PICK t \in T : \A y \in T : t <= y
  <2> HIDE DEF T
  <2> QED
    BY <1>1, LeastNatural
<1>3. \A j \in 1 .. t - 1 : entries[j].key < key
  <2> SUFFICES ASSUME NEW j \in 1 .. t - 1 PROVE entries[j].key < key
    OBVIOUS
  <2>1. j \in 1 .. n /\ j < t
    BY <1>2
  <2>2. j \notin T
    BY <1>2, <2>1
  <2> QED
    BY <2>1, <2>2
<1>4. t \in 1 .. n + 1 /\ (t <= n => entries[t].key >= key)
  BY <1>2
<1> DEFINE Found(i) == /\ \A j \in 1 .. i - 1 : entries[j].key < key
                       /\ i <= n => entries[i].key >= key
<1>5. AtLeast(entries, key) \in 1 .. n + 1 /\ Found(AtLeast(entries, key))
  <2>1. t \in 1 .. n + 1 /\ Found(t)
    BY <1>3, <1>4
  <2>2. AtLeast(entries, key) = CHOOSE i \in 1 .. n + 1 : Found(i)
    BY DEF AtLeast
  <2> HIDE DEF Found, n
  <2> QED
    BY <2>1, <2>2
<1>6. \A j \in 1 .. n : j < AtLeast(entries, key) => j \in 1 .. AtLeast(entries, key) - 1
  BY <1>5
<1> QED
  BY <1>5, <1>6

(* Row f is the first of its key.                                           *)
FirstOf(ks, f) ==
  /\ f \in 0 .. Len(ks) - 1
  /\ \A q \in 0 .. f - 1 : ks[q + 1] # ks[f + 1]

LEMMA RowsOrdered ==
  ASSUME NEW ks, Dataset(ks), NEW f, FirstOf(ks, f), NEW r \in 0 .. Len(ks) - 1
  PROVE  /\ f \in Nat /\ r \in Nat /\ ks[f + 1] \in Nat /\ ks[r + 1] \in Nat
         /\ f <= r <=> ks[f + 1] <= ks[r + 1]
<1>1. /\ Len(ks) \in Nat /\ f \in Nat /\ r \in Nat
      /\ f + 1 \in 1 .. Len(ks) /\ r + 1 \in 1 .. Len(ks)
      /\ ks[f + 1] \in Nat /\ ks[r + 1] \in Nat
  BY DatasetTyped DEF FirstOf
<1>2. ASSUME f <= r PROVE ks[f + 1] <= ks[r + 1]
  BY <1>1, <1>2 DEF Dataset
<1>3. ASSUME r < f PROVE ks[r + 1] < ks[f + 1]
  <2>1. ks[r + 1] <= ks[f + 1]
    BY <1>1, <1>3 DEF Dataset
  <2>2. ks[r + 1] # ks[f + 1]
    BY <1>1, <1>3 DEF FirstOf
  <2> QED
    BY <1>1, <2>1, <2>2
<1> QED
  BY <1>1, <1>2, <1>3

(* How far behind the first row of a key a dictionary's guess for it may be:   *)
(* less than `sc` rows, if it keeps a row that near or the data end there.     *)
LEMMA GuessNear ==
  ASSUME NEW ks, Dataset(ks), NEW f, FirstOf(ks, f),
         NEW e, NEW V, Keeps(e, ks, V), NEW sc \in Nat \ {0},
         \/ \E v \in V : f <= v /\ v < f + sc
         \/ Len(ks) <= f + sc
  PROVE  LET at == AtLeast(e, ks[f + 1])
             g == IF at > Len(e) THEN Len(ks) - 1 ELSE e[at].val
         IN  /\ at \in 1 .. Len(e) + 1
             /\ g \in Nat /\ f <= g /\ g < f + sc /\ g < Len(ks)
             /\ (\E v \in V : f <= v) => at <= Len(e)
             /\ \A j \in 1 .. Len(e) : j < at => e[j].val < f
<1> DEFINE at == AtLeast(e, ks[f + 1])
           m == Len(e)
           n == Len(ks)
           g == IF at > m THEN n - 1 ELSE e[at].val
<1>1. /\ n \in Nat /\ 1 <= n /\ f \in Nat /\ f < n /\ m \in Nat
      /\ ks[f + 1] \in Nat
  BY DatasetTyped, RowsOrdered DEF Keeps, FirstOf
<1>2. \A k \in 1 .. m : /\ e[k].val \in Nat /\ e[k].val < n /\ e[k].val \in V
                        /\ e[k].key = ks[e[k].val + 1] /\ e[k].key \in Nat
                        /\ e[k].val \in 0 .. n - 1
  <2> SUFFICES ASSUME NEW k \in 1 .. m
               PROVE  /\ e[k].val \in Nat /\ e[k].val < n /\ e[k].val \in V
                      /\ e[k].key = ks[e[k].val + 1] /\ e[k].key \in Nat
                      /\ e[k].val \in 0 .. n - 1
    OBVIOUS
  <2>1. e[k].val \in V /\ e[k].val \in 0 .. n - 1 /\ e[k].key = ks[e[k].val + 1]
    BY DEF Keeps
  <2>2. e[k].key \in Nat
    BY <2>1, RowsOrdered
  <2> QED
    BY <1>1, <2>1, <2>2
<1>3. \A k \in 1 .. m : f <= e[k].val <=> ks[f + 1] <= e[k].key
  <2>1. \A r \in 0 .. n - 1 : f <= r <=> ks[f + 1] <= ks[r + 1]
    BY RowsOrdered
  <2> QED
    BY <1>2, <2>1
<1>4. /\ at \in 1 .. m + 1
      /\ \A j \in 1 .. m : j < at => e[j].key < ks[f + 1]
      /\ at <= m => e[at].key >= ks[f + 1]
  <2>1. ks[f + 1] \in Int /\ \A k \in 1 .. m : e[k].key \in Int
    BY <1>1, <1>2
  <2> QED
    BY <1>1, <2>1, AtLeastFinds
<1> HIDE DEF at, m, n
<1>5. at \in Nat /\ 1 <= at /\ (at <= m => at \in 1 .. m)
  BY <1>1, <1>4
<1>6. \A j \in 1 .. m : j < at => e[j].val < f
  BY <1>1, <1>2, <1>3, <1>4
<1>7. at <= m => f <= e[at].val
  BY <1>2, <1>3, <1>4, <1>5
<1>8. ASSUME NEW v \in V, f <= v
      PROVE  at <= m /\ e[at].val <= v
  <2>1. PICK k \in 1 .. m : e[k].val = v
    BY DEF Keeps, m
  <2>2. k \in Nat /\ k <= m /\ v \in Nat
    BY <1>1, <1>2, <2>1
  <2>3. ~ (k < at)
    BY <1>1, <1>6, <1>8, <2>1, <2>2
  <2>4. at <= m /\ (at = k \/ at < k)
    BY <1>1, <1>5, <2>2, <2>3
  <2>5. at < k => e[at].val < e[k].val
    BY <1>5, <2>4 DEF Keeps, m
  <2> QED
    BY <1>2, <1>5, <2>1, <2>2, <2>4, <2>5
<1>9. g \in Nat /\ f <= g /\ g < n
  BY <1>1, <1>2, <1>5, <1>7
<1>10. g < f + sc
  <2>1. CASE \E v \in V : f <= v /\ v < f + sc
    <3>1. PICK v \in V : f <= v /\ v < f + sc
      BY <2>1
    <3>2. at <= m /\ g = e[at].val /\ e[at].val <= v
      BY <1>1, <1>5, <1>8, <3>1
    <3>3. v \in Nat
      BY <1>1 DEF Keeps, n
    <3> QED
      BY <1>1, <1>9, <3>1, <3>2, <3>3
  <2>2. CASE n <= f + sc
    BY <1>1, <1>9, <2>2
  <2> QED
    BY <2>1, <2>2 DEF n
<1>11. (\E v \in V : f <= v) => at <= m
  BY <1>8
<1> QED
  BY <1>4, <1>6, <1>9, <1>10, <1>11 DEF at, m, n
-----------------------------------------------------------------------------
(* Multiples of the scale, the rows that sampling keeps.                     *)
LEMMA MultipleNear ==
  ASSUME NEW sc \in Nat \ {0}, NEW f \in Nat
  PROVE  \E v \in Nat : v % sc = 0 /\ f <= v /\ v < f + sc
<1>1. f % sc \in 0 .. sc - 1 /\ f = sc * (f \div sc) + (f % sc) /\ f \div sc \in Nat
  OBVIOUS
<1>2. \A q \in Nat : (sc * q) % sc = 0 /\ sc * q \in Nat
  OBVIOUS
<1>3. CASE f % sc = 0
  BY <1>3
<1>4. CASE f % sc # 0
  <2>1. sc * (f \div sc + 1) = sc * (f \div sc) + sc
    BY <1>1
  <2>2. sc * (f \div sc + 1) \in Nat /\ (sc * (f \div sc + 1)) % sc = 0
    BY <1>1, <1>2
  <2>3. f % sc \in Nat /\ 1 <= f % sc /\ f % sc < sc
    BY <1>1, <1>4
  <2>4. f <= sc * (f \div sc + 1) /\ sc * (f \div sc + 1) < f + sc
    BY <1>1, <2>1, <2>3
  <2> QED
    BY <2>2, <2>4
<1> QED
  BY <1>3, <1>4

LEMMA SmallMod ==
  ASSUME NEW x \in Nat, NEW y \in Nat, x < y
  PROVE  x % y = x
<1>1. y \in Nat \ {0}
  OBVIOUS
<1>2. x % y \in 0 .. y - 1 /\ x = y * (x \div y) + (x % y) /\ x \div y \in Nat
  BY <1>1
<1>3. \A q \in Nat : q # 0 => y * q >= y
  BY <1>1
<1>4. x \div y = 0
  BY <1>1, <1>2, <1>3
<1>5. y * (x \div y) = 0
  BY <1>1, <1>4
<1> QED
  BY <1>2, <1>5

LEMMA MultiplesApart ==
  ASSUME NEW sc \in Nat \ {0}, NEW v \in Nat, v % sc = 0
  PROVE  /\ (v + sc) % sc = 0
         /\ \A w \in Nat : w % sc = 0 /\ v < w => v + sc <= w
<1>1. \A w \in Nat : w % sc = 0 => w = sc * (w \div sc) /\ w \div sc \in Nat
  OBVIOUS
<1>2. v = sc * (v \div sc) /\ v \div sc \in Nat
  BY <1>1
<1>3. (v + sc) % sc = 0
  <2>1. v + sc = sc * (v \div sc + 1)
    BY <1>2
  <2>2. \A q \in Nat : (sc * q) % sc = 0
    OBVIOUS
  <2>3. v \div sc + 1 \in Nat
    BY <1>2
  <2> QED
    BY <2>1, <2>2, <2>3
<1>4. ASSUME NEW w \in Nat, w % sc = 0, v < w
      PROVE  v + sc <= w
  <2>1. w = sc * (w \div sc) /\ w \div sc \in Nat
    BY <1>1, <1>4
  <2>2. \A a, b \in Nat : sc * a < sc * b => a + 1 <= b
    OBVIOUS
  <2>3. v \div sc + 1 <= w \div sc
    BY <1>2, <1>4, <2>1, <2>2
  <2>4. \A a, b \in Nat : a <= b => sc * a <= sc * b
    OBVIOUS
  <2>5. sc * (v \div sc + 1) <= sc * (w \div sc)
    BY <1>2, <2>1, <2>3, <2>4
  <2>6. sc * (v \div sc + 1) = v + sc
    BY <1>2
  <2> QED
    BY <2>1, <2>5, <2>6
<1> QED
  BY <1>3, <1>4
-----------------------------------------------------------------------------
(* The rows that Build keeps of a dataset.                                   *)
Multiples(ks, sc) == {v \in 0 .. Len(ks) - 1 : v % sc = 0}

FirstRows(ks) == {f \in 0 .. Len(ks) - 1 : FirstOf(ks, f)}

LastRows(ks) ==
  {v \in 0 .. Len(ks) - 1 : \A q \in v + 1 .. Len(ks) - 1 : ks[q + 1] # ks[v + 1]}

KeptRows(c, ks) ==
  CASE c.kind \in {"BTree", "ALEX", "FST", "Wormhole"} -> Multiples(ks, c.scale)
    [] c.kind = "ART" ->
         IF ks[1] = KeyRange - 1 THEN {} ELSE Multiples(ks, c.scale)
    [] c.kind = "IBTree" -> Multiples(ks, c.scale) \cup {Len(ks) - 1}
    [] c.kind \in {"PGM", "RobinHash"} -> FirstRows(ks)
    [] c.kind = "CuckooMap" -> LastRows(ks)

LEMMA RowsOfPlaces ==
  ASSUME NEW n \in Nat, NEW T, T \subseteq 0 .. n - 1
  PROVE  {i - 1 : i \in {j \in 1 .. n : j - 1 \in T}} = T
<1> DEFINE P == {j \in 1 .. n : j - 1 \in T}
<1>1. ASSUME NEW v \in T PROVE v + 1 \in P /\ v + 1 - 1 = v
  <2>1. v \in Nat /\ v + 1 \in 1 .. n /\ v + 1 - 1 = v
    OBVIOUS
  <2> QED
    BY <2>1
<1>2. \A i \in P : i - 1 \in T
  OBVIOUS
<1> HIDE DEF P
<1>3. {i - 1 : i \in P} = T
  <2>1. {i - 1 : i \in P} \subseteq T
    BY <1>2
  <2>2. T \subseteq {i - 1 : i \in P}
    BY <1>1
  <2> QED
    BY <2>1, <2>2
<1> QED
  BY <1>3 DEF P

LEMMA SampledKept ==
  ASSUME NEW ks, Dataset(ks), NEW sc \in Nat \ {0}
  PROVE  /\ Keeps(ByValue(PairsOf(ks), sc), ks, Multiples(ks, sc))
         /\ Keeps(ByPlace(PairsOf(ks), sc), ks, Multiples(ks, sc))
         /\ Keeps(WithLast(PairsOf(ks), sc), ks, Multiples(ks, sc) \cup {Len(ks) - 1})
<1> DEFINE n == Len(ks)
           P == {i \in 1 .. n : i - 1 \in Multiples(ks, sc)}
           Q == {i \in 1 .. n : i - 1 \in Multiples(ks, sc) \cup {n - 1}}
<1>1. /\ n \in Nat /\ 1 <= n /\ DOMAIN PairsOf(ks) = 1 .. n /\ Len(PairsOf(ks)) = n
      /\ \A i \in 1 .. n : PairsOf(ks)[i].val = i - 1
  <2>1. DOMAIN PairsOf(ks) = DOMAIN ks
    BY DEF PairsOf
  <2>2. \A i \in 1 .. n : PairsOf(ks)[i] = [key |-> ks[i], val |-> i - 1]
    BY DatasetTyped
  <2>3. ASSUME NEW i \in 1 .. n PROVE PairsOf(ks)[i].val = i - 1
    <3>1. PairsOf(ks)[i] = [key |-> ks[i], val |-> i - 1]
      BY <2>2
    <3> QED
      BY <3>1
  <2>4. n \in Nat /\ 1 <= n /\ DOMAIN ks = 1 .. n /\ Len(PairsOf(ks)) = n
    BY DatasetTyped
  <2> QED
    BY <2>1, <2>3, <2>4
<1>2. /\ Multiples(ks, sc) \subseteq 0 .. n - 1
      /\ Multiples(ks, sc) \cup {n - 1} \subseteq 0 .. n - 1
  BY <1>1 DEF Multiples
<1>3. {i - 1 : i \in P} = Multiples(ks, sc)
      /\ {i - 1 : i \in Q} = Multiples(ks, sc) \cup {n - 1}
  <2> HIDE DEF n
  <2> QED
    BY <1>1, <1>2, RowsOfPlaces
<1>4. \A i \in 1 .. n : i - 1 \in Multiples(ks, sc) <=> (i - 1) % sc = 0
  BY <1>1 DEF Multiples
<1>5. ByValue(PairsOf(ks), sc) = PairsAt(PairsOf(ks), P)
  <2>1. {i \in DOMAIN PairsOf(ks) : PairsOf(ks)[i].val % sc = 0} = P
    BY <1>1, <1>4
  <2> QED
    BY <2>1 DEF ByValue
<1>6. ByPlace(PairsOf(ks), sc) = PairsAt(PairsOf(ks), P)
  <2>1. {i \in DOMAIN PairsOf(ks) : (i - 1) % sc = 0} = P
    BY <1>1, <1>4
  <2> QED
    BY <2>1 DEF ByPlace
<1>7. WithLast(PairsOf(ks), sc) = PairsAt(PairsOf(ks), Q)
  <2>1. \A i \in 1 .. n : i = n <=> i - 1 = n - 1
    BY <1>1
  <2>2. {i \in DOMAIN PairsOf(ks) : (i - 1) % sc = 0 \/ i = n} = Q
    BY <1>1, <1>4, <2>1
  <2> QED
    BY <1>1, <2>2 DEF WithLast
<1>8. P \subseteq 1 .. n /\ Q \subseteq 1 .. n
  OBVIOUS
<1>9. /\ Keeps(PairsAt(PairsOf(ks), P), ks, {i - 1 : i \in P})
      /\ Keeps(PairsAt(PairsOf(ks), Q), ks, {i - 1 : i \in Q})
  <2> HIDE DEF P, Q
  <2> QED
    BY <1>8, SelectedKept
<1> QED
  BY <1>3, <1>5, <1>6, <1>7, <1>9

(* ART drops what repeats the key before it: with unique keys that is nothing  *)
(* but a first pair with the largest key there is.                          *)
LEMMA ArtKept ==
  ASSUME NEW ks, Dataset(ks), Distinct(ks), NEW sc \in Nat \ {0}
  PROVE  Keeps(ArtPairs(PairsOf(ks), sc), ks,
               IF ks[1] = KeyRange - 1 THEN {} ELSE Multiples(ks, sc))
<1> DEFINE placed == [i \in DOMAIN PairsOf(ks) |->
                        [key |-> PairsOf(ks)[i].key, val |-> i - 1]]
           one == ByPlace(placed, sc)
           Before(i) == IF i = 1 THEN KeyRange - 1 ELSE one[i - 1].key
           P == {i \in DOMAIN one : one[i].key # Before(i)}
<1>1. ArtPairs(PairsOf(ks), sc) = PairsAt(one, P)
  BY DEF ArtPairs
<1>2. placed = PairsOf(ks)
  <2>1. /\ DOMAIN PairsOf(ks) = DOMAIN ks
        /\ \A i \in DOMAIN ks : PairsOf(ks)[i].key = ks[i]
    BY DEF PairsOf
  <2>2. placed = [i \in DOMAIN ks |-> [key |-> ks[i], val |-> i - 1]]
    BY <2>1
  <2> QED
    BY <2>2 DEF PairsOf
<1>3. Keeps(one, ks, Multiples(ks, sc))
  BY <1>2, SampledKept
<1> HIDE DEF placed, one
<1>4. /\ one \in Seq(Entry) /\ Len(one) \in Nat /\ DOMAIN one = 1 .. Len(one)
      /\ \A k \in 1 .. Len(one) : one[k].val \in 0 .. Len(ks) - 1
                                  /\ one[k].key = ks[one[k].val + 1]
      /\ \A k, l \in 1 .. Len(one) : k < l => one[k].val < one[l].val
  BY <1>3 DEF Keeps
<1>5. Len(ks) \in Nat /\ 1 <= Len(ks) /\ DOMAIN ks = 1 .. Len(ks)
      /\ \A i \in 1 .. Len(ks) : ks[i] \in Nat /\ ks[i] < KeyRange /\ ks[1] <= ks[i]
  <2>1. \A i \in 1 .. Len(ks) : 1 <= i => ks[1] <= ks[i]
    BY DatasetTyped DEF Dataset
  <2> QED
    BY <2>1, DatasetTyped
<1>6. \A k \in 2 .. Len(one) : one[k].key # one[k - 1].key
  <2> SUFFICES ASSUME NEW k \in 2 .. Len(one) PROVE one[k].key # one[k - 1].key
    OBVIOUS
  <2>1. k \in 1 .. Len(one) /\ k - 1 \in 1 .. Len(one) /\ k - 1 < k
    BY <1>4
  <2>2. /\ one[k].val + 1 \in 1 .. Len(ks) /\ one[k - 1].val + 1 \in 1 .. Len(ks)
        /\ one[k].val + 1 # one[k - 1].val + 1
        /\ one[k].key = ks[one[k].val + 1]
        /\ one[k - 1].key = ks[one[k - 1].val + 1]
    <3>1. /\ one[k].val \in 0 .. Len(ks) - 1 /\ one[k - 1].val \in 0 .. Len(ks) - 1
          /\ one[k - 1].val < one[k].val
          /\ one[k].key = ks[one[k].val + 1]
          /\ one[k - 1].key = ks[one[k - 1].val + 1]
      BY <1>4, <2>1
    <3>2. \A x \in 0 .. Len(ks) - 1 : x \in Nat /\ x + 1 \in 1 .. Len(ks)
      BY <1>5
    <3>3. \A x, y \in Nat : x < y => y + 1 # x + 1
      OBVIOUS
    <3> QED
      BY <3>1, <3>2, <3>3
  <2> QED
    BY <1>5, <2>2 DEF Distinct
<1>7. CASE ks[1] # KeyRange - 1
  <2>1. ASSUME NEW k \in DOMAIN one PROVE one[k].key # Before(k)
    <3>1. CASE k # 1
      BY <1>4, <1>6, <3>1
    <3>2. CASE k = 1
      <4>1. \E l \in 1 .. Len(one) : one[l].val = 0
        <5>1. 0 \in Multiples(ks, sc)
          BY <1>5 DEF Multiples
        <5> QED
          BY <1>3, <5>1 DEF Keeps
      <4>2. one[1].val = 0 /\ one[1].key = ks[1]
        BY <1>4, <3>2, <4>1
      <4> QED
        BY <1>7, <3>2, <4>2
    <3> QED
      BY <3>1, <3>2
  <2>2. P = DOMAIN one
    BY <2>1
  <2>3. PairsAt(one, P) = one
    BY <1>4, <2>2, AllPlaces
  <2> QED
    BY <1>1, <1>3, <1>7, <2>3
<1>8. CASE ks[1] = KeyRange - 1
  <2>1. \A i \in 1 .. Len(ks) : ks[i] = ks[1]
    BY <1>5, <1>8
  <2>2. Len(ks) = 1
    BY <1>5, <2>1 DEF Distinct
  <2>3. \A k \in 1 .. Len(one) : one[k].val = 0 /\ one[k].key = KeyRange - 1
    BY <1>4, <1>8, <2>2
  <2>4. \A k \in 1 .. Len(one) : k = 1
    BY <1>4, <2>3
  <2>5. P = {}
    BY <1>4, <2>3, <2>4
  <2>6. PairsAt(one, P) = <<>>
    <3>1. Cardinality(P) = 0
      BY <2>5, FS_EmptySet
    <3>2. PairsAt(one, P) \in Seq(Entry) /\ Len(PairsAt(one, P)) = Cardinality(P)
      <4>1. P \subseteq DOMAIN one
        OBVIOUS
      <4> HIDE DEF P
      <4> QED
        BY <1>4, <4>1, KeptPairs
    <3> QED
      BY <3>1, <3>2
  <2>7. Keeps(<<>>, ks, {})
    BY <1>5 DEF Keeps
  <2> QED
    BY <1>1, <1>8, <2>6, <2>7
<1> QED
  BY <1>7, <1>8

(* Hash maps and PGM keep the first row of each key, the cuckoo map the last.  *)
LEMMA OnePerKeyKept ==
  ASSUME NEW ks, Dataset(ks)
  PROVE  /\ Keeps(FirstOfKey(PairsOf(ks)), ks, FirstRows(ks))
         /\ Keeps(LastOfKey(PairsOf(ks)), ks, LastRows(ks))
<1> DEFINE n == Len(ks)
           s == PairsOf(ks)
           P == {i \in 1 .. n : i - 1 \in FirstRows(ks)}
           Q == {i \in 1 .. n : i - 1 \in LastRows(ks)}
<1>1. /\ n \in Nat /\ DOMAIN s = 1 .. n /\ Len(s) = n
      /\ \A i \in 1 .. n : s[i].key = ks[i]
  <2>1. n \in Nat /\ DOMAIN ks = 1 .. n /\ Len(s) = n
    BY DatasetTyped
  <2>2. ASSUME NEW i \in 1 .. n PROVE s[i].key = ks[i]
    BY <2>1, <2>2 DEF PairsOf
  <2>3. DOMAIN s = DOMAIN ks
    BY DEF PairsOf
  <2> QED
    BY <2>1, <2>2, <2>3
<1> HIDE DEF n, s
<1>2. ASSUME NEW i \in 1 .. n
      PROVE  i - 1 \in FirstRows(ks) <=> \A j \in 1 .. i - 1 : s[j].key # s[i].key
  <2>1. i \in Nat /\ i - 1 \in 0 .. n - 1 /\ i - 1 + 1 = i
    BY <1>1
  <2>2. \A q : q \in 0 .. i - 1 - 1 => q + 1 \in 1 .. i - 1
    BY <2>1
  <2>3. \A j : j \in 1 .. i - 1 =>
          j - 1 \in 0 .. i - 1 - 1 /\ j - 1 + 1 = j /\ j \in 1 .. n
    BY <1>1, <2>1
  <2>4. i - 1 \in FirstRows(ks) <=> \A q \in 0 .. i - 1 - 1 : ks[q + 1] # ks[i]
    BY <2>1 DEF FirstRows, FirstOf, n
  <2>5. (\A q \in 0 .. i - 1 - 1 : ks[q + 1] # ks[i]) <=> \A j \in 1 .. i - 1 : ks[j] # ks[i]
    BY <2>2, <2>3
  <2>6. (\A j \in 1 .. i - 1 : s[j].key # s[i].key) <=> \A j \in 1 .. i - 1 : ks[j] # ks[i]
    BY <1>1, <2>3
  <2> QED
    BY <2>4, <2>5, <2>6
<1>3. ASSUME NEW i \in 1 .. n
      PROVE  i - 1 \in LastRows(ks) <=> \A j \in i + 1 .. n : s[j].key # s[i].key
  <2>1. i \in Nat /\ i - 1 \in 0 .. n - 1 /\ i - 1 + 1 = i
    BY <1>1
  <2>2. \A q : q \in i .. n - 1 => q + 1 \in i + 1 .. n
    BY <1>1, <2>1
  <2>3. \A j : j \in i + 1 .. n => j - 1 \in i .. n - 1 /\ j - 1 + 1 = j /\ j \in 1 .. n
    BY <1>1, <2>1
  <2>4. i - 1 \in LastRows(ks) <=> \A q \in i .. n - 1 : ks[q + 1] # ks[i]
    BY <2>1 DEF LastRows, n
  <2>5. (\A q \in i .. n - 1 : ks[q + 1] # ks[i]) <=> \A j \in i + 1 .. n : ks[j] # ks[i]
    BY <2>2, <2>3
  <2>6. (\A j \in i + 1 .. n : s[j].key # s[i].key) <=> \A j \in i + 1 .. n : ks[j] # ks[i]
    BY <1>1, <2>3
  <2> QED
    BY <2>4, <2>5, <2>6
<1>4. FirstOfKey(s) = PairsAt(s, P)
  <2>1. {i \in DOMAIN s : \A j \in 1 .. i - 1 : s[j].key # s[i].key} = P
    BY <1>1, <1>2
  <2> QED
    BY <2>1 DEF FirstOfKey
<1>5. LastOfKey(s) = PairsAt(s, Q)
  <2>1. {i \in DOMAIN s : \A j \in i + 1 .. Len(s) : s[j].key # s[i].key} = Q
    BY <1>1, <1>3
  <2> QED
    BY <2>1 DEF LastOfKey
<1>6. {i - 1 : i \in P} = FirstRows(ks) /\ {i - 1 : i \in Q} = LastRows(ks)
  <2>1. FirstRows(ks) \subseteq 0 .. n - 1 /\ LastRows(ks) \subseteq 0 .. n - 1
    BY DEF FirstRows, LastRows, n
  <2> QED
    BY <1>1, <2>1, RowsOfPlaces
<1>7. P \subseteq 1 .. n /\ Q \subseteq 1 .. n
  OBVIOUS
<1>8. /\ Keeps(PairsAt(s, P), ks, {i - 1 : i \in P})
      /\ Keeps(PairsAt(s, Q), ks, {i - 1 : i \in Q})
  <2> HIDE DEF P, Q
  <2> QED
    BY <1>7, SelectedKept DEF s, n
<1> QED
  BY <1>4, <1>5, <1>6, <1>8 DEF s

Competitors == [kind : Kinds, scale : Nat \ {0}]

LEMMA LoadKeeps ==
  ASSUME NEW c \in Competitors, c.kind # "BS",
         NEW ks, Dataset(ks), Applicable(c, Distinct(ks))
  PROVE  /\ Load(c, PairsOf(ks)).size = Len(ks)
         /\ Keeps(Load(c, PairsOf(ks)).entries, ks, KeptRows(c, ks))
<1>1. c.scale \in Nat \ {0} /\ c.kind \in Kinds /\ c.kind # "BS"
  BY DEF Competitors
<1>2. Len(PairsOf(ks)) = Len(ks)
  BY DatasetTyped
<1>3. CASE c.kind \in {"BTree", "ALEX", "FST"}
  BY <1>1, <1>2, <1>3, SampledKept DEF Load, KeptRows
<1>4. CASE c.kind = "Wormhole"
  BY <1>1, <1>2, <1>4, SampledKept DEF Load, KeptRows
<1>5. CASE c.kind = "ART"
  <2>1. Distinct(ks)
    BY <1>5 DEF Applicable
  <2> QED
    BY <1>1, <1>2, <1>5, <2>1, ArtKept DEF Load, KeptRows
<1>6. CASE c.kind = "IBTree"
  BY <1>1, <1>2, <1>6, SampledKept DEF Load, KeptRows
<1>7. CASE c.kind \in {"PGM", "RobinHash"}
  BY <1>1, <1>2, <1>7, OnePerKeyKept DEF Load, KeptRows
<1>8. CASE c.kind = "CuckooMap"
  BY <1>1, <1>2, <1>8, OnePerKeyKept DEF Load, KeptRows
<1> QED
  BY <1>1, <1>3, <1>4, <1>5, <1>6, <1>7, <1>8 DEF Kinds

(* What FST relies on: the k-th multiple of the scale is the k-th pair.        *)
LEMMA SampledInSteps ==
  ASSUME NEW ks, Dataset(ks), NEW sc \in Nat \ {0},
         NEW e, Keeps(e, ks, Multiples(ks, sc))
  PROVE  /\ Len(e) \in Nat /\ 1 <= Len(e)
         /\ \A k \in 1 .. Len(e) : e[k].val = (k - 1) * sc
         /\ Len(ks) <= Len(e) * sc
<1> DEFINE m == Len(e)
           n == Len(ks)
           T == {k \in Nat : k \in 1 .. m /\ e[k].val # (k - 1) * sc}
<1>1. /\ m \in Nat /\ n \in Nat /\ 1 <= n
      /\ \A k \in 1 .. m : e[k].val \in Nat /\ e[k].val % sc = 0 /\ e[k].val < n
      /\ \A v \in Nat : v % sc = 0 /\ v < n => \E k \in 1 .. m : e[k].val = v
      /\ \A k, l \in 1 .. m : k < l => e[k].val < e[l].val
  <2>1. n \in Nat /\ 1 <= n
    BY DatasetTyped
  <2>2. \A v : v \in Multiples(ks, sc) <=> v \in Nat /\ v % sc = 0 /\ v < n
    BY <2>1 DEF Multiples
  <2>3. m \in Nat
    BY DEF Keeps
  <2> QED
    BY <2>1, <2>2, <2>3 DEF Keeps
<1> HIDE DEF m, n
<1>2. 1 \in 1 .. m /\ e[1].val = 0
  <2>1. PICK k \in 1 .. m : e[k].val = 0
    BY <1>1
  <2> QED
    BY <1>1, <2>1
<1>3. ASSUME NEW k \in 1 .. m, e[k].val + sc < n
      PROVE  k + 1 \in 1 .. m /\ e[k + 1].val = e[k].val + sc
  <2>1. e[k].val \in Nat /\ e[k].val % sc = 0 /\ e[k].val + sc \in Nat /\ k \in Nat
    BY <1>1
  <2>2. PICK l \in 1 .. m : e[l].val = e[k].val + sc
    <3>1. (e[k].val + sc) % sc = 0
      BY <2>1, MultiplesApart, Zenon
    <3> QED
      BY <1>1, <1>3, <2>1, <3>1, Zenon
  <2>3. l \in Nat /\ ~ (l < k) /\ l # k
    BY <1>1, <2>1, <2>2
  <2>4. k + 1 \in 1 .. m /\ k < k + 1 /\ (k + 1 = l \/ k + 1 < l)
    BY <1>1, <2>1, <2>2, <2>3
  <2>5. e[k].val < e[k + 1].val /\ e[k + 1].val <= e[k].val + sc
    <3>1. e[k].val < e[k + 1].val
      BY <1>1, <2>4, Zenon
    <3>2. k + 1 < l => e[k + 1].val < e[l].val
      BY <1>1, <2>4, Zenon
    <3>3. e[k + 1].val \in Nat
      BY <1>1, <2>4, Zenon
    <3>4. CASE k + 1 = l
      BY <2>1, <2>2, <3>1, <3>4
    <3>5. CASE k + 1 < l
      <4>1. e[k + 1].val < e[k].val + sc
        BY <2>2, <3>2, <3>5, Zenon
      <4>2. \A a, b \in Nat : a < b => a <= b
        OBVIOUS
      <4> QED
        BY <2>1, <3>1, <3>3, <4>1, <4>2, Zenon
    <3> QED
      BY <2>4, <3>4, <3>5
  <2>6. e[k + 1].val \in Nat /\ e[k + 1].val % sc = 0
    BY <1>1, <2>4, Zenon
  <2>7. e[k].val + sc <= e[k + 1].val
    BY <2>1, <2>5, <2>6, MultiplesApart, Zenon
  <2>8. \A a, b \in Nat : a <= b /\ b <= a => a = b
    OBVIOUS
  <2> QED
    BY <2>1, <2>4, <2>5, <2>6, <2>7, <2>8, Zenon
<1>4. T = {}
  <2> SUFFICES ASSUME T # {} PROVE FALSE
    OBVIOUS
  <2>1. PICK t \in T : \A y \in T : t <= y
    <3>1. T \subseteq Nat
      OBVIOUS
    <3> HIDE DEF T
    <3> QED
      BY <3>1, LeastNatural
  <2>2. t \in Nat /\ t \in 1 .. m /\ e[t].val # (t - 1) * sc
    OBVIOUS
  <2>3. t # 1
    BY <1>2, <2>2
  <2>4. t - 1 \in Nat /\ t - 1 \in 1 .. m /\ t - 1 \notin T
    <3>1. t - 1 \in Nat /\ t - 1 \in 1 .. m /\ ~ (t <= t - 1)
      BY <1>1, <2>2, <2>3
    <3> HIDE DEF T
    <3> QED
      BY <2>1, <3>1
  <2>5. e[t - 1].val = (t - 1 - 1) * sc
    BY <2>4
  <2>6. e[t - 1].val < e[t].val
    BY <1>1, <2>2, <2>4
  <2>7. e[t - 1].val + sc <= e[t].val
    <3>1. /\ e[t - 1].val \in Nat /\ e[t - 1].val % sc = 0
          /\ e[t].val \in Nat /\ e[t].val % sc = 0
      BY <1>1, <2>2, <2>4, Zenon
    <3> QED
      BY <2>6, <3>1, MultiplesApart, Zenon
  <2>8. t - 1 + 1 \in 1 .. m /\ e[t - 1 + 1].val = e[t - 1].val + sc
    <3>1. e[t - 1].val \in Nat /\ e[t].val \in Nat /\ e[t].val < n
      BY <1>1, <2>2, <2>4
    <3>2. e[t - 1].val + sc < n
      BY <1>1, <2>7, <3>1
    <3> QED
      BY <1>3, <2>4, <3>2
  <2>9. (t - 1 - 1) * sc + sc = (t - 1) * sc /\ t - 1 + 1 = t
    BY <2>2
  <2> QED
    BY <2>2, <2>5, <2>8, <2>9
<1>5. ASSUME NEW k \in 1 .. m PROVE e[k].val = (k - 1) * sc
  <2>1. k \in Nat
    BY <1>1
  <2>2. k \notin T
    <3> HIDE DEF T
    <3> QED
      BY <1>4
  <2> QED
    BY <2>1, <2>2
<1>6. 1 <= m
  BY <1>1, <1>2
<1> HIDE DEF T
<1>7. n <= m * sc
  <2>1. m \in 1 .. m /\ e[m].val = (m - 1) * sc
    BY <1>1, <1>5, <1>6
  <2>2. ~ (e[m].val + sc < n)
    BY <1>1, <1>3, <2>1
  <2>3. (m - 1) * sc + sc = m * sc /\ m * sc \in Nat
    BY <1>1
  <2> QED
    BY <1>1, <2>1, <2>2, <2>3
<1> QED
  BY <1>1, <1>5, <1>6, <1>7 DEF m, n
-----------------------------------------------------------------------------
(* A window that holds row f of n rows and is no wider than `width`.          *)
Holds(w, f, n, width) ==
  /\ w.start \in Nat /\ w.stop \in Nat
  /\ w.start <= f /\ f <= w.stop /\ w.stop <= n
  /\ w.stop <= w.start + width

Near(ks, f, V, sc) ==
  \/ \E v \in V : f <= v /\ v < f + sc
  \/ Len(ks) <= f + sc

LEMMA BackwardsHolds ==
  ASSUME NEW ks, Dataset(ks), NEW f, FirstOf(ks, f), NEW ix, ix.size = Len(ks),
         NEW V, Keeps(ix.entries, ks, V),
         NEW sc \in Nat \ {0}, Near(ks, f, V, sc), NEW error \in Nat, sc <= error + 1
  PROVE  Holds(Backwards(ix, ks[f + 1], error), f, Len(ks), error + 1)
<1> DEFINE n == Len(ks)
           at == AtLeast(ix.entries, ks[f + 1])
           g == IF at > Len(ix.entries) THEN n - 1 ELSE ix.entries[at].val
<1>1. n \in Nat /\ 1 <= n /\ n < RowRange /\ RowRange \in Nat /\ f \in Nat
  BY DatasetTyped DEF FirstOf
<1>2. g \in Nat /\ f <= g /\ g < f + sc /\ g < n
  BY GuessNear DEF Near
<1>3. (n - 1) % RowRange = n - 1
  <2>1. n - 1 \in Nat /\ n - 1 < RowRange
    BY <1>1
  <2> QED
    BY <1>1, <2>1, SmallMod
<1>4. Guess(ix, ks[f + 1]) = g
  BY <1>3 DEF Guess
<1> HIDE DEF g, n
<1>5. (g + 1) % RowRange = g + 1
  <2>1. g + 1 \in Nat /\ g + 1 < RowRange
    BY <1>1, <1>2
  <2> QED
    BY <1>1, <2>1, SmallMod
<1>6. Backwards(ix, ks[f + 1], error) = [start |-> Below(g, error), stop |-> g + 1]
  BY <1>4, <1>5 DEF Backwards, Window
<1>7. /\ Below(g, error) \in Nat /\ Below(g, error) <= f
      /\ g + 1 <= Below(g, error) + (error + 1)
  BY <1>1, <1>2 DEF Below
<1>8. Holds(Backwards(ix, ks[f + 1], error), f, n, error + 1)
  BY <1>1, <1>2, <1>6, <1>7 DEF Holds
<1> QED
  BY <1>8 DEF n

(* Sampling keeps a row near enough ...                                      *)
LEMMA SampledNear ==
  ASSUME NEW ks, Dataset(ks), NEW f, FirstOf(ks, f), NEW sc \in Nat \ {0}
  PROVE  Near(ks, f, Multiples(ks, sc), sc)
<1>1. Len(ks) \in Nat /\ f \in Nat
  BY DatasetTyped DEF FirstOf
<1>2. PICK v \in Nat : v % sc = 0 /\ f <= v /\ v < f + sc
  BY <1>1, MultipleNear
<1>3. CASE v < Len(ks)
  <2>1. v \in Multiples(ks, sc)
    BY <1>1, <1>2, <1>3 DEF Multiples
  <2> QED
    BY <1>2, <2>1 DEF Near
<1>4. CASE ~ (v < Len(ks))
  <2>1. Len(ks) <= f + sc
    BY <1>1, <1>2, <1>4
  <2> QED
    BY <2>1 DEF Near
<1> QED
  BY <1>3, <1>4

(* ... and what keeps the first row of the key keeps one as near as can be.    *)
LEMMA KeptNear ==
  ASSUME NEW ks, NEW f \in Nat, NEW V, f \in V
  PROVE  Near(ks, f, V, 1)
<1>1. f <= f /\ f < f + 1
  OBVIOUS
<1> QED
  BY <1>1 DEF Near

LEMMA TreesHold ==
  ASSUME NEW c \in Competitors, c.kind \in {"BTree", "ALEX", "ART", "PGM"},
         NEW ks, Dataset(ks), Applicable(c, Distinct(ks)), NEW f, FirstOf(ks, f)
  PROVE  Holds(Backwards(Load(c, PairsOf(ks)), ks[f + 1],
                         IF c.kind = "PGM" THEN c.scale ELSE c.scale - 1),
               f, Len(ks), IF c.kind = "PGM" THEN c.scale + 1 ELSE c.scale)
<1> DEFINE ix == Load(c, PairsOf(ks))
           V == KeptRows(c, ks)
<1>1. c.scale \in Nat \ {0} /\ c.kind # "BS"
  BY DEF Competitors
<1>2. ix.size = Len(ks) /\ Keeps(ix.entries, ks, V)
  BY <1>1, LoadKeeps
<1>3. Len(ks) \in Nat /\ 1 <= Len(ks) /\ f \in Nat /\ f <= Len(ks) - 1
  BY DatasetTyped DEF FirstOf
<1> HIDE DEF ix
<1>4. CASE c.kind \in {"BTree", "ALEX"}
  <2>1. V = Multiples(ks, c.scale)
    BY <1>4 DEF KeptRows
  <2>2. Near(ks, f, V, c.scale)
    BY <1>1, <2>1, SampledNear
  <2>3. c.scale - 1 \in Nat /\ c.scale <= c.scale - 1 + 1 /\ c.scale - 1 + 1 = c.scale
    BY <1>1
  <2>4. Holds(Backwards(ix, ks[f + 1], c.scale - 1), f, Len(ks), c.scale - 1 + 1)
    BY <1>1, <1>2, <2>2, <2>3, BackwardsHolds
  <2> QED
    BY <1>4, <2>3, <2>4 DEF ix
<1>5. CASE c.kind = "ART"
  <2>1. V = IF ks[1] = KeyRange - 1 THEN {} ELSE Multiples(ks, c.scale)
    BY <1>5 DEF KeptRows
  <2>2. Near(ks, f, V, c.scale)
    <3>1. CASE ks[1] # KeyRange - 1
      BY <1>1, <2>1, <3>1, SampledNear
    <3>2. CASE ks[1] = KeyRange - 1
      <4>1. Distinct(ks) /\ DOMAIN ks = 1 .. Len(ks)
        BY <1>5, DatasetTyped DEF Applicable
      <4>2. /\ \A i \in 1 .. Len(ks) : ks[i] \in Nat /\ ks[i] < KeyRange
            /\ KeyRange \in Nat
        BY DatasetTyped
      <4>3. Len(ks) = 1
        <5> SUFFICES ASSUME Len(ks) # 1 PROVE FALSE
          OBVIOUS
        <5>1. 2 \in 1 .. Len(ks) /\ 1 \in 1 .. Len(ks)
          <6>1. Len(ks) \in Nat /\ 1 <= Len(ks) /\ Len(ks) # 1
            BY <1>3
          <6>2. \A m \in Nat : 1 <= m /\ m # 1 => 2 <= m
            OBVIOUS
          <6>3. 2 <= Len(ks)
            BY <6>1, <6>2, Zenon
          <6> QED
            BY <6>1, <6>3
        <5>2. ks[1] <= ks[2]
          BY <5>1 DEF Dataset
        <5>3. ks[1] = ks[2]
          BY <3>2, <4>2, <5>1, <5>2
        <5> QED
          BY <4>1, <5>1, <5>3 DEF Distinct
      <4>4. Len(ks) <= f + c.scale
        BY <1>1, <1>3, <4>3
      <4> QED
        BY <4>4 DEF Near
    <3> QED
      BY <3>1, <3>2
  <2>3. c.scale - 1 \in Nat /\ c.scale <= c.scale - 1 + 1 /\ c.scale - 1 + 1 = c.scale
    BY <1>1
  <2>4. Holds(Backwards(ix, ks[f + 1], c.scale - 1), f, Len(ks), c.scale - 1 + 1)
    BY <1>1, <1>2, <2>2, <2>3, BackwardsHolds
  <2> QED
    BY <1>5, <2>3, <2>4 DEF ix
<1>6. CASE c.kind = "PGM"
  <2>1. f \in V
    BY <1>6 DEF KeptRows, FirstRows, FirstOf
  <2>2. Near(ks, f, V, 1)
    BY <1>3, <2>1, KeptNear
  <2>3. c.scale \in Nat /\ 1 <= c.scale + 1 /\ 1 \in Nat \ {0}
    BY <1>1
  <2>4. Holds(Backwards(ix, ks[f + 1], c.scale), f, Len(ks), c.scale + 1)
    BY <1>2, <2>2, <2>3, BackwardsHolds
  <2> QED
    BY <1>6, <2>4 DEF ix
<1> QED
  BY <1>4, <1>5, <1>6

LEMMA IBTreeHolds ==
  ASSUME NEW c \in Competitors, c.kind = "IBTree",
         NEW ks, Dataset(ks), NEW f, FirstOf(ks, f),
         NEW w \in IBTreeWindows(Load(c, PairsOf(ks)), ks[f + 1], c.scale)
  PROVE  Holds(w, f, Len(ks), c.scale)
<1> DEFINE ix == Load(c, PairsOf(ks))
           V == Multiples(ks, c.scale) \cup {Len(ks) - 1}
           n == Len(ks)
           at == AtLeast(ix.entries, ks[f + 1])
           g == IF at > Len(ix.entries) THEN n - 1 ELSE ix.entries[at].val
<1>1. c.scale \in Nat \ {0} /\ c.kind # "BS" /\ Applicable(c, Distinct(ks))
  BY DEF Competitors, Applicable
<1>2. ix.size = Len(ks) /\ Keeps(ix.entries, ks, V)
  BY <1>1, LoadKeeps DEF KeptRows
<1>3. n \in Nat /\ 1 <= n /\ f \in Nat /\ f <= n - 1
  BY DatasetTyped DEF FirstOf
<1> HIDE DEF ix
<1>4. Near(ks, f, V, c.scale)
  <2>1. Near(ks, f, Multiples(ks, c.scale), c.scale)
    BY <1>1, SampledNear
  <2> QED
    BY <2>1 DEF Near
<1>5. \E v \in V : f <= v
  BY <1>3
<1>6. /\ g \in Nat /\ f <= g /\ g < f + c.scale /\ g < n
      /\ at \in 1 .. Len(ix.entries) + 1 /\ at <= Len(ix.entries)
  <2> HIDE DEF V
  <2> QED
    BY <1>1, <1>2, <1>4, <1>5, GuessNear DEF Near
<1>7. g = ix.entries[at].val /\ ~ (at > Len(ix.entries))
  <2>1. Len(ix.entries) \in Nat
    BY <1>2 DEF Keeps
  <2> QED
    BY <1>6, <2>1
<1>8. w = [start |-> Below(g, c.scale), stop |-> g]
  BY <1>7 DEF IBTreeWindows, Window, ix
<1> HIDE DEF g, n
<1>9. /\ Below(g, c.scale) \in Nat /\ Below(g, c.scale) <= f
      /\ g <= Below(g, c.scale) + c.scale
  BY <1>1, <1>3, <1>6 DEF Below
<1>10. Holds(w, f, n, c.scale)
  BY <1>3, <1>6, <1>8, <1>9 DEF Holds
<1> QED
  BY <1>10 DEF n

(* A hash map answers with one row, the first of its key if that is stored.    *)
(* The hash maps have each key of the data.                                  *)
LEMMA HashStores ==
  ASSUME NEW c \in Competitors, HashMap(c), NEW ks, Dataset(ks), NEW f, FirstOf(ks, f)
  PROVE  Stored(Load(c, PairsOf(ks)), ks[f + 1])
<1> DEFINE ix == Load(c, PairsOf(ks))
           T == {q \in 0 .. Len(ks) - 1 : ks[q + 1] = ks[f + 1]}
<1>1. c.kind \in {"RobinHash", "CuckooMap"} /\ c.kind # "BS" /\ Applicable(c, Distinct(ks))
  BY DEF HashMap, Applicable
<1>2. Keeps(ix.entries, ks, KeptRows(c, ks))
  BY <1>1, LoadKeeps
<1>3. Len(ks) \in Nat /\ f \in Nat /\ f \in 0 .. Len(ks) - 1
  BY DatasetTyped DEF FirstOf
<1>4. PICK last \in T : \A q \in T : q <= last
  <2>1. T \subseteq Nat /\ f \in T /\ \A q \in T : q <= Len(ks)
    BY <1>3
  <2> HIDE DEF T
  <2> QED
    BY <1>3, <2>1, GreatestNatural
<1>5. last \in LastRows(ks)
  <2>1. last \in 0 .. Len(ks) - 1 /\ last \in Nat /\ ks[last + 1] = ks[f + 1]
    OBVIOUS
  <2>2. ASSUME NEW q \in last + 1 .. Len(ks) - 1 PROVE ks[q + 1] # ks[last + 1]
    <3>1. q \in 0 .. Len(ks) - 1 /\ ~ (q <= last)
      BY <1>3, <2>1
    <3>2. q \notin T
      <4> HIDE DEF T
      <4> QED
        BY <1>4, <3>1
    <3> QED
      BY <2>1, <3>1, <3>2
  <2> HIDE DEF T
  <2> QED
    BY <2>1, <2>2 DEF LastRows
<1>6. \E v \in KeptRows(c, ks) : v \in Nat /\ ks[v + 1] = ks[f + 1]
  <2>1. CASE c.kind = "RobinHash"
    BY <1>3, <2>1 DEF KeptRows, FirstRows
  <2>2. CASE c.kind = "CuckooMap"
    <3>1. last \in KeptRows(c, ks)
      BY <1>5, <2>2 DEF KeptRows
    <3> QED
      BY <1>3, <3>1
  <2> QED
    BY <1>1, <2>1, <2>2
<1> HIDE DEF ix
<1>7. DOMAIN ix.entries = 1 .. Len(ix.entries)
  BY <1>2 DEF Keeps
<1>8. \E i \in DOMAIN ix.entries : ix.entries[i].key = ks[f + 1]
  <2>1. PICK v \in KeptRows(c, ks) : ks[v + 1] = ks[f + 1]
    BY <1>6
  <2>2. PICK i \in 1 .. Len(ix.entries) : ix.entries[i].val = v
    BY <1>2, <2>1 DEF Keeps
  <2>3. ix.entries[i].key = ks[ix.entries[i].val + 1]
    BY <1>2, <2>2 DEF Keeps
  <2> QED
    BY <1>7, <2>1, <2>2, <2>3
<1>9. Stored(ix, ks[f + 1])
  BY <1>8 DEF Stored
<1> QED
  BY <1>9 DEF ix

LEMMA HashHolds ==
  ASSUME NEW c \in Competitors, HashMap(c),
         NEW ks, Dataset(ks), NEW f, FirstOf(ks, f)
  PROVE  LET ix == Load(c, PairsOf(ks))
             row == ix.entries[AtLeast(ix.entries, ks[f + 1])].val
         IN  /\ row \in Nat /\ f <= row /\ row < Len(ks)
             /\ c.kind = "RobinHash" \/ Distinct(ks) => row = f
<1> DEFINE ix == Load(c, PairsOf(ks))
           V == KeptRows(c, ks)
           n == Len(ks)
           at == AtLeast(ix.entries, ks[f + 1])
           g == IF at > Len(ix.entries) THEN n - 1 ELSE ix.entries[at].val
<1>1. c.kind \in {"RobinHash", "CuckooMap"} /\ c.kind # "BS" /\ Applicable(c, Distinct(ks))
  BY DEF HashMap, Applicable
<1>2. ix.size = Len(ks) /\ Keeps(ix.entries, ks, V)
  BY <1>1, LoadKeeps
<1>3. n \in Nat /\ 1 <= n /\ f \in Nat /\ f <= n - 1
  BY DatasetTyped DEF FirstOf
<1> HIDE DEF ix
<1>4. c.kind = "RobinHash" \/ Distinct(ks) => f \in V
  <2>1. CASE c.kind = "RobinHash"
    BY <2>1 DEF KeptRows, FirstRows, FirstOf
  <2>2. CASE c.kind = "CuckooMap" /\ Distinct(ks)
    <3>1. ASSUME NEW q \in f + 1 .. n - 1 PROVE ks[q + 1] # ks[f + 1]
      <4>1. q + 1 \in 1 .. n /\ f + 1 \in 1 .. n /\ q + 1 # f + 1
        BY <1>3
      <4>2. DOMAIN ks = 1 .. n
        BY DatasetTyped
      <4> QED
        BY <2>2, <4>1, <4>2 DEF Distinct
    <3>2. f \in LastRows(ks)
      BY <1>3, <3>1 DEF LastRows
    <3> QED
      BY <2>2, <3>2 DEF KeptRows
  <2> QED
    BY <1>1, <2>1, <2>2
<1>5. \E v \in V : f <= v
  <2>1. CASE c.kind = "RobinHash"
    BY <1>3, <1>4, <2>1
  <2>2. CASE c.kind = "CuckooMap"
    <3>1. n - 1 \in 0 .. n - 1 /\ ~ \E q : q \in n - 1 + 1 .. n - 1
      BY <1>3
    <3>2. n - 1 \in LastRows(ks)
      BY <3>1 DEF LastRows
    <3>3. n - 1 \in V
      BY <2>2, <3>2 DEF KeptRows
    <3> HIDE DEF V
    <3> QED
      BY <1>3, <3>3
  <2> QED
    BY <1>1, <2>1, <2>2
<1> HIDE DEF V
<1>6. /\ g \in Nat /\ f <= g /\ g < n
      /\ at \in 1 .. Len(ix.entries) + 1 /\ at <= Len(ix.entries)
  <2>1. n \in Nat \ {0} /\ Len(ks) <= f + n
    BY <1>3
  <2> QED
    BY <1>2, <1>5, <2>1, GuessNear
<1>7. g = ix.entries[at].val
  <2>1. Len(ix.entries) \in Nat
    BY <1>2 DEF Keeps
  <2> QED
    BY <1>6, <2>1
<1>8. ASSUME f \in V PROVE g = f
  <2>1. Near(ks, f, V, 1) /\ 1 \in Nat \ {0}
    BY <1>3, <1>8, KeptNear
  <2>2. g < f + 1
    BY <1>2, <2>1, GuessNear DEF Near
  <2> QED
    BY <1>3, <1>6, <2>2
<1>9. /\ ix.entries[at].val \in Nat /\ f <= ix.entries[at].val
      /\ ix.entries[at].val < n
      /\ c.kind = "RobinHash" \/ Distinct(ks) => ix.entries[at].val = f
  BY <1>4, <1>6, <1>7, <1>8
<1> QED
  BY <1>9 DEF ix

(* Without duplicates the keys grow from row to row.                        *)
LEMMA KeysGrow ==
  ASSUME NEW ks, Dataset(ks), Distinct(ks),
         NEW q \in 0 .. Len(ks) - 1, NEW r \in 0 .. Len(ks) - 1
  PROVE  /\ q \in Nat /\ r \in Nat /\ ks[q + 1] \in Nat /\ ks[r + 1] \in Nat
         /\ q < r => ks[q + 1] < ks[r + 1]
         /\ FirstOf(ks, q)
<1>1. /\ Len(ks) \in Nat /\ q \in Nat /\ r \in Nat /\ DOMAIN ks = 1 .. Len(ks)
      /\ q + 1 \in 1 .. Len(ks) /\ r + 1 \in 1 .. Len(ks)
      /\ ks[q + 1] \in Nat /\ ks[r + 1] \in Nat
  BY DatasetTyped
<1>2. ASSUME q < r PROVE ks[q + 1] < ks[r + 1]
  <2>1. q + 1 # r + 1 /\ q + 1 <= r + 1
    BY <1>1, <1>2
  <2>2. ks[q + 1] <= ks[r + 1]
    BY <1>1, <2>1 DEF Dataset
  <2>3. ks[q + 1] # ks[r + 1]
    BY <1>1, <2>1 DEF Distinct
  <2> QED
    BY <1>1, <2>2, <2>3
<1>3. ASSUME NEW p \in 0 .. q - 1 PROVE ks[p + 1] # ks[q + 1]
  <2>1. p + 1 \in 1 .. Len(ks) /\ p + 1 # q + 1
    BY <1>1
  <2> QED
    BY <1>1, <2>1 DEF Distinct
<1> QED
  BY <1>1, <1>2, <1>3 DEF FirstOf

(* What FST and Wormhole keep: every `sc`-th row, the last less than `sc` rows *)
(* from the end of the data.                                                *)
LEMMA SampledTyped ==
  ASSUME NEW ks, Dataset(ks), NEW sc \in Nat \ {0},
         NEW e, Keeps(e, ks, Multiples(ks, sc))
  PROVE  /\ Len(e) \in Nat /\ 1 <= Len(e)
         /\ \A k \in 1 .. Len(e) :
              /\ e[k].val \in 0 .. Len(ks) - 1 /\ e[k].val = (k - 1) * sc
              /\ e[k].key = ks[e[k].val + 1] /\ e[k].key \in Nat
         /\ Len(ks) <= e[Len(e)].val + sc
         /\ \A k \in 1 .. Len(e) :
              k + 1 <= Len(e) => e[k + 1].val = e[k].val + sc
<1>1. /\ Len(e) \in Nat /\ 1 <= Len(e)
      /\ \A k \in 1 .. Len(e) : e[k].val = (k - 1) * sc
      /\ Len(ks) <= Len(e) * sc
  BY SampledInSteps
<1>2. ASSUME NEW k \in 1 .. Len(e)
      PROVE  e[k].val \in 0 .. Len(ks) - 1 /\ e[k].key = ks[e[k].val + 1]
  BY DEF Keeps
<1>3. ASSUME NEW k \in 1 .. Len(e) PROVE e[k].key \in Nat
  <2>1. /\ \A i \in 1 .. Len(ks) : ks[i] \in Nat
        /\ Len(ks) \in Nat
    BY DatasetTyped
  <2>2. e[k].val + 1 \in 1 .. Len(ks)
    BY <1>2, <2>1
  <2> QED
    BY <1>2, <2>1, <2>2
<1>4. Len(ks) <= e[Len(e)].val + sc
  <2>1. \A m \in Nat : (m - 1) * sc + sc = m * sc
    OBVIOUS
  <2>2. Len(e) \in 1 .. Len(e)
    BY <1>1
  <2>3. e[Len(e)].val = (Len(e) - 1) * sc
    BY <1>1, <2>2
  <2>4. e[Len(e)].val + sc = Len(e) * sc
    BY <1>1, <2>1, <2>3
  <2> QED
    BY <1>1, <2>4
<1>5. ASSUME NEW k \in 1 .. Len(e), k + 1 <= Len(e)
      PROVE  e[k + 1].val = e[k].val + sc
  <2>1. k \in Nat /\ k + 1 \in 1 .. Len(e) /\ k + 1 - 1 = k
    BY <1>1, <1>5
  <2>2. \A m \in Nat : (m - 1) * sc + sc = m * sc
    OBVIOUS
  <2>3. e[k].val = (k - 1) * sc /\ e[k + 1].val = k * sc
    BY <1>1, <2>1
  <2> QED
    BY <2>1, <2>2, <2>3
<1> QED
  BY <1>1, <1>2, <1>3, <1>4, <1>5

LEMMA FSTHolds ==
  ASSUME NEW c \in Competitors, c.kind = "FST",
         NEW ks, Dataset(ks), Distinct(ks), NEW f, FirstOf(ks, f)
  PROVE  Holds(FSTWindow(Load(c, PairsOf(ks)), ks[f + 1], c.scale),
               f, Len(ks), 2 * c.scale + 1)
<1> DEFINE ix == Load(c, PairsOf(ks))
           e == ix.entries
           n == Len(ks)
           m == Len(e)
           sc == c.scale
           key == ks[f + 1]
           at == AtLeast(e, key)
           g == e[at].val
           w == FSTWindow(ix, key, sc)
<1>1. sc \in Nat \ {0} /\ c.kind # "BS" /\ Applicable(c, Distinct(ks))
  BY DEF Competitors, Applicable
<1>2. ix.size = n /\ Keeps(e, ks, Multiples(ks, sc))
  BY <1>1, LoadKeeps DEF KeptRows
<1>3. n \in Nat /\ 1 <= n /\ f \in Nat /\ f <= n - 1 /\ f \in 0 .. n - 1
  BY DatasetTyped DEF FirstOf
<1> HIDE DEF ix
<1>4. /\ m \in Nat /\ 1 <= m /\ n <= e[m].val + sc
      /\ \A k \in 1 .. m : /\ e[k].val \in 0 .. n - 1 /\ e[k].val = (k - 1) * sc
                           /\ e[k].key = ks[e[k].val + 1] /\ e[k].key \in Nat
  <2> HIDE DEF e, sc
  <2> QED
    BY <1>1, <1>2, SampledTyped
<1>5. key \in Nat /\ m \in 1 .. m
  BY <1>3, <1>4, KeysGrow
<1> HIDE DEF e, sc, n, m, key, at
<1>6. CASE key >= e[m].key
  <2>1. w = [start |-> e[m].val, stop |-> n]
    BY <1>2, <1>6 DEF FSTWindow, Window, e, m
  <2>2. e[m].val \in 0 .. n - 1 /\ e[m].key = ks[e[m].val + 1] /\ e[m].key \in Nat
    BY <1>4, <1>5
  <2>3. ~ (f < e[m].val)
    <3>1. f < e[m].val => ks[f + 1] < ks[e[m].val + 1]
      BY <1>3, <2>2, KeysGrow DEF n
    <3> QED
      BY <1>5, <1>6, <2>2, <3>1 DEF key
  <2>4. Holds(w, f, n, 2 * sc + 1)
    BY <1>1, <1>3, <1>4, <2>1, <2>2, <2>3 DEF Holds
  <2> QED
    BY <2>4 DEF ix, sc, n, key
<1>7. CASE ~ (key >= e[m].key)
  <2>1. e[m].key \in Nat /\ e[m].key > key
    BY <1>4, <1>5, <1>7
  <2>2. Near(ks, f, Multiples(ks, sc), sc)
    BY <1>1, SampledNear
  <2> DEFINE gg == IF at > m THEN n - 1 ELSE e[at].val
  <2>3. /\ at \in 1 .. m + 1
        /\ gg \in Nat /\ f <= gg /\ gg < f + sc /\ gg < n
        /\ \A j \in 1 .. m : j < at => e[j].val < f
    BY <1>1, <1>2, <2>2, GuessNear DEF Near, at, key, m, n
  <2>4. at <= m
    <3>1. ASSUME at = m + 1 PROVE FALSE
      <4>1. e[m].val < f /\ e[m].val \in 0 .. n - 1 /\ e[m].key = ks[e[m].val + 1]
        BY <1>4, <1>5, <2>3, <3>1
      <4>2. ks[e[m].val + 1] < ks[f + 1]
        BY <1>3, <4>1, KeysGrow DEF n
      <4> QED
        BY <1>5, <2>1, <4>1, <4>2 DEF key
    <3> QED
      BY <1>4, <2>3, <3>1
  <2>5. at \in 1 .. m /\ ~ (at > m) /\ gg = g /\ g = (at - 1) * sc
    BY <1>4, <2>3, <2>4
  <2>6. g \in Nat /\ f <= g /\ g < f + sc /\ g < n
    BY <2>3, <2>5
  <2> HIDE DEF g, gg
  <2>7. /\ Below(g, sc) \in Nat /\ Below(g, sc) <= f /\ Below(g, sc) <= g
        /\ g <= Below(g, sc) + sc
    BY <1>1, <1>3, <2>6 DEF Below
  <2>8. ~ (Below(g, sc) > n)
    BY <1>3, <2>6, <2>7
  <2>9. w = [start |-> Below(g, sc),
             stop |-> IF g + sc >= n THEN n ELSE g + sc + 1]
    <3>1. w = IF key >= e[m].key THEN Window(e[m].val, n)
              ELSE IF Below(g, sc) > n THEN Window(0, n)
              ELSE Window(Below(g, sc), IF g + sc >= n THEN n ELSE g + sc + 1)
      BY <1>2, <2>5 DEF FSTWindow, e, m, at
    <3> QED
      BY <1>7, <2>8, <3>1 DEF Window
  <2>10. Holds(w, f, n, 2 * sc + 1)
    <3>1. CASE g + sc >= n
      BY <1>1, <1>3, <2>6, <2>7, <2>9, <3>1 DEF Holds
    <3>2. CASE ~ (g + sc >= n)
      BY <1>1, <1>3, <2>6, <2>7, <2>9, <3>2 DEF Holds
    <3> QED
      BY <3>1, <3>2
  <2> QED
    BY <2>10 DEF ix, sc, n, key
<1> QED
  BY <1>6, <1>7

LEMMA WormholeHolds ==
  ASSUME NEW c \in Competitors, c.kind = "Wormhole",
         NEW ks, Dataset(ks), Distinct(ks), NEW f, FirstOf(ks, f),
         ks[f + 1] # 0, ~ (Len(Load(c, PairsOf(ks)).entries) < 2),
         NEW w \in WormholeWindows(Load(c, PairsOf(ks)), ks[f + 1])
  PROVE  Holds(w, f, Len(ks), 2 * c.scale)
<1> DEFINE ix == Load(c, PairsOf(ks))
           e == ix.entries
           n == Len(ks)
           m == Len(e)
           sc == c.scale
           key == ks[f + 1]
           stored == [i \in 1 .. m - 1 |-> e[i + 1]]
           at == AtLeast(stored, key - 1)
<1>1. sc \in Nat \ {0} /\ c.kind # "BS" /\ Applicable(c, Distinct(ks))
  BY DEF Competitors, Applicable
<1>2. ix.size = n /\ Keeps(e, ks, Multiples(ks, sc))
  BY <1>1, LoadKeeps DEF KeptRows
<1>3. /\ n \in Nat /\ 1 <= n /\ f \in Nat /\ f <= n - 1 /\ f \in 0 .. n - 1
      /\ key \in Nat /\ 1 <= key /\ key < KeyRange /\ KeyRange \in Nat
  <2>1. n \in Nat /\ 1 <= n /\ f \in Nat /\ f <= n - 1 /\ f \in 0 .. n - 1 /\ f + 1 \in 1 .. n
    BY DatasetTyped DEF FirstOf
  <2>2. \A i \in 1 .. n : ks[i] \in Nat /\ ks[i] < KeyRange
    BY DatasetTyped
  <2>3. key \in Nat /\ key < KeyRange /\ key # 0
    BY <2>1, <2>2
  <2> HIDE DEF key
  <2> QED
    BY <2>1, <2>3
<1> HIDE DEF ix
<1>4. /\ m \in Nat /\ n <= e[m].val + sc
      /\ \A k \in 1 .. m : /\ e[k].val \in 0 .. n - 1 /\ e[k].val = (k - 1) * sc
                           /\ e[k].key = ks[e[k].val + 1] /\ e[k].key \in Nat
      /\ \A k \in 1 .. m : k + 1 <= m => e[k + 1].val = e[k].val + sc
  <2> HIDE DEF e, sc
  <2> QED
    BY <1>1, <1>2, SampledTyped
<1>5. 2 <= m
  BY <1>4 DEF ix
<1>6. Predecessor(key) = key - 1
  <2>1. key - 1 \in Nat /\ key - 1 < KeyRange
    BY <1>3
  <2> QED
    BY <1>3, <2>1, SmallMod DEF Predecessor
<1> HIDE DEF e, sc, n, m, key
<1>7. /\ Len(stored) = m - 1 /\ m - 1 \in Nat
      /\ \A i \in 1 .. m - 1 : /\ i + 1 \in 1 .. m /\ stored[i] = e[i + 1]
                               /\ stored[i].key \in Nat
  BY <1>4, <1>5
<1>8. /\ at \in 1 .. m - 1 + 1
      /\ \A j \in 1 .. m - 1 : j < at => stored[j].key < key - 1
      /\ at <= m - 1 => stored[at].key >= key - 1
  <2>1. key - 1 \in Int /\ Len(stored) \in Nat
        /\ \A i \in 1 .. Len(stored) : stored[i].key \in Int
    BY <1>3, <1>7
  <2> HIDE DEF stored
  <2>2. /\ at \in 1 .. Len(stored) + 1
        /\ \A j \in 1 .. Len(stored) : j < at => stored[j].key < key - 1
        /\ at <= Len(stored) => stored[at].key >= key - 1
    BY <2>1, AtLeastFinds
  <2> QED
    BY <1>7, <2>2
<1> HIDE DEF at, stored
<1>9. at \in Nat /\ 1 <= at /\ at \in 1 .. m
  BY <1>4, <1>7, <1>8
(* The rows of keys before the key looked up are before its row.             *)
<1>10. ASSUME NEW k \in 1 .. m, e[k].key < key PROVE e[k].val <= f
  <2>1. e[k].val \in 0 .. n - 1 /\ e[k].key = ks[e[k].val + 1] /\ e[k].key \in Nat
    BY <1>4
  <2>2. f < e[k].val => ks[f + 1] < ks[e[k].val + 1]
    BY <1>3, <2>1, KeysGrow DEF n
  <2> QED
    BY <1>3, <1>10, <2>1, <2>2 DEF key
<1>11. e[at].val <= f
  <2>1. CASE at = 1
    <3>1. e[1].val = (1 - 1) * sc
      BY <1>4, <1>9, <2>1
    <3> QED
      BY <1>1, <1>3, <2>1, <3>1 DEF sc
  <2>2. CASE at # 1
    <3>1. at - 1 \in 1 .. m - 1 /\ at - 1 < at /\ at - 1 + 1 = at
      BY <1>4, <1>7, <1>9, <2>2
    <3>2. e[at].key < key - 1 /\ e[at].key \in Nat
      BY <1>4, <1>7, <1>8, <1>9, <3>1
    <3>3. e[at].key < key
      BY <1>3, <3>2
    <3> QED
      BY <1>9, <1>10, <3>3
  <2> QED
    BY <2>1, <2>2
<1>12. e[at].val \in Nat /\ e[at].val < n
  BY <1>3, <1>4, <1>9
<1> DEFINE to == IF at + 1 > m - 1 THEN e[at].val ELSE e[at + 1].val
           upto == (IF to = e[at].val THEN n - 1 ELSE to) + 1
<1>13. w = IF at > m - 1 THEN [start |-> e[m].val, stop |-> n]
           ELSE [start |-> e[at].val, stop |-> upto]
  <2>1. ~ (m < 2)
    BY <1>4, <1>5
  <2>2. w \in IF at > m - 1 THEN {Window(e[m].val, n)}
              ELSE {Window(e[at].val, upto)}
    BY <1>2, <1>6, <1>7, <2>1 DEF WormholeWindows, ix, e, m, key, at, stored, n
  <2> QED
    BY <2>2 DEF Window
<1>14. CASE at > m - 1
  <2>1. at = m
    BY <1>4, <1>8, <1>14
  <2>2. w = [start |-> e[at].val, stop |-> n]
    BY <1>13, <1>14, <2>1
  <2>3. n <= e[at].val + sc
    BY <1>4, <2>1
  <2>4. Holds(w, f, n, 2 * sc)
    BY <1>1, <1>3, <1>11, <1>12, <2>2, <2>3 DEF Holds, sc
  <2> QED
    BY <2>4 DEF ix, sc, n, key
<1>15. CASE ~ (at > m - 1)
  <2>1. w = [start |-> e[at].val, stop |-> upto]
    BY <1>13, <1>15
  <2>2. /\ at + 1 \in 1 .. m /\ at + 1 <= m /\ e[at + 1].val = e[at].val + sc
        /\ e[at + 1].val \in Nat /\ e[at + 1].val < n
        /\ e[at + 1].key = ks[e[at + 1].val + 1] /\ e[at + 1].key \in Nat
        /\ e[at + 1].val \in 0 .. n - 1
    <3>1. at + 1 \in 1 .. m /\ at + 1 <= m
      BY <1>4, <1>7, <1>9, <1>15
    <3>2. e[at + 1].val \in 0 .. n - 1 /\ e[at + 1].val = e[at].val + sc
      BY <1>4, <1>9, <3>1
    <3>3. e[at + 1].key = ks[e[at + 1].val + 1] /\ e[at + 1].key \in Nat
      BY <1>4, <3>1
    <3>4. \A x \in 0 .. n - 1 : x \in Nat /\ x < n
      BY <1>3
    <3> QED
      BY <3>1, <3>2, <3>3, <3>4
  <2>3. CASE at + 1 > m - 1
    <3>1. upto = n
      BY <1>3, <2>3
    <3>2. m = at + 1
      BY <1>4, <2>2, <2>3
    <3>3. n <= e[at + 1].val + sc
      BY <1>4, <3>2
    <3>4. n <= e[at].val + 2 * sc
      BY <1>1, <1>3, <1>12, <2>2, <3>3 DEF sc
    <3>5. Holds(w, f, n, 2 * sc)
      BY <1>1, <1>3, <1>11, <1>12, <2>1, <3>1, <3>4 DEF Holds, sc
    <3> QED
      BY <3>5 DEF ix, sc, n, key
  <2>4. CASE ~ (at + 1 > m - 1)
    <3>1. to = e[at + 1].val /\ to # e[at].val
      BY <1>1, <1>12, <2>2, <2>4 DEF sc
    <3>2. upto = e[at + 1].val + 1
      BY <3>1
    <3>3. f <= e[at + 1].val + 1
      <4> SUFFICES ASSUME e[at + 1].val + 1 < f PROVE FALSE
        BY <1>3, <2>2
      <4> DEFINE r == e[at + 1].val
      <4>1. r \in 0 .. n - 1 /\ r + 1 \in 0 .. n - 1 /\ r < r + 1 /\ r + 1 < f
        BY <1>3, <2>2
      <4>2. e[at + 1].key >= key - 1
        BY <1>7, <1>8, <1>9, <1>15, <2>2
      <4>3. ks[r + 1] = e[at + 1].key
        BY <2>2
      <4> HIDE DEF r
      <4>4. /\ ks[r + 1] < ks[r + 1 + 1] /\ ks[r + 1 + 1] \in Nat /\ ks[r + 1] \in Nat
            /\ ks[r + 1 + 1] < ks[f + 1]
        BY <1>3, <4>1, KeysGrow DEF n
      <4> QED
        BY <1>3, <4>2, <4>3, <4>4 DEF key
    <3>4. Holds(w, f, n, 2 * sc)
      BY <1>1, <1>3, <1>11, <1>12, <2>1, <2>2, <3>2, <3>3 DEF Holds, sc
    <3> QED
      BY <3>4 DEF ix, sc, n, key
  <2> QED
    BY <2>3, <2>4
<1> QED
  BY <1>14, <1>15

Width(c, n) ==
  CASE c.kind = "BS" -> n
    [] c.kind \in {"BTree", "ALEX", "ART", "IBTree"} -> c.scale
    [] c.kind = "PGM" -> c.scale + 1
    [] HashMap(c) -> 1
    [] c.kind = "Wormhole" -> 2 * c.scale
    [] c.kind = "FST" -> 2 * c.scale + 1

(* Whatever the competitor, its answer for a key of the data is narrow (FST,    *)
(* whose trie may err, aside) and, but for duplicates in the cuckoo map, holds  *)
(* the first row of the key.                                                *)
LEMMA WindowsHold ==
  ASSUME NEW c \in Competitors, NEW ks, Dataset(ks), Applicable(c, Distinct(ks)),
         NEW f, FirstOf(ks, f),
         ~ (/\ c.kind = "Wormhole"
            /\ ks[f + 1] = 0 \/ Len(Load(c, PairsOf(ks)).entries) < 2),
         NEW w \in Windows(c, Load(c, PairsOf(ks)), ks[f + 1])
  PROVE  /\ w.start \in Nat /\ w.stop \in Nat /\ Width(c, Len(ks)) \in Nat
         /\ w.stop <= Len(ks)
         /\ \/ w.stop <= w.start + Width(c, Len(ks))
            \/ c.kind = "FST" /\ w = Window(0, Len(ks))
         /\ ~ (c.kind = "CuckooMap" /\ ~ Distinct(ks)) => w.start <= f /\ f <= w.stop
<1>1. /\ c.scale \in Nat \ {0} /\ c.kind \in Kinds
      /\ c.scale - 1 + 1 = c.scale
  BY DEF Competitors
<1>2. Len(ks) \in Nat /\ f \in Nat /\ f < Len(ks)
  BY DatasetTyped DEF FirstOf
<1>3. CASE c.kind = "BS"
  <2>1. w = [start |-> 0, stop |-> Len(ks)]
    BY <1>3, DatasetTyped DEF Windows, Window, Load, HashMap
  <2>2. Width(c, Len(ks)) = Len(ks)
    BY <1>3 DEF Width, HashMap
  <2> QED
    BY <1>2, <2>1, <2>2
<1>4. CASE c.kind \in {"BTree", "ALEX", "ART"}
  <2>1. w = Backwards(Load(c, PairsOf(ks)), ks[f + 1], c.scale - 1)
    BY <1>4 DEF Windows, HashMap
  <2>2. Holds(w, f, Len(ks), c.scale)
    BY <1>4, <2>1, TreesHold
  <2>3. Width(c, Len(ks)) = c.scale
    BY <1>4 DEF Width, HashMap
  <2> QED
    BY <1>1, <2>2, <2>3 DEF Holds
<1>5. CASE c.kind = "PGM"
  <2>1. w = Backwards(Load(c, PairsOf(ks)), ks[f + 1], c.scale)
    BY <1>5 DEF Windows, HashMap
  <2>2. Holds(w, f, Len(ks), c.scale + 1)
    BY <1>5, <2>1, TreesHold
  <2>3. Width(c, Len(ks)) = c.scale + 1
    BY <1>5 DEF Width, HashMap
  <2> QED
    BY <1>1, <2>2, <2>3 DEF Holds
<1>6. CASE c.kind = "IBTree"
  <2>1. w \in IBTreeWindows(Load(c, PairsOf(ks)), ks[f + 1], c.scale)
    BY <1>6 DEF Windows, HashMap
  <2>2. Holds(w, f, Len(ks), c.scale)
    BY <1>6, <2>1, IBTreeHolds
  <2>3. Width(c, Len(ks)) = c.scale
    BY <1>6 DEF Width, HashMap
  <2> QED
    BY <1>1, <2>2, <2>3 DEF Holds
<1>7. CASE HashMap(c)
  <2> DEFINE ix == Load(c, PairsOf(ks))
             row == ix.entries[AtLeast(ix.entries, ks[f + 1])].val
  <2>1. w = [start |-> row, stop |-> row + 1]
    <3>1. w \in HashWindows(c, Load(c, PairsOf(ks)), ks[f + 1])
      BY <1>7 DEF Windows, HashMap
    <3> QED
      BY <1>7, <3>1, HashStores DEF HashWindows, Window
  <2>2. /\ row \in Nat /\ f <= row /\ row < Len(ks)
        /\ c.kind = "RobinHash" \/ Distinct(ks) => row = f
    BY <1>7, HashHolds
  <2>3. Width(c, Len(ks)) = 1 /\ c.kind \in {"RobinHash", "CuckooMap"}
    BY <1>7 DEF Width, HashMap
  <2> HIDE DEF row, ix
  <2>4. row + 1 \in Nat /\ row + 1 <= Len(ks)
    BY <1>2, <2>2
  <2>5. ~ (c.kind = "CuckooMap" /\ ~ Distinct(ks)) => w.start <= f /\ f <= w.stop
    <3>1. ~ (c.kind = "CuckooMap" /\ ~ Distinct(ks)) => row = f
      BY <2>2, <2>3
    <3>2. row = f => w.start <= f /\ f <= w.stop
      BY <1>2, <2>1
    <3> QED
      BY <3>1, <3>2
  <2> QED
    BY <2>1, <2>2, <2>3, <2>4, <2>5
<1>8. CASE c.kind = "FST"
  <2>1. w \in {FSTWindow(Load(c, PairsOf(ks)), ks[f + 1], c.scale), Window(0, Len(ks))}
    <3>1. w \in FSTWindows(Load(c, PairsOf(ks)), ks[f + 1], c.scale)
      BY <1>8 DEF Windows, HashMap
    <3>2. Keeps(Load(c, PairsOf(ks)).entries, ks, Multiples(ks, c.scale))
      BY <1>8, LoadKeeps DEF KeptRows
    <3>3. 1 <= Len(Load(c, PairsOf(ks)).entries)
      BY <1>1, <3>2, SampledInSteps
    <3>4. Load(c, PairsOf(ks)).entries # <<>>
      BY <3>3
    <3>5. Load(c, PairsOf(ks)).size = Len(ks)
      BY <1>8, LoadKeeps DEF Applicable
    <3> QED
      BY <3>1, <3>4, <3>5 DEF FSTWindows
  <2>2. Distinct(ks)
    BY <1>8 DEF Applicable
  <2>3. Width(c, Len(ks)) = 2 * c.scale + 1
    BY <1>8 DEF Width, HashMap
  <2>4. CASE w = FSTWindow(Load(c, PairsOf(ks)), ks[f + 1], c.scale)
    <3>1. Holds(w, f, Len(ks), 2 * c.scale + 1)
      BY <1>8, <2>2, <2>4, FSTHolds
    <3> QED
      BY <1>1, <2>3, <3>1 DEF Holds
  <2>5. CASE w = Window(0, Len(ks))
    <3>1. w.start = 0 /\ w.stop = Len(ks)
      BY <2>5 DEF Window
    <3> QED
      BY <1>1, <1>2, <1>8, <2>3, <2>5, <3>1
  <2> QED
    BY <2>1, <2>4, <2>5
<1>9. CASE c.kind = "Wormhole"
  <2>1. w \in WormholeWindows(Load(c, PairsOf(ks)), ks[f + 1])
    BY <1>9 DEF Windows, HashMap
  <2>2. Distinct(ks)
    BY <1>9 DEF Applicable
  <2>3. Holds(w, f, Len(ks), 2 * c.scale)
    BY <1>9, <2>1, <2>2, WormholeHolds
  <2>4. Width(c, Len(ks)) = 2 * c.scale
    BY <1>9 DEF Width, HashMap
  <2> QED
    BY <1>1, <2>3, <2>4 DEF Holds
<1> QED
  BY <1>1, <1>3, <1>4, <1>5, <1>6, <1>7, <1>8, <1>9 DEF Kinds, HashMap
-----------------------------------------------------------------------------
(* Each key of the data has a first row.                                     *)
LEMMA FirstRowThere ==
  ASSUME Dataset(keys), NEW i \in DOMAIN keys, lookup_key = keys[i]
  PROVE  FirstOf(keys, FirstRow) /\ keys[FirstRow + 1] = lookup_key
<1> DEFINE T == {p \in 0 .. Len(keys) - 1 : keys[p + 1] = lookup_key}
           First(p) == /\ keys[p + 1] = lookup_key
                       /\ \A q \in 0 .. p - 1 : keys[q + 1] # lookup_key
<1>1. Len(keys) \in Nat /\ DOMAIN keys = 1 .. Len(keys) /\ i \in Nat
  BY DatasetTyped
<1>2. T \subseteq Nat /\ i - 1 \in T
  <2>1. i - 1 \in 0 .. Len(keys) - 1 /\ i - 1 + 1 = i
    BY <1>1
  <2> QED
    BY <2>1
<1>3. PICK t \in T : \A y \in T : t <= y
  <2> HIDE DEF T
  <2> QED
    BY <1>2, LeastNatural
<1>4. t \in 0 .. Len(keys) - 1 /\ t \in Nat /\ keys[t + 1] = lookup_key
  OBVIOUS
<1>5. ASSUME NEW q \in 0 .. t - 1 PROVE keys[q + 1] # lookup_key
  <2>1. q \in 0 .. Len(keys) - 1 /\ ~ (t <= q)
    BY <1>1, <1>4
  <2>2. q \notin T
    <3> HIDE DEF T
    <3> QED
      BY <1>3, <2>1
  <2> QED
    BY <2>1, <2>2
<1>6. First(t)
  BY <1>4, <1>5
<1> HIDE DEF T, First
<1>7. FirstRow \in 0 .. Len(keys) - 1 /\ First(FirstRow)
  <2>1. FirstRow = CHOOSE p \in 0 .. Len(keys) - 1 : First(p)
    BY DEF FirstRow, First
  <2> QED
    BY <1>4, <1>6, <2>1
<1> QED
  BY <1>7 DEF First, FirstOf

(* What is built is the dataset's dictionary; what is answered, one of its    *)
(* windows for a key of the data.                                           *)
ListInv ==
  /\ competitor \in Competitors /\ Dataset(keys) /\ Applicable(competitor, Unique)
  /\ pc \in {"build", "lookup", "answered"}
  /\ pc # "build" => index = Load(competitor, IndexData)
  /\ pc = "answered" =>
       \E i \in DOMAIN keys :
         /\ lookup_key = keys[i]
         /\ bound \in Windows(competitor, index, lookup_key)

LEMMA ListInvHolds == ListSpec => []ListInv
<1>1. ASSUME ListInit PROVE ListInv
  <2>1. PICK t \in Trials : competitor = t.competitor /\ keys = t.keys
    BY <1>1 DEF ListInit
  <2>2. /\ t.competitor \in Competitors
        /\ t.keys \in Seq(KeyType) /\ t.keys # <<>>
        /\ Len(t.keys) < RowRange /\ RowRange \in Nat
        /\ \A i, j \in DOMAIN t.keys : i <= j => t.keys[i] <= t.keys[j]
    BY ListLookupAssumption DEF Competitors, KeyType
  <2>3. DOMAIN t.keys = 1 .. Len(t.keys) /\ Len(t.keys) \in 1 .. RowRange - 1
    BY <2>2
  <2>4. Dataset(keys)
    BY <2>1, <2>2, <2>3 DEF Dataset
  <2>5. Applicable(competitor, Unique) /\ pc = "build"
    BY <1>1 DEF ListInit
  <2> QED
    BY <2>1, <2>2, <2>4, <2>5 DEF ListInv
<1>2. ASSUME ListInv, [ListNext]_listed PROVE ListInv'
  <2>1. CASE BuildList
    BY <1>2, <2>1 DEF ListInv, BuildList, Unique, IndexData
  <2>2. CASE AskList
    <3>1. PICK i \in DOMAIN keys : Ask(keys[i], Windows(competitor, index, keys[i]))
      BY <2>2 DEF AskList
    <3>2. /\ UNCHANGED <<competitor, keys, index>>
          /\ pc \in {"lookup", "answered"} /\ pc' = "answered"
          /\ lookup_key' = keys[i]
          /\ bound' \in Windows(competitor, index, keys[i])
      BY <3>1 DEF Ask
    <3> QED
      BY <1>2, <3>2 DEF ListInv, Unique, IndexData
  <2>3. CASE UNCHANGED listed
    BY <1>2, <2>3 DEF ListInv, listed, Unique, IndexData
  <2> QED
    BY <1>2, <2>1, <2>2, <2>3 DEF ListNext
<1> QED
  BY <1>1, <1>2, PTL DEF ListSpec

(* An answer, in the words of the lemma above.                               *)
LEMMA AnswerHolds ==
  ASSUME ListInv, pc = "answered", ~ WormholeGap
  PROVE  /\ bound.start \in Nat /\ bound.stop \in Nat /\ FirstRow \in Nat
         /\ Len(keys) \in Nat /\ Width(competitor, Len(keys)) \in Nat
         /\ bound.stop <= Len(keys)
         /\ \/ bound.stop <= bound.start + Width(competitor, Len(keys))
            \/ competitor.kind = "FST" /\ bound = Window(0, Len(keys))
         /\ ~ LastRowOnly => bound.start <= FirstRow /\ FirstRow <= bound.stop
<1>1. /\ competitor \in Competitors /\ Dataset(keys)
      /\ Applicable(competitor, Distinct(keys))
      /\ index = Load(competitor, PairsOf(keys))
  BY DEF ListInv, Unique, Distinct, IndexData, PairsOf
<1>2. FirstOf(keys, FirstRow) /\ keys[FirstRow + 1] = lookup_key
  BY <1>1, FirstRowThere DEF ListInv
<1>3. bound \in Windows(competitor, Load(competitor, PairsOf(keys)), keys[FirstRow + 1])
  BY <1>1, <1>2 DEF ListInv
<1>4. ~ (/\ competitor.kind = "Wormhole"
         /\ \/ keys[FirstRow + 1] = 0
            \/ Len(Load(competitor, PairsOf(keys)).entries) < 2)
  BY <1>1, <1>2 DEF WormholeGap
<1>5. LastRowOnly <=> competitor.kind = "CuckooMap" /\ ~ Distinct(keys)
  BY DEF LastRowOnly, Unique, Distinct
<1>6. Len(keys) \in Nat /\ FirstRow \in Nat
  BY <1>1, <1>2, DatasetTyped DEF FirstOf
<1> QED
  BY <1>1, <1>2, <1>3, <1>4, <1>5, <1>6, WindowsHold

(***************************************************************************)
(* No competitor leaves the first row of a key out of the window it answers    *)
(* with, the cuckoo map for keys that repeat and Wormhole's two gaps aside:   *)
(* for every dataset, every scale and every number of rows and keys.         *)
(***************************************************************************)
THEOREM ListsCoverFirst == ListSpec => []CoversFirst
<1>1. ListInv => CoversFirst
  <2> SUFFICES ASSUME ListInv, pc = "answered", ~ WormholeGap, ~ LastRowOnly
               PROVE  FirstRow \in bound.start .. bound.stop
    BY DEF CoversFirst
  <2>1. /\ bound.start \in Nat /\ bound.stop \in Nat /\ FirstRow \in Nat
        /\ bound.start <= FirstRow /\ FirstRow <= bound.stop
    BY AnswerHolds
  <2> QED
    BY <2>1
<1> QED
  BY <1>1, ListInvHolds, PTL

(***************************************************************************)
(* No competitor has more rows searched than its scale makes it keep apart,    *)
(* but for FST where its trie errs and all of the data is searched; and no     *)
(* window of any reaches beyond the data.                                   *)
(***************************************************************************)
THEOREM ListsNarrow == ListSpec => []Narrow
<1>1. ListInv => Narrow
  <2> SUFFICES ASSUME ListInv, pc = "answered", ~ WormholeGap
               PROVE  /\ bound.stop <= Len(keys)
                      /\ \/ competitor.kind = "FST" /\ bound = Window(0, Len(keys))
                         \/ bound.stop - bound.start
                              <= Width(competitor, Len(keys))
    BY DEF Narrow, Width
  <2>1. /\ bound.start \in Nat /\ bound.stop \in Nat
        /\ Width(competitor, Len(keys)) \in Nat
        /\ bound.stop <= Len(keys)
        /\ \/ bound.stop <= bound.start + Width(competitor, Len(keys))
           \/ competitor.kind = "FST" /\ bound = Window(0, Len(keys))
    BY AnswerHolds
  <2> HIDE DEF Width
  <2> QED
    BY <2>1
<1> QED
  BY <1>1, ListInvHolds, PTL
=============================================================================
