----------------------------- MODULE Foundations -----------------------------
(***************************************************************************)
(* Facts of arithmetic and order that the other proofs rest on.             *)
(*                                                                          *)
(* Induction is done here, and by whoever cites this module, by the least    *)
(* counterexample: where something does not hold of every natural number,     *)
(* there is a least one of which it does not (LeastNatural).                 *)
(***************************************************************************)
EXTENDS Integers, Sequences, FiniteSets, Selections, WellFoundedInduction,
        FiniteSetTheorems, PowersOfTwo, TLAPS

(* Every set of natural numbers but the empty one has a least element.       *)
LEMMA LeastNatural ==
  ASSUME NEW T, T \subseteq Nat, T # {}
  PROVE  \E x \in T : \A y \in T : x <= y
<1> DEFINE Less == {ss \in Nat \X Nat : ss[1] < ss[2]}
<1>1. IsWellFoundedOn(Less, Nat)
  BY NatLessThanWellFounded DEF OpToRel
<1>2. \E x \in T : \A y \in T : <<y, x>> \notin Less
  <2> HIDE DEF Less
  <2> QED
    BY <1>1, WFMin
<1>3. ASSUME NEW x \in T, NEW y \in T, <<y, x>> \notin Less
      PROVE  x <= y
  <2>1. <<y, x>> \in Nat \X Nat
    OBVIOUS
  <2>2. ~ (y < x)
    BY <1>3, <2>1
  <2> QED
    BY <2>2
<1> QED
  BY <1>2, <1>3

(* And one that is bounded has a greatest.                                  *)
LEMMA GreatestNatural ==
  ASSUME NEW T, T \subseteq Nat, T # {}, NEW n \in Nat, \A x \in T : x <= n
  PROVE  \E x \in T : \A y \in T : y <= x
<1> DEFINE U == {n - x : x \in T}
<1>1. U \subseteq Nat /\ U # {}
  <2>1. \A x \in T : n - x \in Nat
    OBVIOUS
  <2>2. PICK x \in T : TRUE
    OBVIOUS
  <2>3. n - x \in U
    OBVIOUS
  <2> QED
    BY <2>1, <2>3
<1>2. PICK u \in U : \A v \in U : u <= v
  <2> HIDE DEF U
  <2> QED
    BY <1>1, LeastNatural
<1>3. PICK x \in T : u = n - x
  BY <1>2
<1>4. ASSUME NEW y \in T PROVE y <= x
  <2>1. n - y \in U
    OBVIOUS
  <2>2. u <= n - y
    BY <1>2, <2>1
  <2> QED
    BY <1>3, <2>2
<1> QED
  BY <1>4

(***************************************************************************)
(* The place std::lower_bound is specified to return exists, in rows of any   *)
(* keys: the first row whose key is not less, or `last`.                     *)
(***************************************************************************)
THEOREM LowerBoundExists ==
  ASSUME NEW data, NEW key \in Int, NEW first \in Nat, NEW last \in Nat,
         first <= last, \A q \in first .. last - 1 : data[q] \in Int
  PROVE  \E p \in first .. last :
           /\ \A q \in first .. p - 1 : data[q] < key
           /\ p = last \/ data[p] >= key
<1> DEFINE T == {q \in first .. last : q = last \/ data[q] >= key}
<1>1. T \subseteq Nat /\ last \in T
  OBVIOUS
<1>2. PICK p \in T : \A q \in T : p <= q
  <2> HIDE DEF T
  <2> QED
    BY <1>1, LeastNatural
<1>3. ASSUME NEW q \in first .. p - 1 PROVE data[q] < key
  <2>1. q \in first .. last /\ q # last /\ q \notin T
    BY <1>2
  <2> QED
    BY <2>1
<1> QED
  BY <1>2, <1>3
-----------------------------------------------------------------------------
(* A recursive definition says what it seems to say: tables of the first      *)
(* powers exist for every n, agree with each other, and so make up a function *)
(* that solves the equation of Pow2.                                        *)
IsTable(f, n) ==
  /\ f \in [0 .. n -> Nat \ {0}]
  /\ f[0] = 1
  /\ \A i \in 1 .. n : f[i] = 2 * f[i - 1]

LEMMA TableExists == \A n \in Nat : \E f : IsTable(f, n)
<1> DEFINE T == {n \in Nat : ~ \E f : IsTable(f, n)}
<1>1. SUFFICES ASSUME T # {} PROVE FALSE
  OBVIOUS
<1>2. PICK m \in T : \A y \in T : m <= y
  <2> HIDE DEF T
  <2>1. T \subseteq Nat
    BY DEF T
  <2> QED
    BY <1>1, <2>1, LeastNatural
<1>3. m # 0
  <2>1. IsTable([i \in 0 .. 0 |-> 1], 0)
    BY DEF IsTable
  <2> QED
    BY <2>1
<1>4. m - 1 \in Nat /\ m - 1 \notin T
  BY <1>2, <1>3
<1>5. PICK f : IsTable(f, m - 1)
  BY <1>4
<1>6. IsTable([i \in 0 .. m |-> IF i = m THEN 2 * f[m - 1] ELSE f[i]], m)
  BY <1>3, <1>4, <1>5 DEF IsTable
<1> QED
  BY <1>6

LEMMA TablesAgree ==
  ASSUME NEW n \in Nat, NEW m \in Nat, n <= m,
         NEW f, NEW g, IsTable(f, n), IsTable(g, m)
  PROVE  \A i \in 0 .. n : f[i] = g[i]
<1> DEFINE T == {i \in 0 .. n : f[i] # g[i]}
<1>1. SUFFICES ASSUME T # {} PROVE FALSE
  OBVIOUS
<1>2. PICK k \in T : \A y \in T : k <= y
  <2>1. T \subseteq Nat
    OBVIOUS
  <2> HIDE DEF T
  <2> QED
    BY <1>1, <2>1, LeastNatural
<1>3. k # 0
  BY DEF IsTable
<1>4. k - 1 \in 0 .. n /\ k - 1 \notin T
  BY <1>2, <1>3
<1>5. f[k] = g[k]
  BY <1>3, <1>4 DEF IsTable
<1> QED
  BY <1>5

(* The laws of powers of two.                                               *)
THEOREM Pow2Laws ==
  /\ \A n \in Nat : Pow2[n] \in Nat \ {0}
  /\ Pow2[0] = 1
  /\ \A n \in Nat : Pow2[n + 1] = 2 * Pow2[n]
<1> DEFINE F(n) == CHOOSE f : IsTable(f, n)
           g == [n \in Nat |-> F(n)[n]]
           Solves(h) == h = [n \in Nat |-> IF n = 0 THEN 1 ELSE 2 * h[n - 1]]
<1>1. ASSUME NEW n \in Nat PROVE IsTable(F(n), n)
  BY TableExists
<1> HIDE DEF F
<1>2. \A n \in Nat : g[n] \in Nat \ {0}
  BY <1>1 DEF IsTable
<1>3. g[0] = 1
  BY <1>1 DEF IsTable
<1>4. ASSUME NEW n \in Nat PROVE g[n + 1] = 2 * g[n]
  <2>1. IsTable(F(n + 1), n + 1) /\ IsTable(F(n), n)
    BY <1>1
  <2>2. F(n + 1)[n + 1] = 2 * F(n + 1)[n]
    BY <2>1 DEF IsTable
  <2>3. F(n)[n] = F(n + 1)[n]
    BY <2>1, TablesAgree, n + 1 \in Nat, n <= n + 1, n \in 0 .. n
  <2> QED
    BY <2>2, <2>3
<1>5. Solves(g)
  <2>1. ASSUME NEW n \in Nat, n # 0 PROVE g[n] = 2 * g[n - 1]
    <3> HIDE DEF g
    <3>1. n - 1 \in Nat /\ (n - 1) + 1 = n
      BY <2>1
    <3> QED
      BY <1>4, <3>1
  <2> QED
    BY <1>3, <2>1
<1> HIDE DEF g
<1>6. Solves(Pow2)
  <2>1. \E h : Solves(h)
    BY <1>5
  <2> QED
    BY <2>1 DEF Pow2
<1>7. ASSUME NEW n \in Nat PROVE Pow2[n] = g[n]
  <2> DEFINE T == {i \in Nat : Pow2[i] # g[i]}
  <2>1. SUFFICES ASSUME T # {} PROVE FALSE
    OBVIOUS
  <2>2. PICK k \in T : \A y \in T : k <= y
    <3>1. T \subseteq Nat
      OBVIOUS
    <3> HIDE DEF T
    <3> QED
      BY <2>1, <3>1, LeastNatural
  <2>3. k # 0
    BY <1>3, <1>6
  <2>4. k - 1 \in Nat /\ k - 1 \notin T
    BY <2>2, <2>3
  <2>5. Pow2[k - 1] = g[k - 1] /\ (k - 1) + 1 = k
    BY <2>4
  <2>6. Pow2[k] = 2 * Pow2[k - 1]
    BY <1>6, <2>3
  <2>7. g[k] = 2 * g[k - 1]
    BY <1>4, <2>4, <2>5
  <2> QED
    BY <2>5, <2>6, <2>7
<1> QED
  BY <1>2, <1>3, <1>4, <1>7

(* They grow, and faster than the numbers they are powers of.               *)
LEMMA Pow2Grows ==
  /\ \A n \in Nat : n < Pow2[n]
  /\ \A n \in Nat : \A m \in 0 .. n : Pow2[m] <= Pow2[n]
<1>1. ASSUME NEW n \in Nat, ~ (n < Pow2[n] /\ \A m \in 0 .. n : Pow2[m] <= Pow2[n])
      PROVE  FALSE
  <2> DEFINE Grown(k) == k < Pow2[k] /\ \A m \in 0 .. k : Pow2[m] <= Pow2[k]
             T == {k \in Nat : ~ Grown(k)}
  <2>1. T \subseteq Nat /\ T # {}
    BY <1>1
  <2>2. PICK k \in T : \A y \in T : k <= y
    <3> HIDE DEF T
    <3> QED
      BY <2>1, LeastNatural
  <2>3. k # 0
    BY Pow2Laws
  <2>4. k - 1 \in Nat /\ Grown(k - 1)
    BY <2>2, <2>3
  <2>5. Pow2[k] = 2 * Pow2[k - 1] /\ Pow2[k - 1] \in Nat \ {0} /\ Pow2[k] \in Nat
    BY <2>4, Pow2Laws, (k - 1) + 1 = k
  <2>6. \A m \in 0 .. k : m = k \/ m \in 0 .. k - 1
    OBVIOUS
  <2>7. \A m \in 0 .. k - 1 : Pow2[m] \in Nat
    BY Pow2Laws
  <2>8. Grown(k)
    BY <2>4, <2>5, <2>6, <2>7
  <2> QED
    BY <2>8
<1> QED
  BY <1>1

(* Shifting twice is shifting once by the sum.                               *)
LEMMA Pow2Sum ==
  ASSUME NEW m \in Nat
  PROVE  \A n \in Nat : Pow2[m + n] = Pow2[m] * Pow2[n]
<1> DEFINE T == {n \in Nat : Pow2[m + n] # Pow2[m] * Pow2[n]}
<1>1. SUFFICES ASSUME T # {} PROVE FALSE
  OBVIOUS
<1>2. PICK k \in T : \A y \in T : k <= y
  <2>1. T \subseteq Nat
    OBVIOUS
  <2> HIDE DEF T
  <2> QED
    BY <1>1, <2>1, LeastNatural
<1>3. k # 0
  BY Pow2Laws, m + 0 = m
<1>4. k - 1 \in Nat /\ Pow2[m + (k - 1)] = Pow2[m] * Pow2[k - 1]
  BY <1>2, <1>3
<1>5. Pow2[k] = 2 * Pow2[k - 1] /\ Pow2[k - 1] \in Nat /\ Pow2[m] \in Nat
  BY <1>4, Pow2Laws, (k - 1) + 1 = k
<1>6. Pow2[m + k] = 2 * Pow2[m + (k - 1)]
  BY <1>4, Pow2Laws, m + (k - 1) \in Nat, (m + (k - 1)) + 1 = m + k
<1>7. Pow2[m] * (2 * Pow2[k - 1]) = 2 * (Pow2[m] * Pow2[k - 1])
  BY <1>5
<1> QED
  BY <1>4, <1>5, <1>6, <1>7
-----------------------------------------------------------------------------
(* The k-th place of a finite set of numbers is the one that has k of them up  *)
(* to itself: there is exactly one.                                         *)
LEMMA RankedPlaces ==
  ASSUME NEW P, P \subseteq Nat, IsFiniteSet(P)
  PROVE  /\ Cardinality(P) \in Nat
         /\ \A i \in P : Rank(P, i) \in 1 .. Cardinality(P)
         /\ \A i, j \in P : i < j => Rank(P, i) < Rank(P, j)
         /\ \A k \in 1 .. Cardinality(P) : \E i \in P : Rank(P, i) = k
<1> DEFINE n == Cardinality(P)
           upto == [i \in P |-> {j \in P : j <= i}]
           r == [i \in P |-> Cardinality(upto[i])]
<1>1. \A i \in P : i \in Nat /\ i \in upto[i] /\ upto[i] \in SUBSET P
                     /\ \A j \in upto[i] : j <= i
  OBVIOUS
<1>2. n \in Nat /\ (P # {} => n > 0)
  BY FS_CardinalityType, FS_EmptySet
<1>3. \A i \in P : r[i] = Rank(P, i)
  BY DEF Rank
<1>4. \A i, j \in P : i < j => upto[i] \subseteq upto[j] \ {j}
  <2> SUFFICES ASSUME NEW i \in P, NEW j \in P, i < j, NEW x \in upto[i]
               PROVE  x \in upto[j] \ {j}
    OBVIOUS
  <2>1. i \in Nat /\ j \in Nat /\ x \in Nat /\ x \in P /\ x <= i
    OBVIOUS
  <2> QED
    BY <2>1
<1>5. \A i \in P : upto[i] \ {i} # {} => \E m \in P : m < i /\ upto[m] = upto[i] \ {i}
  <2> SUFFICES ASSUME NEW i \in P, upto[i] \ {i} # {}
               PROVE  \E m \in P : m < i /\ upto[m] = upto[i] \ {i}
    OBVIOUS
  <2>1. upto[i] \ {i} \subseteq Nat /\ i \in Nat /\ \A x \in upto[i] \ {i} : x <= i
    BY <1>1
  <2>2. PICK m \in upto[i] \ {i} : \A x \in upto[i] \ {i} : x <= m
    <3> HIDE DEF upto
    <3> QED
      BY <2>1, GreatestNatural
  <2>3. m \in P /\ m \in Nat /\ m < i
    BY <2>1, <2>2
  <2>4. \A x \in P : x \in Nat /\ (x <= m <=> x <= i /\ x # i)
    <3> SUFFICES ASSUME NEW x \in P PROVE x <= m <=> x <= i /\ x # i
      OBVIOUS
    <3>1. x \in Nat /\ (x \in upto[i] \ {i} <=> x <= i /\ x # i)
      OBVIOUS
    <3> HIDE DEF upto
    <3> QED
      BY <2>1, <2>2, <2>3, <3>1
  <2> QED
    BY <2>3, <2>4
<1> HIDE DEF upto
<1>6. \A i \in P : /\ IsFiniteSet(upto[i]) /\ r[i] \in Nat /\ 1 <= r[i] /\ r[i] <= n
                   /\ IsFiniteSet(upto[i] \ {i})
                   /\ Cardinality(upto[i] \ {i}) = r[i] - 1
  <2> SUFFICES ASSUME NEW i \in P
               PROVE  /\ IsFiniteSet(upto[i]) /\ r[i] \in Nat /\ 1 <= r[i] /\ r[i] <= n
                      /\ IsFiniteSet(upto[i] \ {i})
                      /\ Cardinality(upto[i] \ {i}) = r[i] - 1
    OBVIOUS
  <2>1. IsFiniteSet(upto[i]) /\ r[i] \in Nat /\ r[i] <= n
    BY <1>1, FS_Subset, FS_CardinalityType
  <2>2. r[i] # 0
    BY <1>1, <2>1, FS_EmptySet
  <2>3. /\ IsFiniteSet(upto[i] \ {i})
        /\ Cardinality(upto[i] \ {i}) = r[i] - 1
    BY <1>1, <2>1, FS_RemoveElement
  <2> QED
    BY <1>2, <2>1, <2>2, <2>3
<1>7. \A i, j \in P : i < j => r[i] < r[j]
  <2> SUFFICES ASSUME NEW i \in P, NEW j \in P, i < j PROVE r[i] < r[j]
    OBVIOUS
  <2>1. r[i] <= Cardinality(upto[j] \ {j})
    BY <1>4, <1>6, FS_Subset
  <2>2. r[i] <= r[j] - 1 /\ r[i] \in Nat /\ r[j] \in Nat
    BY <1>6, <2>1
  <2> HIDE DEF r
  <2> QED
    BY <2>2
<1>8. \A i \in P : r[i] > 1 => \E m \in P : m < i /\ r[m] = r[i] - 1
  <2> SUFFICES ASSUME NEW i \in P, r[i] > 1
               PROVE  \E m \in P : m < i /\ r[m] = r[i] - 1
    OBVIOUS
  <2>1. Cardinality(upto[i] \ {i}) # 0
    BY <1>2, <1>6
  <2>2. upto[i] \ {i} # {}
    BY <2>1, FS_EmptySet
  <2>3. PICK m \in P : m < i /\ upto[m] = upto[i] \ {i}
    BY <1>5, <2>2
  <2> QED
    BY <1>6, <2>3
<1>9. P # {} => \E m \in P : r[m] = n
  <2> SUFFICES ASSUME P # {} PROVE \E m \in P : r[m] = n
    OBVIOUS
  <2> DEFINE Ranks == {r[x] : x \in P}
  <2>1. Ranks \subseteq Nat /\ Ranks # {} /\ \A x \in Ranks : x <= n
    <3>1. \A x \in P : r[x] \in Nat /\ r[x] <= n
      BY <1>6
    <3> HIDE DEF r, n
    <3> QED
      BY <1>2, <3>1
  <2>2. PICK m \in P : \A x \in P : r[x] <= r[m]
    <3>1. PICK k \in Ranks : \A x \in Ranks : x <= k
      <4> HIDE DEF Ranks, n
      <4> QED
        BY <1>2, <2>1, GreatestNatural
    <3> HIDE DEF r
    <3> QED
      BY <3>1
  <2>3. \A x \in P : x <= m
    <3> SUFFICES ASSUME NEW x \in P, ~ (x <= m) PROVE FALSE
      OBVIOUS
    <3>1. m < x
      BY <1>1
    <3> HIDE DEF r
    <3>2. r[m] < r[x] /\ r[x] <= r[m]
      BY <1>7, <2>2, <3>1
    <3>3. r[x] \in Nat /\ r[m] \in Nat
      BY <1>6
    <3> QED
      BY <3>2, <3>3
  <2>4. upto[m] = P
    BY <2>3 DEF upto
  <2> QED
    BY <2>4
<1> HIDE DEF r, n
<1>10. ASSUME NEW k \in 1 .. n PROVE \E i \in P : r[i] = k
  <2> DEFINE T == {i \in P : r[i] >= k}
  <2>1. P # {}
    BY <1>2, FS_EmptySet DEF n
  <2>2. T \subseteq Nat /\ T # {}
    <3>1. PICK m \in P : r[m] = n
      BY <1>9, <2>1
    <3>2. n >= k
      BY <1>2
    <3>3. m \in T
      BY <3>1, <3>2
    <3> QED
      BY <3>3
  <2>3. PICK i \in T : \A y \in T : i <= y
    <3> HIDE DEF T
    <3> QED
      BY <2>2, LeastNatural
  <2>4. ASSUME r[i] # k PROVE FALSE
    <3>1. i \in P /\ r[i] >= k /\ r[i] \in Nat /\ k \in Nat /\ k >= 1
      <4>1. i \in P /\ r[i] >= k
        OBVIOUS
      <4>2. r[i] \in Nat
        BY <1>6, <4>1
      <4> QED
        BY <1>2, <4>1, <4>2
    <3>2. r[i] > k /\ r[i] > 1
      BY <2>4, <3>1
    <3>3. PICK m \in P : m < i /\ r[m] = r[i] - 1
      BY <1>8, <3>1, <3>2
    <3>4. m \in T
      BY <3>1, <3>2, <3>3
    <3>5. m \in Nat /\ i \in Nat
      BY <1>1, <3>1
    <3> QED
      BY <2>3, <3>3, <3>4, <3>5
  <2> QED
    BY <2>3, <2>4
<1>11. ASSUME NEW i \in P PROVE r[i] \in 1 .. n
  <2>1. r[i] \in Nat /\ 1 <= r[i] /\ r[i] <= n
    BY <1>6
  <2> QED
    BY <1>2, <2>1
<1> QED
  BY <1>2, <1>3, <1>7, <1>10, <1>11 DEF n

(* PairsAt keeps the elements at the places asked for, each once, in order.    *)
LEMMA KeptPairs ==
  ASSUME NEW S, NEW s \in Seq(S), NEW P, P \subseteq DOMAIN s
  PROVE  /\ IsFiniteSet(P) /\ Cardinality(P) \in 0 .. Len(s)
         /\ PairsAt(s, P) \in Seq(S) /\ Len(PairsAt(s, P)) = Cardinality(P)
         /\ \A k \in 1 .. Cardinality(P) :
              \E i \in P : Rank(P, i) = k /\ PairsAt(s, P)[k] = s[i]
<1> DEFINE n == Cardinality(P)
           at(k) == CHOOSE i \in P : Rank(P, i) = k
<1>1. Len(s) \in Nat /\ DOMAIN s = 1 .. Len(s) /\ P \subseteq Nat
  OBVIOUS
<1>2. IsFiniteSet(P) /\ n \in Nat /\ n <= Len(s)
  <2>1. /\ IsFiniteSet(1 .. Len(s)) /\ P \in SUBSET (1 .. Len(s))
        /\ Cardinality(1 .. Len(s)) = Len(s)
    BY <1>1, FS_Interval
  <2> QED
    BY <2>1, FS_Subset, FS_CardinalityType
<1>3. \A k \in 1 .. n : at(k) \in P /\ Rank(P, at(k)) = k
  <2>1. \A k \in 1 .. n : \E i \in P : Rank(P, i) = k
    BY <1>1, <1>2, RankedPlaces
  <2> QED
    BY <2>1
<1>4. \A i \in P : s[i] \in S
  OBVIOUS
<1>5. PairsAt(s, P) = [k \in 1 .. n |-> s[at(k)]]
  BY DEF PairsAt
<1> HIDE DEF n, at
<1>6. PairsAt(s, P) \in Seq(S) /\ Len(PairsAt(s, P)) = n
  <2>1. \A k \in 1 .. n : s[at(k)] \in S
    BY <1>3, <1>4
  <2>2. PairsAt(s, P) \in [1 .. n -> S]
    BY <1>5, <2>1
  <2> QED
    BY <1>2, <2>2
<1>7. \A k \in 1 .. n : \E i \in P : Rank(P, i) = k /\ PairsAt(s, P)[k] = s[i]
  BY <1>3, <1>5
<1> QED
  BY <1>2, <1>6, <1>7 DEF n

LEMMA AllPlaces ==
  ASSUME NEW S, NEW s \in Seq(S)
  PROVE  PairsAt(s, DOMAIN s) = s
<1> DEFINE n == Len(s)
<1>1. n \in Nat /\ DOMAIN s = 1 .. n /\ s = [k \in 1 .. n |-> s[k]]
  OBVIOUS
<1>2. ASSUME NEW i \in 1 .. n PROVE Rank(1 .. n, i) = i
  <2>1. {j \in 1 .. n : j <= i} = 1 .. i /\ i \in Nat
    BY <1>1
  <2>2. Cardinality(1 .. i) = i
    BY <2>1, FS_Interval
  <2> QED
    BY <2>1, <2>2 DEF Rank
<1>3. Cardinality(1 .. n) = n
  <2>1. 1 \in Int /\ n \in Int
    BY <1>1
  <2>2. Cardinality(1 .. n) = IF 1 > n THEN 0 ELSE n - 1 + 1
    BY <2>1, FS_Interval
  <2> QED
    BY <1>1, <2>2
<1>4. \A k \in 1 .. n : (CHOOSE i \in 1 .. n : Rank(1 .. n, i) = k) = k
  BY <1>2
<1> QED
  BY <1>1, <1>3, <1>4 DEF PairsAt
=============================================================================
