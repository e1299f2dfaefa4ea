------------------------- MODULE InterpolationProofs -------------------------
(***************************************************************************)
(* The interpolation search never drops the first row of the key, and loses   *)
(* its way only where the code guards nothing, for every dataset and window,   *)
(* every width of the keys and every even mantissa.                          *)
(***************************************************************************)
EXTENDS InterpolationSearch, Foundations

(* Doubles.  The integer nearest to a / b is the quotient or one more.        *)
Carry(a, b, q) ==
  IF 2 * (a - q * b) > b \/ (2 * (a - q * b) = b /\ q % 2 = 1) THEN 1 ELSE 0

Between(a, b, q, n) ==
  /\ q \in Nat /\ q * b <= a /\ a < q * b + b
  /\ n = q + Carry(a, b, q) /\ n \in Nat

LEMMA NearestNatural ==
  ASSUME NEW a \in Nat, NEW b \in Nat \ {0}
  PROVE  Between(a, b, a \div b, Nearest[<<a, b>>])
<1> DEFINE q == a \div b
           up == 2 * (a - q * b) > b \/ (2 * (a - q * b) = b /\ q % 2 = 1)
<1>1. q \in Nat /\ q * b <= a /\ a < q * b + b
  OBVIOUS
<1>2. Nearest[<<a, b>>] = IF up THEN q + 1 ELSE q
  <2>1. <<a, b>> \in Fractions /\ <<a, b>>[1] = a /\ <<a, b>>[2] = b
    BY DEF Fractions
  <2> QED
    BY <2>1, Zenon DEF Nearest
<1>3. Carry(a, b, q) = IF up THEN 1 ELSE 0
  BY Zenon DEF Carry
<1> HIDE DEF q, up
<1>4. Nearest[<<a, b>>] \in Nat /\ Nearest[<<a, b>>] = q + Carry(a, b, q)
  BY <1>1, <1>2, <1>3
<1>5. Between(a, b, q, Nearest[<<a, b>>])
  BY <1>1, <1>4 DEF Between
<1> QED
  BY <1>5 DEF q

(* It is on the same side of every integer as a / b, and keeps the order.     *)
LEMMA NearestSide ==
  ASSUME NEW a \in Nat, NEW b \in Nat \ {0}, NEW c \in Nat
  PROVE  /\ a <= c * b => Nearest[<<a, b>>] <= c
         /\ c * b <= a => c <= Nearest[<<a, b>>]
         /\ Nearest[<<a, b>>] \in Nat
<1> DEFINE n == Nearest[<<a, b>>]
<1>1. PICK q : Between(a, b, q, n)
  BY NearestNatural
<1> HIDE DEF n
<1>2. ASSUME a <= c * b PROVE n <= c
  <2>1. CASE q + 1 <= c
    BY <1>1, <2>1 DEF Between, Carry
  <2>2. CASE c <= q
    <3>1. c * b <= q * b
      BY <1>1, <2>2 DEF Between
    <3>2. a = q * b /\ a = c * b
      BY <1>1, <1>2, <3>1 DEF Between
    <3>3. n = q
      BY <1>1, <3>2 DEF Between, Carry
    <3>4. ~ (c < q)
      <4>1. ASSUME c < q PROVE FALSE
        <5>1. (c + 1) * b <= q * b
          BY <1>1, <4>1 DEF Between
        <5> QED
          BY <1>1, <3>2, <5>1 DEF Between
      <4> QED
        BY <4>1
    <3> QED
      BY <1>1, <2>2, <3>3, <3>4 DEF Between
  <2> QED
    BY <1>1, <2>1, <2>2 DEF Between
<1>3. ASSUME c * b <= a PROVE c <= n
  <2>1. ASSUME q + 1 <= c PROVE FALSE
    <3>1. (q + 1) * b <= c * b
      BY <1>1, <2>1 DEF Between
    <3> QED
      BY <1>1, <1>3, <3>1 DEF Between
  <2> QED
    BY <1>1, <2>1 DEF Between, Carry
<1>4. n \in Nat
  BY <1>1 DEF Between
<1> QED
  BY <1>2, <1>3, <1>4 DEF n

LEMMA NearestMonotone ==
  ASSUME NEW a \in Nat, NEW d \in Nat, a <= d, NEW b \in Nat \ {0}
  PROVE  Nearest[<<a, b>>] <= Nearest[<<d, b>>]
<1> DEFINE m == Nearest[<<a, b>>]
           n == Nearest[<<d, b>>]
<1>1. PICK q : Between(a, b, q, m)
  <2>1. Between(a, b, a \div b, m)
    BY NearestNatural
  <2> QED
    BY <2>1, Zenon
<1>2. PICK r : Between(d, b, r, n)
  <2>1. Between(d, b, d \div b, n)
    BY NearestNatural
  <2> QED
    BY <2>1, Zenon
<1>3. SUFFICES m <= n
  OBVIOUS
<1> HIDE DEF m, n
<1>4. q \in Nat /\ r \in Nat /\ m <= q + 1 /\ r <= n
  BY <1>1, <1>2 DEF Between, Carry
<1>5. CASE q = r
  <2>1. PICK p : p = q * b
    OBVIOUS
  <2>2. /\ p \in Int /\ a - p <= d - p
        /\ Carry(a, b, q) = IF 2 * (a - p) > b \/ (2 * (a - p) = b /\ q % 2 = 1)
                            THEN 1 ELSE 0
        /\ Carry(d, b, q) = IF 2 * (d - p) > b \/ (2 * (d - p) = b /\ q % 2 = 1)
                            THEN 1 ELSE 0
    BY <1>4, <2>1 DEF Carry
  <2>3. Carry(a, b, q) <= Carry(d, b, q)
    BY <2>2
  <2> QED
    BY <1>1, <1>2, <1>5, <2>3 DEF Between, Carry
<1>6. CASE q < r
  BY <1>1, <1>2, <1>4, <1>6 DEF Between
<1>7. ~ (r < q)
  <2>1. ASSUME r < q PROVE FALSE
    <3>1. (r + 1) * b <= q * b
      BY <1>4, <2>1
    <3> QED
      BY <1>1, <1>2, <3>1 DEF Between
  <2> QED
    BY <2>1
<1> QED
  BY <1>4, <1>5, <1>6, <1>7

(* A number a / b lies in the binade of its exponent: no power of two below    *)
(* covers it.                                                               *)
LEMMA ExponentExists ==
  ASSUME NEW a \in Nat, NEW b \in Nat \ {0}
  PROVE  /\ Exponent(a, b) \in 0 .. a
         /\ a <= Mantissa * Pow2[Exponent(a, b)] * b
         /\ \A i \in 0 .. Exponent(a, b) - 1 : Mantissa * Pow2[i] * b < a
<1> DEFINE T == {j \in 0 .. a : a <= Mantissa * Pow2[j] * b}
<1>1. a \in T
  <2>1. Pow2[a] \in Nat /\ a < Pow2[a] /\ Mantissa \in Nat \ {0}
    BY Pow2Laws, Pow2Grows, InterpolationAssumption
  <2>2. Pow2[a] <= Mantissa * Pow2[a] /\ Mantissa * Pow2[a] \in Nat
    BY <2>1
  <2>3. Mantissa * Pow2[a] <= (Mantissa * Pow2[a]) * b
    BY <2>2
  <2> QED
    BY <2>1, <2>2, <2>3
<1>2. PICK j \in T : \A i \in T : j <= i
  <2>1. T \subseteq Nat
    OBVIOUS
  <2> HIDE DEF T
  <2> QED
    BY <1>1, <2>1, LeastNatural
<1>3. ASSUME NEW i \in 0 .. j - 1 PROVE Mantissa * Pow2[i] * b < a
  <2>1. i \in 0 .. a /\ i \notin T
    BY <1>2
  <2> HIDE DEF T
  <2>2. i \in Nat
    BY <2>1
  <2>3. Mantissa * Pow2[i] * b \in Nat
    <3>1. Mantissa \in Nat /\ Pow2[i] \in Nat
      BY <2>2, Pow2Laws, InterpolationAssumption
    <3>2. Mantissa * Pow2[i] \in Nat
      BY <3>1
    <3> QED
      BY <3>2
  <2>4. ~ (a <= Mantissa * Pow2[i] * b)
    BY <2>1 DEF T
  <2> QED
    BY <2>3, <2>4
<1> QED
  BY <1>2, <1>3 DEF Exponent

LEMMA ExponentNatural ==
  ASSUME NEW a \in Nat, NEW b \in Nat \ {0}
  PROVE  /\ Exponent(a, b) \in Nat
         /\ Spacing(a, b) = Pow2[Exponent(a, b)]
         /\ Spacing(a, b) \in Nat \ {0}
<1>1. Exponent(a, b) \in 0 .. a
  BY ExponentExists, Zenon
<1>2. Exponent(a, b) \in Nat
  BY <1>1
<1> QED
  BY <1>2, Pow2Laws DEF Spacing

LEMMA PositiveProduct ==
  ASSUME NEW a \in Nat \ {0}, NEW b \in Nat \ {0}
  PROVE  a * b \in Nat \ {0}
OBVIOUS

(* What the two functions are where they are applied.                        *)
LEMMA Rounding ==
  ASSUME NEW a \in Nat, NEW b \in Nat \ {0}
  PROVE  /\ Spacing(a, b) \in Nat \ {0}
         /\ b * Spacing(a, b) \in Nat \ {0}
         /\ Double[<<a, b>>] = Nearest[<<a, b * Spacing(a, b)>>] * Spacing(a, b)
         /\ Double[<<a, b>>] \in Nat
<1>1. Spacing(a, b) \in Nat \ {0}
  BY ExponentNatural
<1>2. b * Spacing(a, b) \in Nat \ {0}
  BY <1>1, PositiveProduct
<1>3. Double[<<a, b>>] = Nearest[<<a, b * Spacing(a, b)>>] * Spacing(a, b)
  BY <<a, b>> \in Fractions DEF Double, Fractions
<1>4. Nearest[<<a, b * Spacing(a, b)>>] \in Nat
  BY <1>2, NearestSide
<1> QED
  BY <1>1, <1>2, <1>3, <1>4

(***************************************************************************)
(* No result of an operation on doubles is rounded past a double: the doubles *)
(* are the numbers c * 2^k with c no more than the mantissa.                  *)
(***************************************************************************)
THEOREM RoundedUnderDouble ==
  ASSUME NEW a \in Nat, NEW b \in Nat \ {0}, NEW c \in 0 .. Mantissa, NEW k \in Nat,
         a <= (c * Pow2[k]) * b
  PROVE  Double[<<a, b>>] <= c * Pow2[k]
<1> DEFINE e == Exponent(a, b)
           g == Spacing(a, b)
<1>1. /\ e \in Nat /\ g = Pow2[e] /\ g \in Nat \ {0} /\ b * g \in Nat \ {0}
      /\ Double[<<a, b>>] = Nearest[<<a, b * g>>] * g
      /\ \A i \in 0 .. e - 1 : Mantissa * Pow2[i] * b < a
  BY ExponentExists, ExponentNatural, Rounding, Zenon
<1> HIDE DEF e, g
<1>2. Mantissa \in Nat /\ c \in Nat /\ c <= Mantissa /\ Pow2[k] \in Nat
  <2>1. Mantissa \in Nat
    BY InterpolationAssumption
  <2>2. Pow2[k] \in Nat
    BY Pow2Laws
  <2> QED
    BY <2>1, <2>2, c \in 0 .. Mantissa
<1>3. e <= k
  <2>1. ASSUME k < e PROVE FALSE
    <3>1. Mantissa * Pow2[k] * b < a
      BY <1>1, <2>1
    <3>2. c * Pow2[k] <= Mantissa * Pow2[k]
      BY <1>2
    <3>3. c * Pow2[k] \in Nat /\ Mantissa * Pow2[k] \in Nat
      BY <1>2
    <3>4. (c * Pow2[k]) * b <= (Mantissa * Pow2[k]) * b
      BY <3>2, <3>3
    <3> QED
      BY <1>2, <3>1, <3>3, <3>4
  <2> QED
    BY <1>1, <2>1
<1>4. /\ k - e \in Nat /\ Pow2[k - e] \in Nat
      /\ Pow2[k] = Pow2[k - e] * g
  <2>1. k - e \in Nat /\ (k - e) + e = k /\ e \in Nat
    BY <1>1, <1>3
  <2>2. Pow2[k - e] \in Nat /\ Pow2[(k - e) + e] = Pow2[k - e] * Pow2[e]
    BY <2>1, Pow2Laws, Pow2Sum
  <2> QED
    BY <1>1, <2>1, <2>2
<1> DEFINE m == c * Pow2[k - e]
<1>5. m \in Nat /\ c * Pow2[k] = m * g
  BY <1>1, <1>2, <1>4
<1> HIDE DEF m
<1>6. (m * g) * b = m * (b * g)
  BY <1>1, <1>5
<1>7. Nearest[<<a, b * g>>] <= m /\ Nearest[<<a, b * g>>] \in Nat
  BY <1>1, <1>5, <1>6, NearestSide
<1>8. Nearest[<<a, b * g>>] * g <= m * g
  BY <1>1, <1>5, <1>7
<1> QED
  BY <1>1, <1>5, <1>8

(***************************************************************************)
(* The conversion of a difference of keys to double keeps the order of        *)
(* differences, rounding to nearest and ties to even included, for every even *)
(* mantissa.                                                                *)
(***************************************************************************)
THEOREM RoundingMonotone ==
  ASSUME NEW x \in Nat, NEW y \in Nat, x <= y
  PROVE  ToDouble(x) <= ToDouble(y)
<1> DEFINE i == Exponent(x, 1)
           j == Exponent(y, 1)
<1>1. /\ i \in Nat /\ j \in Nat
      /\ x <= Mantissa * Pow2[i] * 1 /\ y <= Mantissa * Pow2[j] * 1
      /\ \A k \in 0 .. i - 1 : Mantissa * Pow2[k] * 1 < x
      /\ \A k \in 0 .. j - 1 : Mantissa * Pow2[k] * 1 < y
  BY ExponentExists
<1>2. /\ Pow2[i] \in Nat \ {0} /\ Pow2[j] \in Nat \ {0}
      /\ 1 * Pow2[i] = Pow2[i] /\ 1 * Pow2[j] = Pow2[j]
      /\ Mantissa \in Nat \ {0} /\ Mantissa % 2 = 0
  <2>1. i \in Nat /\ j \in Nat
    BY ExponentNatural
  <2> HIDE DEF i, j
  <2>2. Pow2[i] \in Nat \ {0} /\ Pow2[j] \in Nat \ {0}
    BY <2>1, Pow2Laws
  <2> QED
    BY <2>2, InterpolationAssumption
<1>3. /\ ToDouble(x) = Nearest[<<x, Pow2[i]>>] * Pow2[i] /\ Nearest[<<x, Pow2[i]>>] \in Nat
      /\ ToDouble(y) = Nearest[<<y, Pow2[j]>>] * Pow2[j] /\ Nearest[<<y, Pow2[j]>>] \in Nat
  <2>1. /\ Double[<<x, 1>>] = Nearest[<<x, 1 * Spacing(x, 1)>>] * Spacing(x, 1)
        /\ Double[<<y, 1>>] = Nearest[<<y, 1 * Spacing(y, 1)>>] * Spacing(y, 1)
    BY Rounding
  <2> QED
    BY <1>2, <2>1, NearestSide DEF ToDouble, Spacing
<1> HIDE DEF i, j
<1>4. i <= j
  <2>1. ASSUME j < i PROVE FALSE
    <3>1. Mantissa * Pow2[j] * 1 < x
      BY <1>1, <2>1
    <3> QED
      BY <1>1, <1>2, <3>1
  <2> QED
    BY <1>1, <2>1
<1>5. CASE i = j
  <2>1. Nearest[<<x, Pow2[i]>>] <= Nearest[<<y, Pow2[i]>>]
    BY <1>2, NearestMonotone
  <2> QED
    BY <1>2, <1>3, <1>5, <2>1
<1>6. CASE i < j
  (* Between the two lies Mantissa * Pow2[j - 1], a multiple of both gaps.   *)
  <2>1. /\ j - 1 \in Nat /\ i \in 0 .. j - 1 /\ (j - 1) + 1 = j
        /\ j - 1 \in 0 .. j - 1
    BY <1>1, <1>6
  <2>2. /\ Pow2[i] <= Pow2[j - 1] /\ Pow2[j] = 2 * Pow2[j - 1]
        /\ Pow2[j - 1] \in Nat
    BY <2>1, Pow2Laws, Pow2Grows
  <2>3. PICK half \in Nat : Mantissa = 2 * half
    <3>1. Mantissa \div 2 \in Nat /\ Mantissa = 2 * (Mantissa \div 2)
      BY <1>2
    <3> QED
      BY <3>1
  <2>4. Mantissa * Pow2[j - 1] = half * Pow2[j]
    BY <1>2, <2>2, <2>3
  <2>5. Nearest[<<x, Pow2[i]>>] <= Mantissa
    BY <1>1, <1>2, NearestSide
  <2>6. Nearest[<<x, Pow2[i]>>] * Pow2[i] <= Mantissa * Pow2[i]
    BY <1>2, <1>3, <2>5
  <2>7. Mantissa * Pow2[i] <= Mantissa * Pow2[j - 1]
    BY <1>2, <2>2
  <2>8. half * Pow2[j] <= y
    BY <1>1, <2>1, <2>4, <1>2, <2>2
  <2>9. half <= Nearest[<<y, Pow2[j]>>]
    BY <1>2, <2>8, NearestSide
  <2>10. half * Pow2[j] <= Nearest[<<y, Pow2[j]>>] * Pow2[j]
    BY <1>2, <1>3, <2>9
  <2> QED
    BY <1>2, <1>3, <2>2, <2>3, <2>4, <2>6, <2>7, <2>10
<1> QED
  BY <1>1, <1>4, <1>5, <1>6

LEMMA ToDoubleNatural ==
  ASSUME NEW x \in Nat
  PROVE  ToDouble(x) = Double[<<x, 1>>] /\ ToDouble(x) \in Nat
<1>1. Double[<<x, 1>>] \in Nat
  BY Rounding, 1 \in Nat \ {0}, Zenon
<1> QED
  BY <1>1 DEF ToDouble

(* Only equal keys have a difference of 0.0.                                 *)
LEMMA NoneRoundedToZero == ASSUME NEW x \in Nat \ {0} PROVE ToDouble(x) >= 1
<1> DEFINE e == Exponent(x, 1)
<1>1. /\ e \in Nat /\ \A i \in 0 .. e - 1 : Mantissa * Pow2[i] * 1 < x
      /\ Pow2[e] \in Nat \ {0} /\ 1 * Pow2[e] = Pow2[e]
  <2>1. /\ e \in Nat /\ Pow2[e] \in Nat \ {0}
        /\ \A i \in 0 .. e - 1 : Mantissa * Pow2[i] * 1 < x
    <3>1. x \in Nat /\ 1 \in Nat \ {0}
      OBVIOUS
    <3>2. \A i \in 0 .. e - 1 : Mantissa * Pow2[i] * 1 < x
      BY <3>1, ExponentExists, Zenon
    <3>3. e \in Nat
      BY <3>1, ExponentNatural, Zenon
    <3> QED
      BY <3>2, <3>3, Pow2Laws, Zenon
  <2> HIDE DEF e
  <2> QED
    BY <2>1
<1>2. ToDouble(x) = Nearest[<<x, Pow2[e]>>] * Pow2[e]
  BY <1>1, Rounding DEF ToDouble, Spacing
<1> HIDE DEF e
<1>3. Pow2[e] <= x
  <2>1. CASE e = 0
    BY <2>1, Pow2Laws
  <2>2. CASE e # 0
    <3>1. e - 1 \in Nat /\ e - 1 \in 0 .. e - 1 /\ (e - 1) + 1 = e
      BY <1>1, <2>2
    <3>2. Mantissa * Pow2[e - 1] * 1 < x /\ Pow2[e] = 2 * Pow2[e - 1]
          /\ Pow2[e - 1] \in Nat
      BY <1>1, <3>1, Pow2Laws
    <3>3. Mantissa \in Nat /\ Mantissa >= 2
      BY InterpolationAssumption
    <3>4. 2 * Pow2[e - 1] <= Mantissa * Pow2[e - 1]
      BY <3>2, <3>3
    <3> QED
      BY <3>2, <3>3, <3>4
  <2> QED
    BY <2>1, <2>2
<1>4. 1 <= Nearest[<<x, Pow2[e]>>] /\ Nearest[<<x, Pow2[e]>>] \in Nat
  BY <1>1, <1>3, NearestSide
<1> QED
  BY <1>1, <1>2, <1>4
-----------------------------------------------------------------------------
(* The invariant.  Target(f): f is the row the prediction should hold.  It    *)
(* stays between lo and hi while they close in, becomes the row that is       *)
(* checked, and everything of the key is added from there on.                *)
Target(f) == FirstMatch(f) /\ f \in start .. stop

Kept(f) ==
  /\ pc \in {"narrow", "locate"} => f \in lo .. hi
  /\ pc = "check" => it = f
  /\ pc = "sum" => /\ it \in f .. size
                   /\ rows = {p \in Matching : p < it}
                   /\ it = f \/ data[it - 1] = key
  /\ pc = "done" => rows = Matching

Ranges ==
  /\ lo \in 0 .. size - 1 /\ hi \in 0 .. size /\ it \in 0 .. size
  /\ rows \subseteq Matching
  /\ pc \in {"narrow", "locate", "check"} => rows = {}

(* The key is inside what the ends of the window hold: an end is where the    *)
(* prediction put it or was moved onto a row of another key.                 *)
Guided == stop < size /\ data[start] # data[stop]

Sides ==
  /\ pc # "undefined"
  /\ pc = "narrow" => /\ hi <= stop
                      /\ lo = start \/ data[lo] < key
                      /\ hi = stop \/ data[hi] > key

IInv ==
  /\ Call /\ Ranges
  /\ \A f \in Rows : Target(f) => Kept(f) /\ (Guided => Sides)

(* The arguments of a call in the form the arithmetic needs.                 *)
Arguments ==
  /\ size \in Nat \ {0} /\ start \in 0 .. size - 1 /\ stop \in start .. size
  /\ key \in Nat /\ key < KeyRange
  /\ \A p \in Rows : data[p] \in Nat /\ data[p] < KeyRange
  /\ \A p, q \in Rows : p <= q => data[p] <= data[q]

LEMMA CallArguments == Call => Arguments
<1> SUFFICES ASSUME Call PROVE Arguments
  OBVIOUS
<1>1. \A p \in Rows : data[p] \in Keys
  BY DEF Call, Rows
<1>2. KeyRange \in Nat /\ \A k \in Keys : k \in Nat /\ k < KeyRange
  BY InterpolationAssumption
<1> QED
  BY <1>1, <1>2, MaxRowsAssumption DEF Call, Arguments

(* Where the rows of the key start, no row in front has as large a key.      *)
LEMMA TargetRow ==
  ASSUME Arguments, NEW f \in Rows, Target(f)
  PROVE  /\ data[f] = key /\ f \in Nat /\ f < size
         /\ \A p \in Rows : p < f => data[p] < key
         /\ \A p \in Rows : f <= p => key <= data[p]
<1>1. data[f] = key /\ f \in Nat /\ f < size /\ \A p \in Matching : f <= p
  BY DEF Target, FirstMatch, Matching, Rows, Arguments
<1>2. ASSUME NEW p \in Rows, p < f PROVE data[p] < key
  <2>1. data[p] <= data[f] /\ data[p] # key /\ data[p] \in Nat
    BY <1>1, <1>2 DEF Matching, Rows, Arguments
  <2> QED
    BY <1>1, <2>1 DEF Arguments
<1> QED
  BY <1>1, <1>2 DEF Arguments

LEMMA ArgumentsFixed ==
  ASSUME [Next]_vars
  PROVE  /\ UNCHANGED input
         /\ Rows' = Rows /\ Matching' = Matching /\ Guided' = Guided
         /\ Call => Call'
         /\ \A f : Target(f)' <=> Target(f)
<1>1. UNCHANGED input
  BY DEF Next, TooShort, Narrow, Finish, Terminated, vars, input, Leave, Astray, Probe,
         bbs!Locate, bbs!Check, Sum, AddRow, StopAdding, bbs!input
<1>2. Rows' = Rows /\ Matching' = Matching /\ Guided' = Guided
  BY <1>1 DEF input, Rows, Matching, Guided
<1> QED
  BY <1>1, <1>2 DEF input, Call, Target, FirstMatch

LEMMA InitInvariant == Init => IInv
<1> SUFFICES ASSUME Init PROVE IInv
  OBVIOUS
<1>1. Arguments /\ Call /\ Ranges
  BY CallArguments DEF Init, Ranges, Arguments
<1>2. ASSUME NEW f \in Rows, Target(f) PROVE Kept(f) /\ Sides
  <2>1. pc = "narrow" /\ lo = start /\ hi = stop /\ stop \in Nat
    BY <1>1 DEF Init, Arguments
  <2>2. f \in lo .. hi /\ hi <= stop
    BY <1>2, <2>1 DEF Target
  <2> QED
    BY <2>1, <2>2 DEF Kept, Sides
<1> QED
  BY <1>1, <1>2 DEF IInv

(* Which rows an interpolation may name.                                    *)
LEMMA DifferenceInRange ==
  ASSUME NEW a \in Nat, NEW b \in Nat, a < KeyRange, b < KeyRange
  PROVE  /\ (a - b) % KeyRange \in Nat
         /\ b <= a => (a - b) % KeyRange = a - b
<1>1. KeyRange \in Nat \ {0}
  BY InterpolationAssumption
<1>2. a - b \in Int
  OBVIOUS
<1>3. (a - b) % KeyRange \in Nat
  BY <1>1, <1>2
<1>4. ASSUME b <= a PROVE (a - b) % KeyRange = a - b
  <2>1. a - b \in Nat /\ a - b < KeyRange
    BY <1>1, <1>4
  <2> QED
    BY <1>1, <2>1
<1> QED
  BY <1>3, <1>4

LEMMA UnitIsPower == \E k \in Nat : Unit = Pow2[k]
<1> DEFINE least == 2 * Mantissa * KeyRange
           T == {k \in 0 .. least : least <= Pow2[k]}
<1>1. least \in Nat
  BY InterpolationAssumption
<1> HIDE DEF least
<1>2. least \in T /\ T \subseteq Nat
  BY <1>1, Pow2Grows, Pow2Laws
<1>3. PICK k \in T : \A i \in T : k <= i
  <2> HIDE DEF T
  <2> QED
    BY <1>2, LeastNatural
<1>4. ASSUME NEW i \in 0 .. k - 1 PROVE Pow2[i] < least
  <2>1. i \in 0 .. least /\ i \notin T /\ i \in Nat
    BY <1>1, <1>3
  <2>2. ~ (least <= Pow2[i]) /\ Pow2[i] \in Nat
    BY <2>1, Pow2Laws
  <2> QED
    BY <1>1, <2>2
<1>5. \E u \in 0 .. least :
        least <= Pow2[u] /\ \A i \in 0 .. u - 1 : Pow2[i] < least
  BY <1>3, <1>4
<1> DEFINE u == CHOOSE u \in 0 .. least :
                  least <= Pow2[u] /\ \A i \in 0 .. u - 1 : Pow2[i] < least
<1>6. u \in 0 .. least
  BY <1>5
<1>7. Unit = Pow2[u]
  BY DEF Unit, least
<1> HIDE DEF u
<1> QED
  BY <1>1, <1>6, <1>7

(***************************************************************************)
(* However the quotient and the product are rounded, a quotient of at most    *)
(* one names a row no further than the end of the window.                    *)
(***************************************************************************)
LEMMA OffsetNatural ==
  ASSUME NEW num \in Nat, NEW den \in Nat \ {0}, NEW distance \in 0 .. Mantissa
  PROVE  /\ Offset(num, den, distance) \in Nat
         /\ num <= den => Offset(num, den, distance) <= distance
<1> DEFINE position == Position(num, den)
           product == ToDouble(position * distance)
<1>1. PICK k \in Nat : Unit = Pow2[k]
  BY UnitIsPower
<1>2. Unit \in Nat \ {0} /\ Mantissa \in Nat \ {0} /\ distance \in Nat
  BY <1>1, Pow2Laws, InterpolationAssumption
<1>3. num * Unit \in Nat
  BY <1>2
<1>4. position = Double[<<num * Unit, den>>] /\ position \in Nat
  BY <1>3, Rounding DEF Position
<1> HIDE DEF position
<1>5. position * distance \in Nat
  BY <1>2, <1>4
<1>6. product = Double[<<position * distance, 1>>] /\ product \in Nat
  BY <1>5, ToDoubleNatural, Zenon
<1>7. Offset(num, den, distance) = product \div Unit
  BY DEF Offset, position
<1> HIDE DEF product
<1>8. Offset(num, den, distance) \in Nat
  BY <1>2, <1>6, <1>7
<1>9. ASSUME num <= den PROVE Offset(num, den, distance) <= distance
  <2>1. num * Unit <= (1 * Pow2[k]) * den
    BY <1>1, <1>2, <1>9
  <2>2. position <= 1 * Pow2[k]
    BY <1>2, <1>3, <1>4, <2>1, RoundedUnderDouble, 1 \in 0 .. Mantissa
  <2>3. position * distance <= (distance * Pow2[k]) * 1
    BY <1>1, <1>2, <1>4, <2>2
  <2>4. product <= distance * Pow2[k]
    BY <1>5, <1>6, <2>3, RoundedUnderDouble
  <2>5. product <= distance * Unit
    BY <1>1, <2>4
  <2> QED
    BY <1>2, <1>6, <1>7, <2>5
<1> QED
  BY <1>8, <1>9

(* What a step must show that only moves lo, hi and pc.                      *)
LEMMA ClosingIn ==
  ASSUME IInv, [Next]_vars, pc = "narrow", UNCHANGED <<it, rows>>,
         pc' \in {"narrow", "locate", "undefined"},
         lo' \in 0 .. size - 1, hi' \in 0 .. size,
         \A f \in Rows : Target(f) =>
           /\ pc' # "undefined" => f \in lo' .. hi'
           /\ Guided => Sides'
  PROVE  IInv'
<1>1. Call' /\ size' = size /\ Rows' = Rows /\ Matching' = Matching
      /\ Guided' = Guided /\ \A f : Target(f)' <=> Target(f)
  BY ArgumentsFixed DEF IInv, input
<1>2. Ranges'
  BY <1>1 DEF IInv, Ranges
<1>3. ASSUME NEW f \in Rows, Target(f) PROVE Kept(f)' /\ (Guided => Sides')
  BY <1>3 DEF Kept
<1> QED
  BY <1>1, <1>2, <1>3 DEF IInv

LEMMA LeaveStep ==
  ASSUME IInv, [Next]_vars, pc = "narrow", Leave
  PROVE  IInv'
<1>1. /\ pc' = "locate" /\ UNCHANGED <<it, rows, lo, hi>>
      /\ lo \in 0 .. size - 1 /\ hi \in 0 .. size
  BY DEF Leave, IInv, Ranges
<1>2. ASSUME NEW f \in Rows, Target(f) PROVE f \in lo' .. hi' /\ Sides'
  BY <1>1, <1>2 DEF IInv, Kept, Sides
<1> QED
  BY <1>1, <1>2, ClosingIn

LEMMA AstrayStep ==
  ASSUME IInv, [Next]_vars, pc = "narrow", Astray,
         \A f \in Rows : ~ (Target(f) /\ Guided)
  PROVE  IInv'
<1>1. /\ pc' = "undefined" /\ UNCHANGED <<it, rows, lo, hi>>
      /\ lo \in 0 .. size - 1 /\ hi \in 0 .. size
  BY DEF Astray, IInv, Ranges
<1> QED
  BY <1>1, ClosingIn

(* Scrolling back ends at the first row of the run.                          *)
LEMMA RunStartExists ==
  ASSUME Arguments, NEW mid \in Rows, data[mid] = key
  PROVE  /\ RunStart(mid) \in 0 .. mid
         /\ data[RunStart(mid)] = key
         /\ RunStart(mid) = 0 \/ data[RunStart(mid) - 1] # key
<1> DEFINE T == {f \in 0 .. mid : \A q \in f .. mid : data[q] = key}
<1>1. mid \in Nat /\ mid \in T
  BY DEF Rows, Arguments
<1>2. PICK f \in T : \A x \in T : f <= x
  <2>1. T \subseteq Nat
    BY <1>1
  <2> HIDE DEF T
  <2> QED
    BY <1>1, <2>1, LeastNatural
<1>3. f = 0 \/ data[f - 1] # key
  <2>1. ASSUME f # 0, data[f - 1] = key PROVE FALSE
    <3>1. f - 1 \in 0 .. mid /\ \A q \in f - 1 .. mid : q = f - 1 \/ q \in f .. mid
      BY <1>1, <2>1
    <3>2. f - 1 \in T
      BY <2>1, <3>1
    <3> QED
      BY <1>1, <1>2, <3>2
  <2> QED
    BY <2>1
<1>4. f \in 0 .. mid /\ \A q \in f .. mid : data[q] = key
  OBVIOUS
<1>5. /\ RunStart(mid) \in 0 .. mid
      /\ \A q \in RunStart(mid) .. mid : data[q] = key
      /\ RunStart(mid) = 0 \/ data[RunStart(mid) - 1] # key
  <2> HIDE DEF T
  <2> QED
    BY <1>3, <1>4 DEF RunStart
<1>6. RunStart(mid) \in RunStart(mid) .. mid
  BY <1>1, <1>5
<1> QED
  BY <1>5, <1>6

(* A probe of row mid, which with guidance is not behind hi.                 *)
LEMMA ProbeStep ==
  ASSUME IInv, [Next]_vars, pc = "narrow", NEW mid \in Nat, Probe(mid),
         \A f \in Rows : Target(f) /\ Guided => Sides /\ mid <= hi
  PROVE  IInv'
<1>1. Arguments /\ lo \in 0 .. size - 1 /\ hi \in 0 .. size
  BY CallArguments DEF IInv, Ranges
<1>2. CASE mid = lo
  BY <1>2, LeaveStep DEF Probe
<1>3. CASE mid # lo /\ mid >= size
  <2>1. ASSUME NEW f \in Rows, Target(f), Guided PROVE FALSE
    BY <1>1, <1>3, <2>1 DEF Sides, Guided, Arguments
  <2> QED
    BY <1>3, <2>1, AstrayStep DEF Probe
<1>4. CASE mid # lo /\ mid < size
  <2>1. mid \in Rows /\ UNCHANGED <<it, rows>>
        /\ UNCHANGED <<data, key, start, stop, size>>
    BY <1>1, <1>4, ArgumentsFixed DEF Rows, Arguments, Probe, input
  <2>2. ASSUME NEW f \in Rows, Target(f)
        PROVE  /\ f \in lo .. hi /\ f \in Nat
               /\ mid < f => data[mid] < key
               /\ f <= mid => key <= data[mid]
    BY <1>1, <2>1, <2>2, TargetRow DEF IInv, Kept
  <2>3. data[mid] \in Nat /\ key \in Nat
    BY <1>1, <2>1 DEF Arguments
  <2>4. CASE key < data[mid] /\ hi' = mid /\ UNCHANGED <<lo, pc>>
    <3>1. hi' \in 0 .. size /\ lo' \in 0 .. size - 1
      BY <1>1, <1>4, <2>4 DEF Arguments
    <3>2. ASSUME NEW f \in Rows, Target(f)
          PROVE  f \in lo' .. hi' /\ (Guided => Sides')
      <4>1. f <= mid
        BY <2>2, <2>3, <2>4, <3>2
      <4>2. f \in lo' .. hi'
        BY <1>1, <2>2, <2>4, <3>2, <4>1
      <4>3. ASSUME Guided PROVE Sides'
        <5>1. Sides /\ mid <= hi /\ hi <= stop
          BY <3>2, <4>3 DEF Sides
        <5>2. mid <= stop
          BY <1>1, <5>1 DEF Arguments
        <5> QED
          BY <2>1, <2>3, <2>4, <5>1, <5>2 DEF Sides
      <4> QED
        BY <4>2, <4>3
    <3> QED
      BY <2>1, <2>4, <3>1, <3>2, ClosingIn
  <2>5. CASE key > data[mid] /\ lo' = mid /\ UNCHANGED <<hi, pc>>
    <3>1. hi' \in 0 .. size /\ lo' \in 0 .. size - 1
      BY <1>1, <1>4, <2>5 DEF Arguments
    <3>2. ASSUME NEW f \in Rows, Target(f)
          PROVE  f \in lo' .. hi' /\ (Guided => Sides')
      <4>1. mid < f
        BY <2>2, <2>3, <2>5, <3>2
      <4>2. f \in lo' .. hi'
        BY <1>1, <2>2, <2>5, <3>2, <4>1
      <4>3. ASSUME Guided PROVE Sides'
        <5>1. Sides
          BY <3>2, <4>3
        <5> QED
          BY <2>1, <2>3, <2>5, <5>1 DEF Sides
      <4> QED
        BY <4>2, <4>3
    <3> QED
      BY <2>1, <2>5, <3>1, <3>2, ClosingIn
  <2>6. CASE key = data[mid] /\ lo' = RunStart(mid) /\ hi' = mid + 1 /\ pc' = "locate"
    <3> DEFINE r == RunStart(mid)
    <3>1. /\ r \in 0 .. mid /\ data[r] = key /\ (r = 0 \/ data[r - 1] # key)
      BY <1>1, <2>1, <2>6, RunStartExists
    <3> HIDE DEF r
    <3>2. lo' = r
      BY <2>6 DEF r
    <3>3. hi' \in 0 .. size /\ lo' \in 0 .. size - 1
      BY <1>1, <1>4, <2>6, <3>1, <3>2 DEF Arguments
    <3>4. ASSUME NEW f \in Rows, Target(f)
          PROVE  f \in lo' .. hi' /\ (Guided => Sides')
      <4>1. r \in Rows /\ r \in Nat
        BY <1>1, <1>4, <3>1 DEF Rows, Arguments
      <4>2. f <= r
        BY <1>1, <2>3, <3>1, <3>4, <4>1, TargetRow
      <4>3. ASSUME f < r PROVE FALSE
        <5>1. r - 1 \in Rows /\ f <= r - 1 /\ r - 1 <= r /\ r # 0
          <6>1. f \in Nat /\ size \in Nat
            BY <1>1, <2>2, <3>4 DEF Arguments
          <6> QED
            BY <4>1, <4>3, <6>1 DEF Rows
        <5>2. key <= data[r - 1] /\ data[r - 1] <= data[r] /\ data[r - 1] \in Nat
          BY <1>1, <3>4, <4>1, <5>1, TargetRow DEF Arguments
        <5> QED
          BY <2>3, <3>1, <5>1, <5>2
      <4>4. f = r
        BY <2>2, <3>4, <4>1, <4>2, <4>3
      <4> QED
        BY <2>6, <3>1, <3>2, <4>4 DEF Sides
    <3> QED
      BY <2>1, <2>6, <3>3, <3>4, ClosingIn
  <2>7. \/ key < data[mid] /\ hi' = mid /\ UNCHANGED <<lo, pc>>
        \/ key > data[mid] /\ lo' = mid /\ UNCHANGED <<hi, pc>>
        \/ key = data[mid] /\ lo' = RunStart(mid) /\ hi' = mid + 1 /\ pc' = "locate"
    <3>1. ~ (mid >= size)
      BY <1>1, <1>4 DEF Arguments
    <3> QED
      BY <1>4, <3>1 DEF Probe
  <2> QED
    BY <2>4, <2>5, <2>6, <2>7
<1> QED
  BY <1>1, <1>2, <1>3, <1>4 DEF Arguments

(* The interpolation: with guidance it names a row between lo and hi, and    *)
(* the keys at the two differ.                                              *)
LEMMA NarrowStep ==
  ASSUME IInv, Narrow
  PROVE  IInv'
<1>1. [Next]_vars /\ pc = "narrow" /\ lo < hi
  BY DEF Next, Narrow, Narrowing
<1>2. Arguments /\ lo \in 0 .. size - 1 /\ hi \in 0 .. size
  BY CallArguments DEF IInv, Ranges
<1>3. PICK endKey \in Peek(hi) :
        LET num == Numerator(data[lo])
            den == Denominator(data[lo], endKey)
        IN  IF den = 0 THEN Leave \/ Astray
            ELSE Probe(lo + Offset(num, den, hi - lo))
  BY DEF Narrow
<1> DEFINE num == Numerator(data[lo])
           den == Denominator(data[lo], endKey)
<1>4. data[lo] \in Nat /\ data[lo] < KeyRange /\ key \in Nat /\ key < KeyRange
  BY <1>2 DEF Arguments, Rows
<1>5. endKey \in Nat /\ endKey < KeyRange /\ (hi < size => endKey = data[hi])
  <2>1. CASE hi < size
    BY <1>2, <2>1 DEF Peek, Arguments, Rows
  <2>2. CASE ~ (hi < size)
    <3>1. endKey \in 0 .. KeyRange - 1 /\ KeyRange \in Nat
      BY <2>2, InterpolationAssumption DEF Peek
    <3> QED
      BY <2>2, <3>1
  <2> QED
    BY <2>1, <2>2
<1>6. num \in Nat /\ den \in Nat
  <2>1. /\ (key - data[lo]) % KeyRange \in Nat
        /\ (endKey - data[lo]) % KeyRange \in Nat
    BY <1>4, <1>5, DifferenceInRange
  <2> QED
    BY <2>1, ToDoubleNatural, Zenon DEF Numerator, Denominator
<1>7. ASSUME NEW f \in Rows, Target(f), Guided
      PROVE  /\ Sides /\ hi <= stop /\ hi < size
             /\ data[lo] <= key /\ key <= endKey
             /\ num <= den
             /\ den # 0
  <2>1. Sides /\ hi <= stop /\ hi < size /\ f \in lo .. hi /\ lo \in Rows /\ hi \in Rows
    BY <1>1, <1>2, <1>7 DEF IInv, Sides, Guided, Arguments, Kept, Rows
  <2>2. data[lo] <= data[f] /\ data[f] <= data[hi] /\ data[f] = key
    BY <1>2, <1>7, <2>1, TargetRow DEF Arguments
  <2>3. data[lo] <= key /\ key <= endKey
    BY <1>5, <2>1, <2>2
  <2>4. /\ key - data[lo] \in Nat /\ endKey - data[lo] \in Nat
        /\ key - data[lo] <= endKey - data[lo]
        /\ num = ToDouble(key - data[lo])
        /\ den = ToDouble(endKey - data[lo])
    <3>1. data[lo] <= endKey
      BY <1>4, <1>5, <2>3
    <3>2. /\ (key - data[lo]) % KeyRange = key - data[lo]
          /\ (endKey - data[lo]) % KeyRange = endKey - data[lo]
      BY <1>4, <1>5, <2>3, <3>1, DifferenceInRange
    <3> QED
      BY <1>4, <1>5, <2>3, <3>1, <3>2 DEF Numerator, Denominator
  <2>5. num <= den
    BY <2>4, RoundingMonotone
  <2>6. ASSUME den = 0 PROVE FALSE
    (* Both ends hold the key: neither has been moved.                      *)
    <3>1. endKey - data[lo] = 0
      BY <2>4, <2>6, NoneRoundedToZero
    <3>2. data[lo] = key /\ data[hi] = key
      BY <1>4, <1>5, <2>1, <2>3, <3>1
    <3>3. lo = start /\ hi = stop
      BY <1>1, <1>4, <2>1, <3>2 DEF Sides
    <3> QED
      BY <1>7, <3>2, <3>3 DEF Guided
  <2> QED
    BY <2>1, <2>3, <2>5, <2>6
<1>8. CASE den = 0
  BY <1>1, <1>3, <1>7, <1>8, LeaveStep, AstrayStep
<1>9. CASE den # 0
  <2> DEFINE offset == Offset(num, den, hi - lo)
  <2>1. Probe(lo + offset)
    BY <1>3, <1>9
  <2>2. hi - lo \in 0 .. Mantissa
    BY <1>1, <1>2, InterpolationAssumption, MaxRowsAssumption DEF IInv, Call
  <2> HIDE DEF num, den
  <2>3. offset \in Nat /\ (num <= den => offset <= hi - lo)
    BY <1>6, <1>9, <2>2, OffsetNatural
  <2> HIDE DEF offset
  <2>4. lo + offset \in Nat
    BY <1>2, <2>3
  <2>5. ASSUME NEW f \in Rows, Target(f), Guided PROVE Sides /\ lo + offset <= hi
    BY <1>2, <1>7, <2>3, <2>5
  <2> QED
    BY <1>1, <2>1, <2>4, <2>5, ProbeStep
<1> QED
  BY <1>8, <1>9

(* The binary search over what is left starts where the rows of the key do.   *)
LEMMA LocatedRow ==
  ASSUME IInv, pc = "locate"
  PROVE  /\ bbs!LowerBound(lo, hi) \in 0 .. size
         /\ \A f \in Rows : Target(f) => bbs!LowerBound(lo, hi) = f
<1>1. Arguments /\ lo \in 0 .. size - 1 /\ hi \in 0 .. size
  BY CallArguments DEF IInv, Ranges
<1>2. CASE hi < lo
  <2>1. bbs!LowerBound(lo, hi) = lo
    BY <1>2 DEF bbs!LowerBound
  <2>2. ASSUME NEW f \in Rows, Target(f) PROVE FALSE
    BY <1>1, <1>2, <2>2 DEF IInv, Kept
  <2> QED
    BY <1>1, <2>1, <2>2 DEF Arguments
<1>3. CASE lo <= hi
  <2> DEFINE b == bbs!LowerBound(lo, hi)
  <2>1. /\ \A q \in lo .. hi - 1 : data[q] \in Int
        /\ key \in Int /\ lo \in Nat /\ hi \in Nat
    BY <1>1 DEF Arguments, Rows
  <2>2. \E p \in lo .. hi :
          /\ \A q \in lo .. p - 1 : data[q] < key
          /\ p = hi \/ data[p] >= key
    BY <1>3, <2>1, LowerBoundExists
  <2>3. ~ (hi < lo)
    BY <1>3, <2>1
  <2>4. /\ b \in lo .. hi
        /\ \A q \in lo .. b - 1 : data[q] < key
        /\ b = hi \/ data[b] >= key
    BY <2>2, <2>3 DEF bbs!LowerBound
  <2> HIDE DEF b
  <2>5. ASSUME NEW f \in Rows, Target(f) PROVE b = f
    <3>1. /\ f \in lo .. hi /\ data[f] = key /\ f \in Nat /\ f < size
          /\ \A p \in Rows : p < f => data[p] < key
      BY <1>1, <2>5, TargetRow DEF IInv, Kept
    <3>2. ASSUME b < f PROVE FALSE
      <4>1. b \in Rows /\ data[b] >= key /\ data[b] < key
        BY <1>1, <2>1, <2>4, <3>1, <3>2 DEF Rows, Arguments
      <4> QED
        BY <1>1, <4>1 DEF Arguments
    <3>3. ASSUME f < b PROVE FALSE
      <4>1. f \in lo .. b - 1
        BY <2>1, <2>4, <3>1, <3>3
      <4> QED
        BY <2>1, <2>4, <3>1, <4>1
    <3> QED
      BY <2>1, <2>4, <3>1, <3>2, <3>3
  <2>6. b \in 0 .. size
    BY <1>1, <2>4 DEF Arguments
  <2> QED
    BY <2>5, <2>6 DEF b
<1> QED
  BY <1>1, <1>2, <1>3

LEMMA FinishStep ==
  ASSUME IInv, Finish
  PROVE  IInv'
<1>1. /\ [Next]_vars /\ UNCHANGED <<lo, hi>>
      /\ Call' /\ data' = data /\ key' = key /\ size' = size
      /\ Rows' = Rows /\ Matching' = Matching /\ Guided' = Guided
      /\ \A f : Target(f)' <=> Target(f)
  BY ArgumentsFixed DEF Next, Finish, IInv, input
<1>2. /\ Arguments /\ Ranges
      /\ \A f \in Rows : Target(f) => Kept(f) /\ (Guided => Sides)
  BY CallArguments DEF IInv
<1>3. pc \in {"locate", "check", "sum"} /\ pc' \in {"check", "sum", "done"}
  BY DEF Finish, bbs!Locate, bbs!Check, Sum, AddRow, StopAdding
<1>4. \A f \in Rows : Target(f) /\ Guided => Sides'
  BY <1>3 DEF Sides
<1>5. SUFFICES Ranges' /\ \A f \in Rows : Target(f) => Kept(f)'
  BY <1>1, <1>4 DEF IInv
<1>6. CASE bbs!Locate
  <2>1. /\ pc = "locate" /\ pc' = "check" /\ it' = bbs!LowerBound(lo, hi)
        /\ rows' = rows
    BY <1>6 DEF bbs!Locate
  <2>2. it' \in 0 .. size /\ \A f \in Rows : Target(f) => it' = f
    BY <2>1, LocatedRow
  <2> QED
    BY <1>1, <1>2, <2>1, <2>2 DEF Ranges, Kept
<1>7. CASE bbs!Check
  <2>1. /\ pc = "check" /\ rows = {} /\ UNCHANGED <<it, rows>>
        /\ pc' = IF it < size /\ data[it] = key THEN "sum" ELSE "done"
    BY <1>2, <1>7 DEF bbs!Check, bbs!Found, Ranges
  <2>2. Ranges'
    BY <1>1, <1>2, <2>1 DEF Ranges
  <2>3. ASSUME NEW f \in Rows, Target(f) PROVE Kept(f)'
    <3>1. it = f /\ f < size /\ data[f] = key /\ f \in Nat
      BY <1>2, <2>1, <2>3, TargetRow DEF Kept
    <3>2. \A p \in Matching : ~ (p < f)
      BY <1>2, <2>3, <3>1, TargetRow DEF Matching, Arguments
    <3>3. {p \in Matching : p < f} = {}
      BY <3>2
    <3>4. pc' = "sum" /\ it' = f /\ f \in f .. size
      BY <1>2, <2>1, <3>1 DEF Arguments
    <3> QED
      BY <1>1, <2>1, <3>3, <3>4 DEF Kept
  <2> QED
    BY <2>2, <2>3
<1>8. CASE AddRow
  <2>1. /\ pc = "sum" /\ pc' = "sum" /\ it < size /\ data[it] = key
        /\ rows' = rows \cup {it} /\ it' = it + 1 /\ it \in Matching
    BY <1>2, <1>8 DEF AddRow, Ranges, Matching, Rows, Arguments
  <2>2. Ranges'
    BY <1>1, <1>2, <2>1 DEF Ranges, Arguments
  <2>3. ASSUME NEW f \in Rows, Target(f) PROVE Kept(f)'
    <3>1. it \in f .. size /\ rows = {p \in Matching : p < it} /\ f \in Nat
      BY <1>2, <2>1, <2>3, TargetRow DEF Kept
    <3>2. it \in Nat /\ it + 1 \in f .. size /\ (it + 1) - 1 = it
      BY <1>2, <2>1, <3>1 DEF Arguments
    <3>3. rows' = {p \in Matching : p < it + 1}
      BY <1>2, <2>1, <3>1, <3>2 DEF Matching, Rows, Arguments
    <3> QED
      BY <1>1, <2>1, <3>2, <3>3 DEF Kept
  <2> QED
    BY <2>2, <2>3
<1>9. CASE StopAdding
  <2>1. /\ pc = "sum" /\ pc' = "done" /\ UNCHANGED <<it, rows>>
        /\ ~ (it < size /\ data[it] = key)
    BY <1>9 DEF StopAdding
  <2>2. Ranges'
    BY <1>1, <1>2, <2>1 DEF Ranges
  <2>3. ASSUME NEW f \in Rows, Target(f) PROVE rows = Matching
    <3>1. /\ it \in f .. size /\ rows = {p \in Matching : p < it}
          /\ it = f \/ data[it - 1] = key
          /\ f \in Nat /\ f < size /\ data[f] = key
      BY <1>2, <2>1, <2>3, TargetRow DEF Kept
    <3>2. ASSUME NEW p \in Matching, ~ (p < it) PROVE FALSE
      (* Behind a row of the key stands one of another: none can follow.     *)
      <4>1. p \in Rows /\ p \in Nat /\ p < size /\ it <= p /\ data[p] = key
            /\ size \in Nat /\ it \in Nat
        BY <1>2, <3>1, <3>2 DEF Matching, Rows, Arguments
      <4>2. it \in Rows /\ data[it] # key /\ it - 1 \in Rows /\ data[it - 1] = key
        BY <2>1, <3>1, <4>1 DEF Rows
      <4>3. data[it - 1] <= data[it] /\ data[it] <= data[p] /\ data[it] \in Nat
        BY <1>2, <4>1, <4>2 DEF Arguments
      <4> QED
        BY <1>2, <4>1, <4>2, <4>3 DEF Arguments
    <3> QED
      BY <3>1, <3>2
  <2> QED
    BY <1>1, <2>1, <2>2, <2>3 DEF Kept
<1> QED
  BY <1>6, <1>7, <1>8, <1>9 DEF Finish, Sum

LEMMA NextInvariant == IInv /\ [Next]_vars => IInv'
<1> SUFFICES ASSUME IInv, [Next]_vars PROVE IInv'
  OBVIOUS
<1>1. CASE TooShort
  BY <1>1, LeaveStep DEF TooShort
<1>2. CASE Narrow
  BY <1>2, NarrowStep
<1>3. CASE Finish
  BY <1>3, FinishStep
<1>4. CASE UNCHANGED vars
  <2>1. UNCHANGED <<lo, hi, it, pc, rows, data, key>>
    BY <1>4 DEF vars
  <2> QED
    BY <2>1, ArgumentsFixed DEF IInv, Ranges, Kept, Sides, vars, input
<1> QED
  BY <1>1, <1>2, <1>3, <1>4 DEF Next, Terminated

LEMMA Invariant == Spec => []IInv
  BY InitInvariant, NextInvariant, PTL DEF Spec
-----------------------------------------------------------------------------
(***************************************************************************)
(* A prediction that holds the first row of the key gets the exact answer,    *)
(* whatever the interpolation guesses (search of interpolation_search.h).    *)
(***************************************************************************)
THEOREM NeverDropsFirst == Spec => []NarrowingKeeps
<1>1. IInv => NarrowingKeeps
  <2> SUFFICES ASSUME IInv, Covered, pc = "done" PROVE rows = Matching
    BY DEF NarrowingKeeps
  <2>1. CASE Matching = {}
    BY <2>1 DEF IInv, Ranges
  <2>2. CASE \E p \in start .. stop : FirstMatch(p)
    BY <2>2 DEF IInv, Target, FirstMatch, Matching, Kept
  <2> QED
    BY <2>1, <2>2 DEF Covered
<1> QED
  BY <1>1, Invariant, PTL

(***************************************************************************)
(* With a present key it goes astray only from a window that reaches past     *)
(* the end of the data, or one with the same key at both ends.               *)
(***************************************************************************)
THEOREM GuidedNeverAstray == Spec => []AstrayOnlyThere
<1>1. IInv => AstrayOnlyThere
  <2> SUFFICES ASSUME IInv, pc = "undefined", Covered, Matching # {}, Guided
               PROVE  FALSE
    BY CallArguments DEF AstrayOnlyThere, Guided, IInv, Arguments
  <2>1. PICK p \in start .. stop : FirstMatch(p)
    BY DEF Covered
  <2> QED
    BY <2>1 DEF IInv, Target, FirstMatch, Matching, Sides
<1> QED
  BY <1>1, Invariant, PTL
=============================================================================
