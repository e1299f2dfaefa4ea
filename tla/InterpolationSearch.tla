------------------------- MODULE InterpolationSearch -------------------------
(***************************************************************************)
(* src/searches/interpolation_search.h.  The window lo .. hi is narrowed by  *)
(* interpolating between the keys at its ends until it is short; a branching *)
(* binary search over what is left finishes the call.                        *)
(*                                                                          *)
(* Two things make the narrowing delicate.  The key at `hi` is read even     *)
(* where hi is one past the end.  And the interpolation is done in doubles:  *)
(* differences of keys beyond the mantissa, the quotient and the product are  *)
(* each rounded, the product is truncated, and a quotient by zero has no      *)
(* defined row at all.  The rows between two iterators are few enough to be   *)
(* counted by a double.                                                     *)
(***************************************************************************)
EXTENDS SearchBase, PowersOfTwo

CONSTANTS
  MinDistance,   \* windows shorter than this are left to binary search: 64
  KeyRange,      \* number of values of KeyType; differences wrap around it
  Mantissa       \* integers up to this one are exact doubles: 2^53

ASSUME InterpolationAssumption ==
  /\ MinDistance \in Nat \ {0}
  /\ Mantissa \in Nat \ {0} /\ Mantissa % 2 = 0 /\ MaxRows <= Mantissa
  /\ KeyRange \in Nat /\ Keys = 0 .. KeyRange - 1

VARIABLES lo, hi

vars == <<data, size, key, start, stop, pc, it, rows, lo, hi>>

bbs == INSTANCE BranchingBinarySearch WITH start <- lo, stop <- hi

Init ==
  /\ Call
  /\ pc = "narrow"
  /\ lo = start /\ hi = stop
  /\ it = start
  /\ rows = {}

(* Numerators and denominators of what an operation on doubles rounds.       *)
Fractions == Nat \X (Nat \ {0})

(* The integer nearest to a fraction, ties to even.                          *)
Nearest == [f \in Fractions |->
  LET q == f[1] \div f[2]
      rest == f[1] - q * f[2]
  IN  IF 2 * rest > f[2] \/ (2 * rest = f[2] /\ q % 2 = 1) THEN q + 1 ELSE q]

(* The spacing of the doubles around a / b, counted in whole numbers: 1 as     *)
(* long as the mantissa holds a / b (finer doubles are left to Unit).        *)
Exponent(a, b) ==
  CHOOSE j \in 0 .. a :
    /\ a <= Mantissa * Pow2[j] * b
    /\ \A i \in 0 .. j - 1 : Mantissa * Pow2[i] * b < a

Spacing(a, b) == Pow2[Exponent(a, b)]

(* The double nearest to a fraction, as every operation on doubles rounds.    *)
Double == [f \in Fractions |->
  LET spacing == Spacing(f[1], f[2])
  IN  Nearest[<<f[1], f[2] * spacing>>] * spacing]

(* (double) x                                                               *)
ToDouble(x) == Double[<<x, 1>>]

NumeratorSwapped(from) == ToDouble((from - key) % KeyRange)

(* (double)(k - from) / (double)(to - from), as numerator and denominator.  *)
Numerator(from) == ToDouble((key - from) % KeyRange)
Denominator(from, to) == ToDouble((to - from) % KeyRange)

(* Quotients are counted in fractions of a power of two so small that no      *)
(* quotient but 0.0 needs a finer one.                                       *)
Unit ==
  LET least == 2 * Mantissa * KeyRange
  IN  Pow2[CHOOSE k \in 0 .. least :
             least <= Pow2[k] /\ \A i \in 0 .. k - 1 : Pow2[i] < least]

(* rel_position = num / den, rounded, and                                    *)
(* mid_offset = (size_t)(rel_position * distance), rounded again and then     *)
(* truncated: a row to either side of the exact one.                         *)
Position(num, den) == Double[<<num * Unit, den>>]

Offset(num, den, distance) == ToDouble(Position(num, den) * distance) \div Unit

Narrowing == pc = "narrow" /\ lo < hi /\ hi - lo >= MinDistance

(* while (start_it < end_it) is left: too short, or no row in between.      *)
Leave == pc' = "locate" /\ UNCHANGED <<input, it, rows, lo, hi>>

TooShort == pc = "narrow" /\ ~(lo < hi /\ hi - lo >= MinDistance) /\ Leave

(* The row probed is none of the data's: a quotient by zero or beyond one,   *)
(* converted to size_t.                                                     *)
Astray == pc' = "undefined" /\ UNCHANGED <<input, it, rows, lo, hi>>

RunStartNone(p) == p

(* scroll back to the first occurrence *)
RunStart(p) ==
  CHOOSE f \in 0 .. p :
    (\A q \in f .. p : data[q] = key) /\ (f = 0 \/ data[f - 1] # key)

ProbeUnguarded(mid) ==
  IF mid >= size THEN Astray
  ELSE /\ \/ key < data[mid] /\ hi' = mid /\ UNCHANGED <<lo, pc>>
          \/ key > data[mid] /\ lo' = mid /\ UNCHANGED <<hi, pc>>
          \/ /\ key = data[mid] /\ lo' = RunStart(mid) /\ hi' = mid + 1
             /\ pc' = "locate"
       /\ UNCHANGED <<input, it, rows>>

Probe(mid) ==
  IF mid = lo THEN Leave
  ELSE IF mid >= size THEN Astray
  ELSE /\ \/ /\ key < data[mid]
             /\ hi' = mid
             /\ UNCHANGED <<lo, pc>>
          \/ /\ key > data[mid]
             /\ lo' = mid
             /\ UNCHANGED <<hi, pc>>
          \/ /\ key = data[mid]
             /\ lo' = RunStart(mid)
             /\ hi' = mid + 1
             /\ pc' = "locate"
       /\ UNCHANGED <<input, it, rows>>

Narrow ==
  /\ Narrowing
  /\ \E endKey \in Peek(hi) :
       LET num == Numerator(data[lo])
           den == Denominator(data[lo], endKey)
       IN  IF den = 0 THEN Leave \/ Astray
           ELSE Probe(lo + Offset(num, den, hi - lo))

(* return bbs.search(...) *)
Finish == (bbs!Locate \/ bbs!Check \/ Sum) /\ UNCHANGED <<start, stop, lo, hi>>

Terminated == pc \in {"done", "undefined"} /\ UNCHANGED vars

Next == TooShort \/ Narrow \/ Finish \/ Terminated

Spec == Init /\ [][Next]_vars /\ WF_vars(Next)
-----------------------------------------------------------------------------
(***************************************************************************)
(* Whatever the interpolation guesses, a prediction that holds the first    *)
(* row of the key gets the exact answer: narrowing never drops that row.     *)
(***************************************************************************)
NarrowingKeeps ==
  Covered /\ pc = "done" => rows = Matching

(***************************************************************************)
(* With a present key the interpolation only loses its way where the code    *)
(* guards nothing: a window that reaches one past the end, or one whose two  *)
(* ends hold the lookup key.                                                 *)
(***************************************************************************)
AstrayOnlyThere ==
  pc = "undefined" /\ Covered /\ Matching # {} =>
    stop = size \/ data[start] = data[stop]

(***************************************************************************)
(* A call for a present key returns or goes astray, unless the doubles of    *)
(* the lookup key and of a larger end key coincide: then the same probe is    *)
(* made for ever.                                                            *)
(***************************************************************************)
Coincide ==
  /\ hi < size /\ key < data[hi]
  /\ Numerator(data[lo]) = Denominator(data[lo], data[hi])

ReturnsOrSticks ==
  Covered /\ Matching # {} =>
    <>(pc \in {"done", "undefined"}) \/ <>[](pc = "narrow" /\ Coincide)
=============================================================================
