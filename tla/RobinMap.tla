------------------------------ MODULE RobinMap ------------------------------
(***************************************************************************)
(* tsl::robin_map of src/robin-map/include/tsl (robin_hash.h with the        *)
(* growth policy of robin_growth_policy.h), the map RobinHash fills.  A value *)
(* that is further from its ideal bucket takes the place of one that is less *)
(* far.  The hash of an integer is the integer, the number of buckets a      *)
(* power of two.                                                            *)
(*                                                                          *)
(* Load factors are fractions <<n, d>>; the rounding of floats is left out.  *)
(***************************************************************************)
EXTENDS Integers, Sequences, FiniteSets, PowersOfTwo

CONSTANTS
  Keys, Values,
  DIST_FROM_IDEAL_BUCKET_LIMIT,  \* 4096
  MaxLoads, MinLoads,            \* load factors a map may be given
  MaxBuckets,                    \* bound on the buckets of a table
  Ranges                         \* sequences of <<key, value>> inserted at once

RobinConstants ==
  /\ Keys \subseteq Nat
  /\ DIST_FROM_IDEAL_BUCKET_LIMIT \in Nat
  /\ MaxBuckets \in Nat
  /\ MaxLoads \subseteq (Nat \ {0}) \X (Nat \ {0})
  /\ \A f \in MaxLoads : f[1] * 5 >= f[2] /\ f[1] * 20 <= f[2] * 19   \* 0.2 .. 0.95
  /\ MinLoads \subseteq Nat \X (Nat \ {0})
  /\ \A f \in MinLoads : f[1] * 20 <= f[2] * 3                       \* 0 .. 0.15
  /\ Ranges \subseteq Seq(Keys \X Values)

VARIABLES
  m_buckets,                     \* the entries, numbered from 0
  m_nb_elements,
  m_max_load_factor, m_min_load_factor,
  m_grow_on_next_insert, m_try_skrink_on_next_insert,
  wanted,        \* the value of each key its user put in and did not take out
  torn           \* did erase(first, last) leave a run that wraps around apart?

vars == <<m_buckets, m_nb_elements, m_max_load_factor, m_min_load_factor,
          m_grow_on_next_insert, m_try_skrink_on_next_insert,
          wanted, torn>>

DEFAULT_MAX_LOAD_FACTOR == <<1, 2>>
DEFAULT_MIN_LOAD_FACTOR == <<0, 1>>

Empty == [dist |-> -1]
empty(e) == e.dist = -1

Buckets(count) == [b \in 0..(count - 1) |-> Empty]

Count(bs) == Cardinality(DOMAIN bs)
m_bucket_count == Count(m_buckets)

(* Without buckets m_buckets points to a static empty one.                   *)
At(bs, b) == IF DOMAIN bs = {} THEN Empty ELSE bs[b]

(* The bucket k times next_bucket behind b: (b + k) & m_mask                 *)
On(bs, b, k) == IF DOMAIN bs = {} THEN 0 ELSE (b + k) % Count(bs)

bucket_for_hash(bs, key) == On(bs, key, 0)
next_bucket(bs, b) == On(bs, b, 1)

(* How far behind b is c?                                                   *)
Behind(bs, b, c) == (c - b) % Count(bs)

Least(S) == CHOOSE x \in S : \A y \in S : x <= y

round_up_to_power_of_two(count) ==
  IF count = 0 THEN 0
  ELSE CHOOSE p \in {Pow2[k] : k \in 0..count} : p >= count /\ p < 2 * count

next_bucket_count(bs) == IF DOMAIN bs = {} THEN 2 ELSE 2 * Count(bs)

ceil(count, f) == (count * f[2] + f[1] - 1) \div f[1]   \* std::ceil(count / f)

Init ==
  /\ m_buckets = Buckets(0) /\ m_nb_elements = 0
  /\ m_max_load_factor = DEFAULT_MAX_LOAD_FACTOR
  /\ m_min_load_factor = DEFAULT_MIN_LOAD_FACTOR
  /\ m_grow_on_next_insert = FALSE /\ m_try_skrink_on_next_insert = FALSE
  /\ wanted = [key \in {} |-> 0] /\ torn = FALSE
-----------------------------------------------------------------------------
(* Looking up: on to the next bucket until the value there is nearer to its  *)
(* ideal bucket than the key would be.  Where it stopped, and after how many. *)
find_impl(bs, key) ==
  LET there(k) == At(bs, On(bs, key, k))
      dist == Least({k \in 0..Count(bs) : k > there(k).dist \/ there(k).key = key})
  IN  [found |-> dist <= there(dist).dist, b |-> On(bs, key, dist), dist |-> dist]

(* The place for a key that is known not to be there.                        *)
Seek(bs, key) ==
  LET dist == Least({k \in 0..Count(bs) : k > bs[On(bs, key, k)].dist})
  IN  [b |-> On(bs, key, dist), dist |-> dist]
-----------------------------------------------------------------------------
(* A value put in at b goes as far as the next empty bucket, but not alone:   *)
(* where one is nearer to its ideal bucket it takes that one's place, which   *)
(* goes on in its stead.                                                    *)
Way(bs, b) == Least({k \in 0..(Count(bs) - 1) : empty(bs[On(bs, b, k)])})

Carried(bs, b, e) ==
  LET carried[k \in 0..Way(bs, b)] ==
        IF k = 0 THEN e
        ELSE LET at == bs[On(bs, b, k - 1)]
             IN  [(IF carried[k - 1].dist > at.dist THEN at ELSE carried[k - 1])
                    EXCEPT !.dist = @ + 1]
  IN  carried

PutIn(bs, b, e) ==
  LET carried == Carried(bs, b, e)
  IN  [c \in DOMAIN bs |->
         LET k == Behind(bs, b, c)
         IN  IF k <= Way(bs, b) /\ carried[k].dist > bs[c].dist THEN carried[k] ELSE bs[c]]

(* Does one that is very far already take another's place on the way?        *)
TooFar(bs, b, e) ==
  \E k \in 1..(Way(bs, b) - 1) :
    /\ Carried(bs, b, e)[k].dist > bs[On(bs, b, k)].dist
    /\ Carried(bs, b, e)[k].dist >= DIST_FROM_IDEAL_BUCKET_LIMIT

insert_value_on_rehash(bs, e) ==
  PutIn(bs, bucket_for_hash(bs, e.key), [e EXCEPT !.dist = 0])

(* A map as a value: its entries, their number and the two flags.            *)
Table(bs, nb, grow, shrink) == [bs |-> bs, nb |-> nb, grow |-> grow, shrink |-> shrink]

this == Table(m_buckets, m_nb_elements, m_grow_on_next_insert, m_try_skrink_on_next_insert)

Becomes(t) ==
  /\ Count(t.bs) <= MaxBuckets
  /\ m_buckets' = t.bs /\ m_nb_elements' = t.nb
  /\ m_grow_on_next_insert' = t.grow /\ m_try_skrink_on_next_insert' = t.shrink

(* All values, bucket by bucket, into a new table, which has no flag set.     *)
Moved(bs, count) ==
  LET moved[b \in 0..Count(bs)] ==
        IF b = 0 THEN Buckets(count)
        ELSE IF empty(bs[b - 1]) THEN moved[b - 1]
        ELSE insert_value_on_rehash(moved[b - 1], bs[b - 1])
  IN  moved[Count(bs)]

rehash_impl(t, count) ==
  Table(Moved(t.bs, round_up_to_power_of_two(count)), t.nb, FALSE, FALSE)

(* Never to fewer buckets than the values there are need.                    *)
rehash(t, count) ==
  LET need == ceil(t.nb, m_max_load_factor)
  IN  rehash_impl(t, IF count > need THEN count ELSE need)

reserve(t, count) == rehash(t, ceil(count, m_max_load_factor))

load_threshold(t) == (Count(t.bs) * m_max_load_factor[1]) \div m_max_load_factor[2]

below_min_load(t) ==
  t.nb * m_min_load_factor[2] < Count(t.bs) * m_min_load_factor[1]

rehash_on_extreme_load(t) ==
  IF t.grow \/ t.nb >= load_threshold(t)
  THEN rehash_impl(t, next_bucket_count(t.bs))
  ELSE IF t.shrink /\ m_min_load_factor[1] # 0 /\ below_min_load(t)
  THEN reserve(t, t.nb + 1)
  ELSE [t EXCEPT !.shrink = FALSE]

insert_impl(t, key, value) ==
  LET here == find_impl(t.bs, key)
      u == rehash_on_extreme_load(t)
      p == IF u.bs = t.bs THEN here ELSE Seek(u.bs, key)
      e == [dist |-> p.dist, key |-> key, value |-> value]
  IN  IF here.found THEN t
      ELSE Table(PutIn(u.bs, p.b, e), u.nb + 1, u.grow \/ TooFar(u.bs, p.b, e), u.shrink)

(* A range first makes room for all of it.  The room there is is a difference *)
(* of unsigned numbers: huge where a load factor set later left too many.     *)
insert_range(t, pairs) ==
  LET free == load_threshold(t) - t.nb
      inserted[k \in 0..Len(pairs)] ==
        IF k = 0
        THEN IF 0 <= free /\ free < Len(pairs) THEN reserve(t, t.nb + Len(pairs)) ELSE t
        ELSE insert_impl(inserted[k - 1], pairs[k][1], pairs[k][2])
  IN  inserted[Len(pairs)]

insert_or_assign(t, key, value) ==
  LET p == find_impl(t.bs, key)
  IN  IF p.found THEN [t EXCEPT !.bs[p.b].value = value] ELSE insert_impl(t, key, value)
-----------------------------------------------------------------------------
(* Erasing moves the values behind one bucket nearer, up to one that is in    *)
(* its ideal bucket already.                                                *)

erase_from_bucketOnly(t, b) ==
  [t EXCEPT !.bs[b] = Empty, !.nb = @ - 1, !.shrink = TRUE]

erase_from_bucket(t, b) ==
  LET bs == [t.bs EXCEPT ![b] = Empty]
      end == Least({k \in 1..Count(bs) : bs[On(bs, b, k)].dist <= 0})
      shifted == [c \in DOMAIN bs |->
                    LET k == Behind(bs, b, c)
                    IN  IF k < end - 1 THEN [bs[next_bucket(bs, c)] EXCEPT !.dist = @ - 1]
                        ELSE IF k = end - 1 THEN Empty ELSE bs[c]]
  IN  [t EXCEPT !.bs = shifted, !.nb = @ - 1, !.shrink = TRUE]

erase_key(t, key) ==
  LET p == find_impl(t.bs, key) IN IF p.found THEN erase_from_bucket(t, p.b) ELSE t

(* erase(first, last) looks for values to move up to the last bucket only.    *)
(* Each is moved as far as the one before it, or into its ideal bucket.       *)
erase_range(t, first, last) ==
  LET gone == {b \in first..(last - 1) : ~ empty(t.bs[b])}
      bs == [b \in DOMAIN t.bs |-> IF b \in gone THEN Empty ELSE t.bs[b]]
      end == Least({b \in last..Count(bs) : b = Count(bs) \/ bs[b].dist <= 0})
      by(b) == Least({last - first} \cup {bs[c].dist : c \in last..b})
      mover(c) == {b \in last..(end - 1) : b - by(b) = c}
      closer == [c \in DOMAIN bs |->
                   IF mover(c) # {}
                   THEN LET b == CHOOSE b \in mover(c) : TRUE
                        IN  [bs[b] EXCEPT !.dist = @ - by(b)]
                   ELSE IF c \in last..(end - 1) THEN Empty ELSE bs[c]]
      left == [t EXCEPT !.bs = bs, !.nb = @ - Cardinality(gone)]
  IN  IF last = Count(t.bs) THEN left
      ELSE [left EXCEPT !.bs = closer, !.shrink = TRUE]

clearUncounted(t) ==
  [t EXCEPT !.bs = Buckets(Count(@)), !.grow = FALSE]

clear(t) == [t EXCEPT !.bs = Buckets(Count(@)), !.nb = 0, !.grow = FALSE]
-----------------------------------------------------------------------------
loads == <<m_max_load_factor, m_min_load_factor>>

Put(map, key, value) == [k \in DOMAIN map \cup {key} |-> IF k = key THEN value ELSE map[k]]
PutNew(map, key, value) == IF key \in DOMAIN map THEN map ELSE Put(map, key, value)

PutAllNew(map, pairs) ==
  LET firstOf(key) == pairs[Least({k \in DOMAIN pairs : pairs[k][1] = key})]
  IN  [key \in DOMAIN map \cup {pairs[k][1] : k \in DOMAIN pairs} |->
         IF key \in DOMAIN map THEN map[key] ELSE firstOf(key)[2]]

Without(map, K) == [key \in DOMAIN map \ K |-> map[key]]

Insert(key, value) ==
  /\ Becomes(insert_impl(this, key, value))
  /\ wanted' = PutNew(wanted, key, value)
  /\ UNCHANGED <<loads, torn>>

InsertRange(pairs) ==
  /\ Becomes(insert_range(this, pairs))
  /\ wanted' = PutAllNew(wanted, pairs)
  /\ UNCHANGED <<loads, torn>>

InsertOrAssign(key, value) ==
  /\ Becomes(insert_or_assign(this, key, value))
  /\ wanted' = Put(wanted, key, value)
  /\ UNCHANGED <<loads, torn>>

Erase(key) ==
  /\ Becomes(erase_key(this, key))
  /\ wanted' = Without(wanted, {key})
  /\ UNCHANGED <<loads, torn>>

(* Where an iterator can stand: on a value, or at the end.                   *)
Places == {b \in DOMAIN m_buckets : ~ empty(m_buckets[b])}

EraseAt(b) ==
  /\ Becomes(erase_from_bucket(this, b))
  /\ wanted' = Without(wanted, {m_buckets[b].key})
  /\ UNCHANGED <<loads, torn>>

(* What a torn map does is modelled only where it is put in order again.      *)
Torn(bs) == bs[0].dist > bs[Count(bs) - 1].dist + 1

EraseRange(first, last) ==
  LET t == erase_range(this, first, last)
  IN  /\ Becomes(t)
      /\ torn' = Torn(t.bs)
      /\ wanted' = Without(wanted, {m_buckets[b].key : b \in Places \cap first..(last - 1)})
      /\ UNCHANGED loads

Clear ==
  /\ Becomes(clear(this))
  /\ wanted' = Without(wanted, Keys) /\ torn' = FALSE
  /\ UNCHANGED loads

Rehash(count) ==
  Becomes(rehash(this, count)) /\ torn' = FALSE /\ UNCHANGED <<loads, wanted>>

Reserve(count) ==
  Becomes(reserve(this, count)) /\ torn' = FALSE /\ UNCHANGED <<loads, wanted>>

SetLoadFactors ==
  /\ m_max_load_factor' \in MaxLoads /\ m_min_load_factor' \in MinLoads
  /\ UNCHANGED <<m_buckets, m_nb_elements, m_grow_on_next_insert,
                 m_try_skrink_on_next_insert, wanted, torn>>

Change ==
  \/ \E key \in Keys, value \in Values : Insert(key, value) \/ InsertOrAssign(key, value)
  \/ \E pairs \in Ranges : InsertRange(pairs)
  \/ \E key \in Keys : Erase(key)
  \/ \E b \in Places : EraseAt(b)
  \/ \E first \in Places, last \in Places \cup {m_bucket_count} :
       first < last /\ EraseRange(first, last)
  \/ SetLoadFactors

Restore ==
  \/ Clear
  \/ \E count \in 0..MaxBuckets : Rehash(count) \/ Reserve(count)

Next == (~ torn /\ Change) \/ Restore

Spec == Init /\ [][Next]_vars
-----------------------------------------------------------------------------
(***************************************************************************)
(* A search that stops where a value is nearer to its ideal bucket relies on  *)
(* the order within a run: each value as far from its ideal bucket as it says *)
(* and at most one farther than the value before it, around the end of the    *)
(* table too.  So each value is found where it is.  erase(first, last) alone  *)
(* breaks runs that wrap around.                                            *)
(***************************************************************************)
ChainsUnbroken ==
  ~ torn =>
    \A b \in Places :
      LET e == m_buckets[b]
          before == (b - 1) % m_bucket_count
      IN  /\ e.dist = (b - bucket_for_hash(m_buckets, e.key)) % m_bucket_count
          /\ e.dist <= m_buckets[before].dist + 1
          /\ find_impl(m_buckets, e.key).b = b

(***************************************************************************)
(* Insertion goes on until it meets an empty bucket: there always is one,     *)
(* whatever the load factor, the growth and the shrinking did, for the values *)
(* are as many as counted.  It holds even where the debug assertion of a      *)
(* range insertion (robin_hash.h:759) does not: a lower max_load_factor has    *)
(* left more values than the threshold, and nb_free_buckets wraps around.     *)
(***************************************************************************)
AlwaysRoom ==
  /\ m_nb_elements = Cardinality(Places)
  /\ m_bucket_count # 0 => m_nb_elements < m_bucket_count

(***************************************************************************)
(* To its user it is a map: find gets to the keys that were put in and not    *)
(* taken out, each with its value, and to no others, however the operations   *)
(* moved the others on and back, grew or shrank the table.  What a torn map   *)
(* cannot find comes back with the next rehash.                             *)
(***************************************************************************)
HoldsWhatWasPut ==
  ~ torn =>
    \A key \in Keys :
      LET p == find_impl(m_buckets, key)
      IN  /\ p.found <=> key \in DOMAIN wanted
          /\ p.found => m_buckets[p.b].value = wanted[key]
=============================================================================
