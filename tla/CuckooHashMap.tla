---------------------------- MODULE CuckooHashMap ----------------------------
(***************************************************************************)
(* CuckooHashMap of src/competitors/stanford_hash.h, filled by Build of       *)
(* CuckooHash.  A key lives in one of two buckets; where both are full an     *)
(* entry is evicted at random and inserted anew, by a call in tail position: *)
(* here the arguments of the call are a variable and each call is a step.    *)
(*                                                                          *)
(* What the hash makes of a key is left open: any two buckets.              *)
(***************************************************************************)
EXTENDS Integers, Sequences, FiniteSets

CONSTANTS
  Keys,           \* keys of the dataset, the sentinel among them
  INVALID_KEY,    \* key of an empty slot: 2^32 - 1
  BUCKET_SIZE,    \* 8
  num_buckets_,
  HashPairs,      \* values of alt_mod(hash), alt_mod(hash32(key ^ hash))
  Datasets        \* the keys of datasets: sorted sequences

Buckets == 0 .. num_buckets_ - 1
Slots == 1 .. BUCKET_SIZE

CuckooConstants ==
  /\ Keys \subseteq Nat /\ INVALID_KEY \in Keys
  /\ \A key \in Keys : key <= INVALID_KEY
  /\ BUCKET_SIZE \in Nat \ {0} /\ num_buckets_ \in Nat \ {0, 1}
  /\ HashPairs \subseteq Buckets \X Buckets
  /\ Datasets \subseteq Seq(Keys)
  /\ \A d \in Datasets : \A i, j \in DOMAIN d : i <= j => d[i] <= d[j]

VARIABLES
  data,       \* the keys; the value of each is its row, counted from 0
  hashes,     \* the HashPairs of each key
  row,        \* rows Build has been through
  buckets_,   \* the entries [key, value] of each bucket
  size_,
  pc,         \* "build" between two rows, "insert" in a call
  call        \* arguments of insert: key, value, is_reinsert

vars == <<data, hashes, row, buckets_, size_, pc, call>>

Entry(key, value) == [key |-> key, value |-> value]
Vacant == Entry(INVALID_KEY, -1)   \* a value nobody has written
NoCall == [key |-> INVALID_KEY, value |-> -1, is_reinsert |-> FALSE]

First(key) == hashes[key][1]

Second(key) ==
  IF hashes[key][2] # hashes[key][1] THEN hashes[key][2]
  ELSE IF hashes[key][1] = num_buckets_ - 1 THEN 0 ELSE hashes[key][1] + 1

Init ==
  /\ data \in Datasets
  /\ hashes \in [{data[i] : i \in DOMAIN data} -> HashPairs]
  /\ row = 0
  /\ buckets_ = [b \in Buckets |-> [s \in Slots |-> Vacant]]
  /\ size_ = 0
  /\ pc = "build" /\ call = NoCall

(* The slots that compare equal to a key: empty ones do to the sentinel.      *)
Equal(b, key) == {s \in Slots : buckets_[b][s].key = key}

FirstOf(S) == CHOOSE s \in S : \A t \in S : s <= t

(* get: the first equal slot of the first bucket, or else of the second.      *)
Get(key) ==
  LET in1 == Equal(First(key), key)
      in2 == Equal(Second(key), key)
  IN  IF in1 # {} THEN {buckets_[First(key)][FirstOf(in1)].value}
      ELSE IF in2 # {} THEN {buckets_[Second(key)][FirstOf(in2)].value}
      ELSE {}

(* Build's next call of insert.                                             *)
NextRow ==
  /\ pc = "build" /\ row < Len(data)
  /\ row' = row + 1
  /\ call' = [key |-> data[row + 1], value |-> row, is_reinsert |-> FALSE]
  /\ pc' = "insert"
  /\ UNCHANGED <<data, hashes, buckets_, size_>>

b1 == First(call.key)
b2 == Second(call.key)

PresentInFirst == Equal(b1, call.key) # {}

Present == Equal(b1, call.key) # {} \/ Equal(b2, call.key) # {}

Store(b, s) ==
  buckets_' = [buckets_ EXCEPT ![b][s] = Entry(call.key, call.value)]

Return == pc' = "build" /\ call' = NoCall

(* Update old value if the key is already in the table.                      *)
Update ==
  /\ pc = "insert" /\ Present
  /\ LET b == IF Equal(b1, call.key) # {} THEN b1 ELSE b2
     IN  Store(b, FirstOf(Equal(b, call.key)))
  /\ Return
  /\ UNCHANGED <<data, hashes, row, size_>>

Counted == size_' = IF call.is_reinsert THEN size_ ELSE size_ + 1

Count(b) == Cardinality({s \in Slots : buckets_[b][s].key # INVALID_KEY})

(* Add it to the bucket with fewer entries, behind as many as those.          *)
PutCareless ==
  /\ pc = "insert" /\ ~Present
  /\ Count(b1) < BUCKET_SIZE \/ Count(b2) < BUCKET_SIZE
  /\ LET b == IF Count(b1) <= Count(b2) THEN b1 ELSE b2
     IN  Store(b, IF Count(b) = 0 THEN 1 ELSE Count(b))
  /\ Counted /\ Return
  /\ UNCHANGED <<data, hashes, row>>

Put ==
  /\ pc = "insert" /\ ~Present
  /\ Count(b1) < BUCKET_SIZE \/ Count(b2) < BUCKET_SIZE
  /\ LET b == IF Count(b1) <= Count(b2) THEN b1 ELSE b2
     IN  Store(b, Count(b) + 1)
  /\ Counted /\ Return
  /\ UNCHANGED <<data, hashes, row>>

EvictFromFirst(b, s) ==
  /\ pc = "insert" /\ ~Present
  /\ Count(b1) = BUCKET_SIZE /\ Count(b2) = BUCKET_SIZE
  /\ b = b1
  /\ Store(b, s)
  /\ call' = [key |-> buckets_[b][s].key, value |-> buckets_[b][s].value,
              is_reinsert |-> TRUE]
  /\ Counted
  /\ UNCHANGED <<data, hashes, row, pc>>

(* Both are full: evict a random entry from one of them.                     *)
Evict(b, s) ==
  /\ pc = "insert" /\ ~Present
  /\ Count(b1) = BUCKET_SIZE /\ Count(b2) = BUCKET_SIZE
  /\ b \in {b1, b2}
  /\ Store(b, s)
  /\ call' = [key |-> buckets_[b][s].key, value |-> buckets_[b][s].value,
              is_reinsert |-> TRUE]
  /\ Counted
  /\ UNCHANGED <<data, hashes, row, pc>>

EvictSome == \E b \in Buckets, s \in Slots : Evict(b, s)

Built == pc = "build" /\ row = Len(data) /\ UNCHANGED vars

Next == NextRow \/ Update \/ Put \/ EvictSome \/ Built

(* Nothing in a call waits.  Victims are random: no slot is spared for ever   *)
(* that could be chosen over and over.                                      *)
Fairness ==
  /\ WF_vars(Next)
  /\ \A b \in Buckets, s \in Slots : SF_vars(Evict(b, s))

Spec == Init /\ [][Next]_vars /\ Fairness
-----------------------------------------------------------------------------
Inserted == {data[i] : i \in 1 .. row}
Valid == Inserted \ {INVALID_KEY}

LastRow(key) ==
  CHOOSE r \in 0 .. row - 1 :
    /\ data[r + 1] = key
    /\ \A q \in r + 1 .. row - 1 : data[q + 1] # key

(***************************************************************************)
(* The sentinel as a key is stored like the others only while it finds a      *)
(* vacant slot.  If it evicts an entry it is counted, but the slot it takes   *)
(* counts as vacant, and insertions can then overwrite others.               *)
(***************************************************************************)
Harmless == INVALID_KEY \in Inserted => size_ = Cardinality(Valid)

(***************************************************************************)
(* Between two rows the map has every key with the last of its rows, however  *)
(* often entries have been moved, and no key that was not inserted.          *)
(***************************************************************************)
FindsLastRow ==
  pc = "build" /\ Harmless =>
    \A key \in DOMAIN hashes :
      IF key \in Inserted THEN Get(key) = {LastRow(key)}
      ELSE key = INVALID_KEY \/ Get(key) = {}

(***************************************************************************)
(* In the middle of an insertion nothing is lost either: each key is in one   *)
(* slot or on its way, where get would look for it and without a gap in       *)
(* front, and size_ counts them.  Nothing is claimed once INVALID_KEY itself   *)
(* has been inserted; FindsLastRow says when that does no harm.              *)
(***************************************************************************)
Occupied(b) == {s \in Slots : buckets_[b][s].key # INVALID_KEY}

NoneLost ==
  INVALID_KEY \notin Inserted =>
    /\ \A b \in Buckets : Occupied(b) = 1 .. Count(b)
    /\ \A b \in Buckets : \A s \in Occupied(b) :
         b \in {First(buckets_[b][s].key), Second(buckets_[b][s].key)}
    /\ \A key \in Inserted :
         pc = "build" \/ key # call.key =>
           Cardinality({p \in Buckets \X Slots : buckets_[p[1]][p[2]].key = key}) = 1
    /\ size_ = Cardinality(
                 IF pc = "insert" /\ ~call.is_reinsert /\ ~Present
                 THEN Inserted \ {call.key} ELSE Inserted)

(***************************************************************************)
(* An insertion ends if the keys can be divided among their buckets at all:   *)
(* if no buckets are the only ones of more keys than they have slots.        *)
(***************************************************************************)
Fits ==
  \A B \in SUBSET Buckets :
    Cardinality({key \in Inserted : {First(key), Second(key)} \subseteq B})
      <= BUCKET_SIZE * Cardinality(B)

InsertionEnds == pc = "insert" /\ Fits ~> pc = "build"
=============================================================================
