---------------------------- MODULE IndexWrappers ----------------------------
(***************************************************************************)
(* The competitors of src/competitors that keep <key, row> pairs in an        *)
(* ordered or hashed dictionary, and how each turns what the dictionary      *)
(* returns into the window of rows to search (a SearchBound).                *)
(*                                                                          *)
(* A competitor is a record [kind, scale]; scale is the template parameter    *)
(* size_scale (pgm_error for the PGM index).  Its state is a record           *)
(*   size     data_size_                                                    *)
(*   entries  the pairs [key, val] the dictionary holds, in key order         *)
(* The dictionaries' operations here are what the wrappers rely on.  Those in   *)
(* the repository have modules of their own, checked against this one in       *)
(* IndexLookup (the trees of ART and IBTree) or by themselves in Structures     *)
(* (the B+ tree and the hash maps); the others are external.                 *)
(***************************************************************************)
EXTENDS Integers, Sequences, FiniteSets, SequencesExt, Selections

CONSTANTS KeyRange,       \* number of values of KeyType; key - 1 wraps
          RowRange        \* number of values of a row: 2^64, where it wraps

Kinds == {"BS", "BTree", "ALEX", "PGM", "ART", "IBTree", "RobinHash",
          "CuckooMap", "FST", "Wormhole"}

HashMap(c) == c.kind \in {"RobinHash", "CuckooMap"}

(* applicable(unique, ...)                                                  *)
Applicable(c, unique) == c.kind \in {"ART", "FST", "Wormhole"} => unique

(* Wrappers whose Insert is not a call of util::fail, ART (see below) aside.  *)
Insertable(c) == c.kind \in {"BTree", "ALEX", "PGM"}

(* Leaves of ART hold no key: it is read, at the place the leaf stores, from   *)
(* the vector Build was given.  Insert stores a row instead, so what the tree *)
(* does from then on depends on entries of other keys, or of none.           *)
InsertCorrupts(c) == c.kind = "ART"

(* Keep one pair in `scale`, told by the row it stands for ...              *)
ByValue(s, scale) == PairsAt(s, {i \in DOMAIN s : s[i].val % scale = 0})

(* ... or by its place in the vector Build is given.                        *)
ByPlace(s, scale) == PairsAt(s, {i \in DOMAIN s : (i - 1) % scale = 0})

(* ART also stores that place instead of the row, and compares each key with *)
(* the last one stored, that is the one before it; with the first it compares  *)
(* the largest key there is.                                                *)
ArtPairs(s, scale) ==
  LET placed == [i \in DOMAIN s |-> [key |-> s[i].key, val |-> i - 1]]
      one == ByPlace(placed, scale)
      Before(i) == IF i = 1 THEN KeyRange - 1 ELSE one[i - 1].key
  IN  PairsAt(one, {i \in DOMAIN one : one[i].key # Before(i)})

(* IBTree: one in `scale` by place, and always the last one.                *)
WithLast(s, scale) ==
  PairsAt(s, {i \in DOMAIN s : (i - 1) % scale = 0 \/ i = Len(s)})

(* A hash map, and the dynamic PGM index, keep the first pair of a key.       *)
FirstOfKey(s) ==
  PairsAt(s, {i \in DOMAIN s : \A j \in 1 .. i - 1 : s[j].key # s[i].key})

(* The cuckoo map updates it (see CuckooHashMap).                            *)
LastOfKey(s) ==
  PairsAt(s, {i \in DOMAIN s : \A j \in i + 1 .. Len(s) : s[j].key # s[i].key})

(* A competitor before Build: data_size_ is 0, the dictionary empty.        *)
Unbuilt == [size |-> 0, entries |-> <<>>]

(* Build.                                                                   *)
Load(c, s) ==
  [size |-> Len(s),
   entries |->
     CASE c.kind = "BS" -> <<>>
       [] c.kind \in {"BTree", "ALEX", "FST"} -> ByValue(s, c.scale)
       [] c.kind = "ART" -> ArtPairs(s, c.scale)
       [] c.kind = "IBTree" -> WithLast(s, c.scale)
       [] c.kind \in {"PGM", "RobinHash"} -> FirstOfKey(s)
       [] c.kind = "CuckooMap" -> LastOfKey(s)
       [] c.kind = "Wormhole" -> ByPlace(s, c.scale)]

(* lower_bound of the dictionaries: one past the last entry if all are less. *)
AtLeast(entries, key) ==
  CHOOSE i \in 1 .. Len(entries) + 1 :
    /\ \A j \in 1 .. i - 1 : entries[j].key < key
    /\ i <= Len(entries) => entries[i].key >= key

Above(entries, key) ==
  CHOOSE i \in 1 .. Len(entries) + 1 :
    /\ \A j \in 1 .. i - 1 : entries[j].key <= key
    /\ i <= Len(entries) => entries[i].key > key

(* Insert: stx::btree_multimap puts a pair in front of those with its key,    *)
(* ALEX behind them; the dynamic PGM index replaces the value of the key.    *)
Place(c, ix, e) ==
  LET at == AtLeast(ix.entries, e.key)
      there == at <= Len(ix.entries) /\ ix.entries[at].key = e.key
  IN  CASE c.kind = "ALEX" -> InsertAt(ix.entries, Above(ix.entries, e.key), e)
        [] c.kind = "PGM" /\ there -> ReplaceAt(ix.entries, at, e)
        [] OTHER -> InsertAt(ix.entries, at, e)

InsertPair(c, ix, e) ==
  [size |-> IF c.kind = "ALEX" THEN ix.size ELSE ix.size + 1,
   entries |-> Place(c, ix, e)]

Window(from, to) == [start |-> from, stop |-> to]

BelowWrapping(guess, error) == (guess - error) % RowRange

Below(guess, error) == IF guess < error THEN 0 ELSE guess - error

(* The guess of the tree wrappers: the row of the first pair not less than    *)
(* the key, or the last row Build was told of.                              *)
Guess(ix, key) ==
  LET at == AtLeast(ix.entries, key) IN
  IF at > Len(ix.entries) THEN (ix.size - 1) % RowRange
  ELSE ix.entries[at].val

BackwardsWide(ix, key, error) ==
  Window(Below(Guess(ix, key), 2 * error), Guess(ix, key) + 1)

Backwards(ix, key, error) ==
  Window(Below(Guess(ix, key), error), (Guess(ix, key) + 1) % RowRange)

(* A row read where none was written.                                       *)
Garbage == 0 .. RowRange - 1

(* IBTree: past its last key the leaf reads an entry nothing was stored in.   *)
IBTreeWindows(ix, key, scale) ==
  LET at == AtLeast(ix.entries, key)
      ubs == IF at > Len(ix.entries) THEN Garbage ELSE {ix.entries[at].val}
  IN  {Window(Below(row, scale), row) : row \in ubs}

(* FST: the index of the pair times the scale stands in for its row.          *)
FSTWindow(ix, key, scale) ==
  LET last == ix.entries[Len(ix.entries)]
      guess == (AtLeast(ix.entries, key) - 1) * scale
  IN  IF key >= last.key THEN Window(last.val, ix.size)
      ELSE IF Below(guess, scale) > ix.size THEN Window(0, ix.size)
      ELSE Window(Below(guess, scale),
                  IF guess + scale >= ix.size THEN ix.size
                  ELSE guess + scale + 1)

(* With no pair the largest key and its row, max_key_ and max_val_, were       *)
(* never set.  A key that is less than max_key_ is looked for in the trie,     *)
(* which is external and may hand back a bad iterator "even though we          *)
(* shouldn't": then all of the data is to be searched.                       *)
FSTWindows(ix, key, scale) ==
  IF ix.entries = <<>> THEN {Window(row, ix.size) : row \in Garbage}
  ELSE {FSTWindow(ix, key, scale)}
         \cup (IF key < ix.entries[Len(ix.entries)].key
               THEN {Window(0, ix.size)} ELSE {})

(* Wormhole stores each key but the first with the row of the one before it,  *)
(* and seeks the first stored key not less than lookup_key - 1.  With one key  *)
(* the row it answers with was never set.                                   *)
Predecessor(key) == (key - 1) % KeyRange

WormholeWindows(ix, key) ==
  LET n == Len(ix.entries)
      stored == [i \in 1 .. n - 1 |-> ix.entries[i + 1]]
      at == AtLeast(stored, Predecessor(key))
      from == ix.entries[at].val
      to == IF at + 1 > Len(stored) THEN from ELSE ix.entries[at + 1].val
  IN  IF n < 2 THEN {Window(row, ix.size) : row \in Garbage}
      ELSE IF at > Len(stored) THEN {Window(ix.entries[n].val, ix.size)}
      ELSE {Window(from, (IF to = from THEN ix.size - 1 ELSE to) + 1)}

Stored(ix, key) == \E i \in DOMAIN ix.entries : ix.entries[i].key = key

(* INVALID_KEY, with which the cuckoo map marks its empty slots.             *)
Sentinel == KeyRange - 1

(* Whether EqualityLookup may end the program: a key the hash map lacks, or    *)
(* one that the sentinel, inserted as a key into full buckets, has made the   *)
(* cuckoo map lose (see CuckooHashMap).                                      *)
LookupFails(c, ix, key) ==
  \/ HashMap(c) /\ ~Stored(ix, key)
  \/ c.kind = "CuckooMap" /\ Stored(ix, Sentinel)

(* A lookup of the sentinel that was not inserted finds an empty slot of the   *)
(* cuckoo map, and answers with the value nobody has written there.           *)
HashWindows(c, ix, key) ==
  LET row == ix.entries[AtLeast(ix.entries, key)].val IN
  IF Stored(ix, key) THEN {Window(row, row + 1)}
  ELSE IF c.kind = "CuckooMap" /\ key = Sentinel
  THEN {Window(r, (r + 1) % RowRange) : r \in Garbage}
  ELSE {}

(* EqualityLookup: the windows it may answer with, one unless it reads what   *)
(* was never written or the trie of FST errs; none for a key that a hash map  *)
(* lacks.                                                                   *)
Windows(c, ix, key) ==
  CASE c.kind = "BS" -> {Window(0, ix.size)}
    [] c.kind \in {"BTree", "ALEX", "ART"} ->
         {Backwards(ix, key, c.scale - 1)}
    [] c.kind = "PGM" -> {Backwards(ix, key, c.scale)}
    [] c.kind = "IBTree" -> IBTreeWindows(ix, key, c.scale)
    [] HashMap(c) -> HashWindows(c, ix, key)
    [] c.kind = "FST" -> FSTWindows(ix, key, c.scale)
    [] c.kind = "Wormhole" -> WormholeWindows(ix, key)
=============================================================================
