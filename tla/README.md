# A verification development for SOSD

SOSD ("Searching on Sorted Data") measures learned and conventional indexes on
sorted arrays of integers. This fork adds *writes*: part of the dataset is kept
out of the index at first and inserted while the lookups are timed. This
directory holds TLA+ models of the parts of the program that decide what is
measured and whether the answers are right, the TLC configurations that check
them on small instances, and TLAPS proofs of the results that should hold for
every dataset.

    tlc -workers 2 -config MCSearches.cfg MCSearches.tla      # one run
    tlapm SearchesProofs.tla                                  # one set of proofs

`PROJECT.json` maps every definition to the lines of `src/` that it models.

## 1. The system

### 1.1 Components, their state and operations

| Component | Source | State | Operations |
|---|---|---|---|
| Last-mile searches | `searches/*.h` | none between calls; in a call the position, the window left, the sum so far | `search(data, key, &qualifying, start, end)` |
| Competitor wrappers | `competitors/*.h` | the pairs kept, `data_size_`, a scale | `Build`, `EqualityLookup` (a key to a `SearchBound`), `Insert`, `applicable` |
| Radix binary search | `competitors/radix_binary_search.h` | table of hints, smallest and largest key, shift | `Build`, `EqualityLookup` |
| Cuckoo map | `competitors/stanford_hash.h` | buckets of 8 keys | `insert` (with eviction), `get` |
| Interpolation B-tree | `competitors/interpolation_btree.h` | nodes, loaded once | bulk load, `Lookup` |
| ART | `competitors/art_primary_lb.h` | nodes of 4 to 256 children | `insert`, `bound` and the iterator behind it |
| stx B+ tree | `competitors/stx-btree-0.9/include/stx/btree.h` | nodes, chain of leaves, counters | insert, bulk load, erase, copy, dump and restore, bounds, iterators |
| robin map | `robin-map/include/tsl/robin_hash.h` | buckets, load factors, flags to grow or shrink | insert, assign, erase, rehash, `find` |
| Benchmark harness | `benchmark.h`, `benchmark.cc` | `data_`, `lookups_`, `index_data_`, `insertion_data_`, `runs_`, flags, error sums | `main`, constructor, `Run`, core loop, error tracking, `PrintResult` |
| Write partition | `benchmark.h:138-206` | `index_data_`, `insertion_data_`, the ids drawn | one pass in each `Run` |
| Workload generator | `generate.cc` | lookups so far, retries | draw positive and negative lookups, take a trace |
| Utilities | `util.h` | none | `load_data`, `add_values`, `is_unique`, `fail` |
| Performance counters | `utils/perf_event.h` | counters | a line per measurement |
| Schedules | `benchmarks/*.cc` | none | lists of `Run` calls |

### 1.2 How they interact

All is calls on one thread. `generate` writes a file of `{key, result}`, the sum
of the values of the rows of the key. The benchmark reads it, sorts out the
options, and calls `Run<Index>` for one competitor after another. A `Run` puts
entries aside, builds the index, and per request either inserts one of those
entries or asks the index for a `SearchBound`. In that window of rows a
last-mile search locates the key and adds up its rows. Between the index and the
search stands only the bound, so what a bound must guarantee and what a search
makes of it are two halves of one contract (`LookupSpec`, `CoversFirst`).
Members of `Benchmark` outlive a `Run`: `lookups_`, `index_data_`,
`insertion_data_`, `runs_`, `first_run_` and the error sums link each competitor
to those before it.

### 1.3 What is hard here

There is no concurrency: `--threads N` starts no thread (`benchmark.h:311`); any
N other than 1 makes the one thread take batches from an atomic counter. Nothing
is persisted, there are no messages and no timeouts. What makes the code hard is

* **boundaries**: inclusive and exclusive ends of windows meet; empty and full
  windows; the first and last key; one past the end; unsigned subtraction;
* **sampling**: every index but a few keeps one pair in `size_scale`, and its
  window has to reach back exactly far enough;
* **state carried over**: later `Run`s work on what earlier ones left, inserts
  change the index that later lookups ask;
* **random draws**: termination of two loops depends on what they can draw, and
  on engines that restart from their seed;
* **undefined behaviour**: reads past a vector, an uninitialised local, a
  conversion of a quotient by zero. Each is modelled as a choice among what may
  come of it, or ends the model in a state of its own (`undefined`, `crashed`).

`PROJECT.json` lists the hazards line by line, with the properties that watch
each of them.

### 1.4 What makes each component correct

* *Searches*: the exact sum if the window holds the first row of the key; never
  a row of another key; no read beyond one past the end, and one there only where
  the call tells; the call returns.
* *Wrappers, radix table*: the window for a key of the data holds its first row,
  and is as narrow as the scale promises.
* *Write partition*: no entry lost or doubled, exactly the drawn ones put aside,
  no key that is looked up among them; it ends if it can.
* *Harness*: each request processed once and in order; answers exact with and
  without writes; as much put aside as was asked for; behaviour defined but where
  known; the program ends.
* *Trees*: balanced, in order, chained; lookups, iteration and erasure exact however
  splits and merges moved the items; to the user a sorted list.
* *Hash maps*: what was put in and not taken out is found, with its last value;
  an insertion ends.
* *Generator*: the answers it writes down are those of the data.

## 2. The modules

| Module | Models | State and actions |
|---|---|---|
| `LookupSpec` | what a call of `search` promises | one action, `Return` |
| `SearchBase` | the call's arguments, the summation loop of all but the branchless search | `AddRow`, `StopAdding`; `Peek` is a read that may lie one past the end |
| `BranchingBinarySearch` | `branching_binary_search.h` | `Locate` (`std::lower_bound` in one step), `Check`, sum |
| `BranchlessBinarySearch` | `branchless_binary_search.h` | `Halve`, `StopHalving`, `ScrollBack`, `Check`; `AddNext`, `StopAtOther`: its summation reads a row before it tests the bound |
| `LinearSearch` | `linear_search.h` | `Advance`, `Check`, sum |
| `Searches` | the choice of `--search`: composes the three | a call of the chosen one |
| `InterpolationSearch` | `interpolation_search.h`, with an INSTANCE of the branching search to finish | `Narrow`, `TooShort`, `Finish` |
| `WritePartition` | `benchmark.h:138-206` | `Draw`, `EndGather`, `Extract`, `EndExtract`, `Sort` |
| `IndexWrappers` | ten wrappers as operators: `Load`, `Windows`, `InsertPair`, `Applicable` | |
| `Selections` | what a loop leaves that keeps some entries of a vector | |
| `ListLookup` | one wrapper built and asked, its dictionary a list | `BuildList`, `AskList` |
| `IndexLookup` | the same, ART and IBTree with their trees | `Build`, `EqualityLookup` |
| `AdaptiveRadixTree` | the tree of `art_primary_lb.h` as operators: `Insert`, `Bound`, `IteratorNext` | |
| `InterpolationBTree` | the tree of `interpolation_btree.h` as operators: `FastLoadGenerate`, `Lookup` | |
| `BPlusTree` | `stx::btree` as a multimap | `insert_start`, `bulk_load`, `erase_one`, `erase`, `erase_iter`, `clear`, `copy_recursive`, `restore_node` |
| `OrderedMultimap` | what `stx::btree_multimap` promises: a sorted list | its operations |
| `RobinMap` | `tsl::robin_map` | `Insert`, `InsertRange`, `InsertOrAssign`, `Erase`, `EraseAt`, `EraseRange`, `Clear`, `Rehash`, `Reserve`, `SetLoadFactors` |
| `Tables` | composes the cuckoo map and the radix table: a run keeps one of them | the actions of each |
| `Structures` | composes `Tables` with the B+ tree and the robin map | the actions of each |
| `PowersOfTwo` | powers of two, as a recursive function | |
| `RadixBinarySearch` | `radix_binary_search.h` | `Scan`, `FillRest`, `EqualityLookup` |
| `Benchmark` | `main`, constructor, `Run` and all it calls; composes `WritePartition`, `IndexWrappers`, `SearchBase` | one action per step of `Run`; see below |
| `IndexSession` | what a benchmark promises about an index: a set of rows, requests in order | `Begin`, `PutAside`, `StartServing`, `Read`, `Write`, `NextRepetition`, `Complete`; `Spoil`, `ReadSpoilt`, `GiveUp`; `End` |
| `BenchmarkClaims` | statements of comments and option texts as invariants | |
| `CuckooHashMap` | `CuckooHashMap` and `CuckooHash::Build` of `stanford_hash.h`; each of the nested calls of `insert` is a step | `NextRow`, `Update`, `Put`, `Evict` |
| `Generate` | `generate.cc` | `Start`, `TurnNegative`, `DrawNegative`, `DrawPositive`, `TakeFromTrace`, `Finish` |
| `Foundations` | least elements, sorted rows, powers of two: the lemmas that several proofs cite | |
| `SearchesProofs`, `InterpolationProofs`, `PartitionProofs`, `GenerateProofs`, `TablesProofs`, `BenchmarkProofs`, `WrapperProofs` | proofs | |
| `MC...` | constants for TLC | |

**Data.** A row is its number; its value (`add_values` makes it the row number)
is needed only where sums are compared. Elsewhere a sum is the *set* of rows
added up, which tells more than the sum: two sets may have one sum, and row 0
adds nothing. Keys are small integers; arithmetic on them wraps where the code's
does (`InterpolationSearch`, Wormhole). Vectors are sequences where they grow and
shrink, functions from 0 where they do not.

**`Benchmark`.** `pc` is the place in the program. `ParseOptions` and `Construct`
are `main` and the constructor; `NotApplicable`, `Begin`, `PutAside` (the steps of
`WritePartition`, instantiated on the members of `Benchmark`) and `Build` lead to
the built index; `Refuse`, `StartErrors` and `StartLookups` are the branches of
`Run`; `Repeat`, `Batch`, `EndLoop`, `Timed`, `EndRepeats` are
`DoEqualityLookups`; `Read`, `ColdRead`, `Write`, and the ways they can fail,
are one turn of the core loop; `PrintResult` prints and goes on to the next
competitor. Draws of the random engine of the core loop are a sequence `coins`
fixed once, since the engine starts from its seed in every call: that all
batches repeat one sequence is part of the model. The warm path writes its own
`lower_bound` and is modelled so. The cold path calls a search of
`src/searches`, and is given any answer `LookupSpec` allows. The runs of
`Searches` and `InterpolationSearch` justify that (the latter up to going
astray or never returning, see 3, which `Benchmark` leaves out). Where the
branchless search would read behind the data is part of the model
(`BranchlessBehind`).

**`IndexSession`.** The abstract benchmark. An index is the set of the rows it has
(`stored`), next to it are the rows put aside, and a set of keys is the one that it is
`sure` about. A read of such a key returns its rows, one of another key any of them; a write
takes a row from those aside; a repetition is over once every request was served, and the
service once every repetition is. `Session` in `Benchmark` maps it: `stored` to the values
of the index's entries while requests are served (all rows if nothing is put aside, as a
window then covers rows without entries too), `sure` to all keys at scale 1 with unique
keys and insertions, and without writes to all but Wormhole's gaps and the cuckoo map's
duplicates (`Certain`), `done` to the number of requests seen. Batches and threads,
windows, the partition and printing are not seen in it. A failed check of the cold
run spoils the session: what follows is thrown away (`GiveUp`).

**`IndexWrappers`.** A dictionary behind a wrapper is represented by the ordered
pairs in it, and lower bound, upper bound and insertion as the wrappers use them.
The wrappers' own arithmetic is modelled exactly, and so are their answers where the
dictionary gives none: FST has the whole dataset searched if its trie hands back a bad
iterator, which "sometimes" happens (`fst_wrapper.h:64`) and is possible for each key
looked for there, and the cuckoo map takes an empty slot for the key 0xffffffff, with a
value nobody wrote. `Benchmark` uses these lists.
What stands for them in the code and is in the repository is modelled by itself:
`AnswersAsListed` shows that the trees of ART and IBTree give the windows the list
gives, `Implements` that the B+ tree is such a list, `HoldsWhatWasPut` and
`FindsLastRow` that the two hash maps are maps. ALEX, PGM, FST and Wormhole are
submodules whose directories are empty; for them the list is an assumption.

**`AdaptiveRadixTree`, `InterpolationBTree`.** Nodes are records in records, the
children that pointers name; an insertion gives the new node, which takes the place
of the old one as `nodeRef` has it. An ART leaf stores a number from which the key
is loaded; its entry is kept with it. Children of Node4 and Node16 are arrays, as
positions in the iterator are indexes there and bytes in the larger nodes. Where the
linear search after interpolation starts does not matter for what it finds, so the
rounding of the slope is left out.

**`BPlusTree`.** Slots are counted from 1; a leaf is named by its place among the
leaves. The chain (`links`) is a variable of its own that each operation rewrites as
the code writes its pointers, so that it could be wrong. An operation that descends
returns what the recursive function returns and what it did to its node, by
reference, in the code: for an erase the last key to pass up (`btree_update_lastkey`)
and how the parent is to mend the underflow. Data slots move with the keys and are
left out.

**`RobinMap`.** A bucket has a key, a value and its distance; the hash is the identity,
as `std::hash` is here. Loops over buckets are given by what they leave: `find_impl`
by the least number of steps at which its condition fails (`Least`), an insertion by the
value that arrives at each bucket on the way (`Carried`) and which of the two stays
there (`PutIn`), an erasure by how far each value behind it moves. `wanted` is what the user put in, and `torn` whether an erased
range has broken up a run that wraps around the end (see 6): what a torn map does
next is not modelled, only what puts it in order again.

## 3. The runs

| Run | Bounds | What it shows |
|---|---|---|
| `searches` | keys 0..3, up to 5 rows, all windows | which windows give exact sums for which search, reads, and that each refines `LookupSpec` with its ending |
| `interpolation` | 10 keys, 4 rows, windows from 2 rows on are narrowed, doubles exact up to 8 | rounding never loses the first row; where the probe leaves the data; when the call never returns |
| `partition` | 3 keys, 4 rows, 4 lookups, portions in quarters | safety of the partition, and ending iff there are enough entries |
| `index_lookup` | windows: 6 keys, 6 rows, scales 1..3; trees also: 11 rows spread over 125 keys, 3 digits of base 5, nodes of 2, 3, 4 and 5 children, leaves of 2 and inner nodes of 3 | windows of ten wrappers, two of them with their trees |
| `structures` | cuckoo: 3 buckets of 2, 5 rows, all hash functions into 4 pairs of buckets; radix: 4-bit keys, 2-bit prefixes, 3 rows; B+ tree: 3 keys, up to 10 items, leaves of 4, inner nodes of 2; robin: 5 keys of which some share their bucket, up to 8 buckets, a distance limit of 1 | all operations of the four structures, in any order |
| `benchmark` | reading: 2 to 4 rows, 3 lookups, batches of 2, all 128 sets of seven flags, the branchless search with and without the cold path, 0..2 threads, repeats -1, 0 and 2; writing: 5 rows, portions from -7 to 9 of 4 in a type of 8 values, two Runs | requests, exactness; state carried over, demand for entries; what is put aside; where behaviour is undefined; ending; that it is an `IndexSession` |
| `generate` | 4 keys, 4 rows, 3 lookups, limits of 2 | answers written down, failing, ending |
| `claim_...` | small instances of `Benchmark` | a statement of the repository that the code does not keep, see 6 |

*Why the bounds are enough.* The searches and wrappers branch on comparisons of a
row with a key and of positions with ends; with 5 or 6 rows there are runs of
duplicates of each length at each place, windows of each width at each place,
and keys below, between and above all rows. The halving loop makes at most three
turns there, on odd and even counts; its correctness for any number is proved.
`size_scale` 3 on 6 rows has every remainder twice. In `interpolation` the
constants are scaled down together: `MinDistance` 64 becomes 2, the mantissa of
2^53 becomes 8. Among ten keys there are then differences below and above the mantissa,
ties, coinciding doubles, and quotients and products that round up over a whole number,
so that the row probed is one above that of exact arithmetic. One below it does not occur
at this size; the proofs are about any rounding of any size. `Percent` 100 becomes 4 and `SlackDivisor` 1000 becomes 2 or 3: portions that
round to nothing, that leave a remainder, and the extra entries all occur with
three or four lookups. Batches of 2 (65536 in the code) make 3 requests one full
batch and a part of one. Two repetitions and two or three competitors are what it
takes to see state carried over. The `benchmark` run takes only chosen datasets:
with and without duplicates, unsorted, with and without the key PGM refuses; what
a wrapper does on *every* dataset is the question of `index_lookup`.

Of the cuckoo map five keys and six slots are the fewest with which two full buckets
can overflow into a third, and with which the keys of two buckets can be more than
those hold; which keys they are does not matter, as the hash is any function. Ten
items in leaves of four and inner nodes of two give B+ trees of three levels, in
which a merge or balance takes a neighbour below another parent; with three keys
runs of equal keys go over several leaves. Bulk loads start from images that make
two and three levels. Digits of base 5 give the radix tree
prefixes of none, one and two bytes, all four kinds of nodes and breaks at each
place of a prefix. Eight buckets let the robin map grow twice from nothing, shrink,
and have runs that wrap around the end; a distance limit of 1 (4096 in the code)
makes it grow for long runs.

Deadlock is checked in every run; states where the program is over have a
`Terminated` step.

*Fairness.* One thread runs the program and nothing it does waits, so weak
fairness of the next step is what the machine gives. Random draws are steps that
may leave the state alone (an id that was drawn before or is not wanted; a key
that is in the data). Such a step is a stuttering step, hence weak fairness says
a draw that does change something comes up eventually if there is one: the engines
are not stuck on a part of their range. That is assumed of
`std::default_random_engine` and of `util::FastRandom` in `GatheringEnds`, `Ends` and
`EndsUnlessDense`, and in no safety property. Evictions of the cuckoo map do change
the state and could go round in circles; there strong fairness says that no slot
is spared for ever that could be chosen over and over, which a random victim
satisfies with probability one.

*Mutants.* For each property `PROJECT.json` names a small change to a definition
(a strict comparison, a missing `+ 1`, ids in rising order, a state that is not
reset) and TLC finds the property violated with it. The changed forms stand
next to the definitions in the modules.

Some results that are worth knowing:

* Exactness differs between searches. The branching and linear searches need the
  window to hold the *first* row of the key (`ExactIffCovered` has both
  directions); the branchless one needs *any* row. An index built on a sample is
  therefore safe with every search only because of `CoversFirst`.
* `RunsOutAsForetold`: whether the first `Run` will fail with "ran out of data to
  insert" can be computed from the draws of one batch. Repeating a measurement
  (`--repeats`) multiplies the demand, the partition does not.
* `ReadWriteExact` holds for wrappers with scale 1 on unique keys and fails
  otherwise: sampling counts rows of the full data, while windows count on pairs
  that the partition has taken away.
* `ReadsInside`: the branchless search tests the bound of its summation after the read
  (`branchless_binary_search.h:50`), so it reads behind the data not only for windows
  that end there but for every window that leads it to the last key. `ReadsBehind`
  names these calls, and the answer does not depend on what is read.
* `GatheringEnds` has a third outcome, `crashed`: a partition that is to put aside
  nothing, or everything, prints the first element of an empty vector.
* `TraceRightIffReached`: for a dataset with `corp` in its name the search ends at the length of the *trace*; rows further back count as absent.
* `ReturnsOrSticks`: interpolation search can repeat one probe for ever if the
  lookup key and a larger end key round to one double.
* The cuckoo map keeps every entry for every hash function, with one exception:
  the key 0xffffffff, its mark for an empty slot, is passed on by `Build`
  like any other. If it has to evict an entry the slot counts as empty, and the
  evicted entry overwrites a third one (`Harmless` in `FindsLastRow`). It also
  knows only the last row of a key, yet is applicable to datasets with
  duplicates; `CoversFirst` and `ReadOnlyExact` exempt it there.
* `UndefinedOnlyThere`: besides `--repeats 0`, the behaviour of a benchmark is
  undefined only for writes to ART and for lookups of keys some competitors have no
  answer for, the cuckoo map's 0xffffffff among them; for the branchless search on the
  cold path if the key looked up is the last or larger, or it is sent to the last row; for FST and Wormhole on the cold path after a partition, as their windows
  end at the number of entries left, which may lie before the row they start at; and
  for a later `Run` that finds all entries put aside.
* `AsideAsAsked`: negative and too large portions end the program, unless the cut to
  16 bits brings them back into range: -7 of 8 is 1.
* `AlwaysRoom`: there is an empty bucket in the robin map also where load factors are
  changed under a filled table, and where a threshold below the size makes
  `insert(first, last)` compute a huge number of free buckets and not reserve (there
  the assertion of a debug build, `robin_hash.h:759`, fails; the model is of the others).
* Wormhole is exempt in `CoversFirst` for key 0 and for fewer than two kept
  keys: `lookup_key - 1` wraps, and the row it answers with was never set. So it is in
  `ReadOnlyExact`.

## 4. The proofs

They hold for all values of the constants, where the runs of section 3 check
small instances.

`SearchesProofs` proves of the branchless search (the instance `Branchless`), for
every set of keys, every sorted dataset, window and key, and whatever a read one past
the end yields:

* `TypeCorrect`, `AnswerIsExact`, `ReadsAreInside`: the three invariants of the
  search, the last saying for which calls it reads the row behind the data;
* `ImplementsPromise`: its initial states and its steps are those of
  `LookupSpec` or stuttering ones.

The properties are not inductive. The invariant is
`BranchlessInv`: the types, `Halving`, `Scrolling`, `AddingBehind` and `Collected`, one
conjunct per loop, and `Reaching`, which ties the places behind the last row to the call.
`Halving` is the heart: what is left to look at stays inside the window, right of
it are only larger keys, and once the search has moved it stands on a key that is
not larger. The exception, a window of the last row and the place behind it,
is spelled out, for there the value read decides. `Scrolling`: after halving, if
the window had a row of the key the search stands on one or one past the end
right behind one. `AddingBehind`: the rows added are those of the key in front of `it`.

### 4.1 Induction by least counterexamples

The provers take no induction schema. Where a fact needs induction it is done by
hand: if a property failed for some number, `LeastNatural` of `Foundations` gives the
least number for which it fails, and that one is led to a contradiction
(`LowerBoundExists`, `Pow2Laws`, `ExponentExists`, `SummingExists`). `LeastNatural`
itself comes from the well-foundedness of `<` on the naturals in the library. Two
recursive functions are proved about that way: the powers of two (shifts in the
radix table and in the rounding of doubles) and the running sum of rows in
`Benchmark`.

### 4.2 The searches

The second half of `SearchesProofs` carries the results over to `Searches`, the
composition the run checks: `ChosenIsExact` and `ChosenReadsInside`. `OthersExactIffCovered` is for the other two searches. Its
invariant `OtherInv` says that either search stands where `std::lower_bound` gets to
once it checks, and has then added exactly the rows of the key from there
(`Locating`, `Checking`, `Adding`, `Answered`). So an answer is exact if *and only
if* the window has the first row of the key. `EveryStepPromised`: each step of
`Searches` is one of `LookupSpec` or stutters.

`InterpolationProofs` is about the search that interpolates in doubles.
`RoundingMonotone` comes first: rounding to nearest with ties to even keeps the
order of differences, for every even mantissa. Then `RoundedUnderDouble`: no fraction is
rounded past a double. So a quotient of a smaller by a larger difference does not
exceed 1.0, its product with the distance not the distance (each a double), and the
predicted row lies in the window (`OffsetNatural` and what follows), though either may be
rounded over a whole number. From that `NeverDropsFirst`: whatever the probes, a window that held the
first row yields the exact sum. `GuidedNeverAstray`: with a row of the key in the
window, the place is lost only if the window reaches one past the end or has one
key at both ends. The invariant follows one row `f`, the first of the key
(`Target`): it stays between `lo` and `hi` (`Kept`), and as long as the ends are
guarded (`Sides`) they hold a key below and one above.

### 4.3 The write partition

`PartitionProofs` proves for every dataset, every choice of ids and whatever an
earlier `Run` left: `TypeCorrect`, `NothingLost` (`Partitioned`), `ExactlyTheDrawn`
(`WithheldAsDrawn`) and `LookupsAreServed`. Its invariant is
`IInv == TypeOK /\ Gathering /\ Extracting /\ Drawn /\ Distinct`. `Drawn` is what
makes the extraction loop work: in front of the largest id left nothing has
moved, so an id still names the entry it was drawn for. It holds because ids come
in falling order. `Distinct`: no entry twice and none in both vectors.

### 4.4 The benchmark

`BenchmarkProofs` has the invariant of the whole program, in parts of which each is
kept by every step given those in front of it:

| Part | Says | Theorem that needs it |
|---|---|---|
| `Typed` | the lookups are true answers of keys, options and counters have their types | all |
| `InTurn` | the requests seen are the first ones, as far as the batch or the repetition has got | `OnceAndInOrder` (`RequestsOnce`) |
| `Portioned` | behind the check the portion is the one asked for and at most 100, and nothing is aside at 0 | `LookupsNeverAside` (`NoConflict`), `PortionHonoured` (`AsideAsAsked`) |
| `Apart` | between two `Run`s no entry is twice in or in both of the two vectors; within the partition, the invariant of `PartitionProofs` | the same |
| `FirstRun` | the first `Run` starts with all entries and draws exactly as many as its target | `PortionHonoured` |
| `Prepared` | a `Run` has sorted data, an applicable competitor and requests there are; if none is put aside, all of the data | `ReadsAreExact` (`ReadOnlyExact`) |
| `Stays` | the rows of the keys looked up are in `index_data_`, which is sorted when the index is built | `WritesLeaveReadsExact` (`ReadWriteExact`) |
| `Indexed` | an entry is in the index once and in its place, or aside; a row looked up is in the index | `NoEntryLost` (`EntriesConserved`), `WritesLeaveReadsExact` |
| `Compared` | an answer of the cold run that passed the check has the expected sum; none is left when a `Run` begins | `OnlyRow0Missed` (`CheckSeesAllButRow0`) |
| `Complete` | with nothing put aside the index is that of all the data, and answers are right | `ReadsAreExact` |
| `Precise` | at scale 1, with writes, answers are right | `WritesLeaveReadsExact` |
| `Within` | an index and what is aside have no more entries than the data; entries are rows with a key; Wormhole, which writes do not change, has its rows in order | `NowhereElseUndefined` (`UndefinedOnlyThere`) |
| `Repeated` | once the repetitions have begun there is a time for each | the same |
| `Tossed`, `Batched` | the draws stay; a batch starts at a multiple of the batch size; only a cold run fails its checks | `ShortageForetold` (`RunsOutAsForetold`) |
| `InRound` | repetitions are counted up to the number asked for | `SessionServed` (`ServesAsPromised`) |
| `Accounted` | in the first `Run` what is left to insert, what the repetitions done have written and what this one has written so far add up to what was put aside | the same |

The steps of the partition are the instance `Part` in `Benchmark`, and
`PartitionProofs` is instantiated with the same substitution: its theorem
`NextInvariant` is cited for a step of the partition, so that nothing is proved of it
twice. What has to be shown is that `Begin` establishes its invariant from whatever
the `Run`s before left (`Apart`), and that `Build` can rely on what it ends with.

`NoEntryLost` needs what an index is loaded with: `PairsAt` sorts the entries left by
key, and `KeptPairs` and `RankedPlaces` show that these are all of them, each once.
`OnlyRow0Missed` needs that a set of rows and one that it is contained in
have the same sum only if they differ in row 0 at most (`SumUnfolds`).

`ReadsAreExact` puts the parts of the program together. `WindowsHold` of
`WrapperProofs` (4.6) is about one wrapper built over a whole dataset; `Wrapped` is its
instance for the competitor and the data of a `Run`, and `SameLoad` and `SameWindows`
say that its operators are those of `Benchmark`. So the window has the first row of
the key (`WindowOfRow`); then `std::lower_bound` of the warm path finds all rows of it,
and so does every search that keeps the promise of `LookupSpec` (`RightWindow`, for the
cold path). A key that is not in the data is found nowhere (`AbsentKey`).
`WritesLeaveReadsExact` cannot use `WindowsHold`, as the index misses rows. At scale
1 each row looked up has an entry of its own instead: it stays in `index_data_`
(`Stays`, from the invariant of the partition), `Build` takes it over in order, and a
write inserts an entry in front of those that are larger and behind those that are
smaller (`BoundsThere`, `WritePlace`), so the lower bound of the key still finds it
(`HeldRowFound`).

`NowhereElseUndefined` cannot use `WindowsHold` either: the index has part of the data
and grows. All it needs of an index is `Within`. Its size and what is aside
never exceed the data (`PartsFit`, `LengthOfSet`), so a window that ends at the size or at a
row plus the scale, cut at the size, is inside. The lemmas then go through the windows:
`TreesGuess` for those computed from a lower bound, `OthersStray` for FST, Wormhole and
IBTree; `AstrayWhereLacking` puts them together. For FST and Wormhole the size may lie
before the row the window starts at; the cold path searches such a window (`Reversed`).
The cuckoo map errs only for its sentinel (`HashWindows`), and `BehindIsTheEnd` says
for which keys and windows the branchless search of the cold path reads behind the data.

`ShortageForetold` is a matter of bookkeeping: `Written(k)` is the number of writes among
the first k requests of a repetition, by the draws of one batch. `WrittenNext` says
that the place of a request in its batch decides on it (`Quotient`: division takes a
place apart as the loop put it together), `WrittenGrows` that a repetition never writes
less further on. A write without data left then shows a demand above the target.

`SessionServed` proves that every step of the program is one of `IndexSession` or not seen
there. It puts nearly all parts of the invariant to use: `InTurn` for the order of the
requests and the end of a repetition, `InRound` for the end of the service, `Indexed` for
the rows an index starts with (`StartStep`) and those a write adds (`WriteStep`,
`LastTaken`), `Complete` and `Precise` for what a read returns (`AnswerGiven`). That a
spoilt answer is one the index is not sure about, or was asked for an absent key,
follows from the lookups file being true (`ReadStep`).

### 4.5 The generator and the tables

`GenerateProofs`: `FoundFromFirst` says what the search of the generator returns;
`AnswersAreTrue`, `TraceAnswers` and `FailsForAReason` are the three invariants of its
run. Its invariant says what mode a place in the program implies (`Placed`), that a
retry has met a crowded key (`Retried`), and that the answers so far are right.

`TablesProofs`, the radix table: `PrefixesFit`, that no key has a prefix beyond the
table (an overrun in `Build` otherwise), and `WindowHoldsPlace`. The invariant
`FirstRowOf(j)` says that the row noted for prefix `j` is the first of that or a larger
prefix; `Scanned` says so up to the last prefix scanned while `Build` runs.

The cuckoo map: `MapFindsLastRow` and `MapLosesNone`, for every size and number of
buckets, every hash function and dataset. The parts of its invariant are listed in
`Parts`: entries stand at the front of a bucket (`Compact`), in a bucket of their
key (`Homed`), once (`Once`), none is missing but the one an insertion carries
(`Placed`), and with the last row of their key (`Latest`, `InCall`). With the
sentinel among the keys all that holds only while `Harmless`, and `MapState` says how
the count of entries tells for ever whether it was.

`TablesSpec` is the part of `Structures` these two are about: the same initial states
and steps with the variables of the trees and of the robin map left out, which the
steps of the two tables do not touch. The run checks the properties on
`Structures`.

The robin map is the second half of `TablesProofs`, about the specification of `RobinMap`,
which `Structures` extends: `RoomAlways` (`AlwaysRoom`), `ChainsHold`
(`ChainsUnbroken`) and `HoldsPut` (`HoldsWhatWasPut`), for every set of keys and values,
all load factors the code admits (`RobinConstants`), every distance limit, every bound on
the buckets and all ranges. `AlwaysInOrder` is the inductive invariant:

    InOrder == LoadFactors /\ DOMAIN wanted \subseteq Keys
               /\ \E c \in Nat : KeptAt(this, wanted, c) /\ (~ torn => FineAt(this, wanted, c))

A table of `c` buckets is *kept* if every value is as far from its ideal bucket as it says
(`Sound`), the values are those of the map `wanted`, each key in one bucket (`Holds`),
they are as many as counted, and fewer than buckets. It is *fine* if, going round, none
is more than one step farther than the one before it (`Even`). None of the three
properties is inductive: that a lookup may stop early depends on `Even`, that
an insertion keeps `Even` on its ending at a free bucket before it comes round, and that on
the count, which must not drift through erasures and rehashes.

* *Going round.* `Fwd` and `Dst` are the steps of `next_bucket` and the distance modulo c.
  `Ahead` (by the least counterexample) makes of `Even` that k buckets on a value is
  at most k farther; so before a value there is one in each bucket up from its ideal
  one (`RunBefore`), and with a free bucket none is c - 1 away (`NoneFar`).
* *Looking up.* `Found` and `NotFound`: the search ends at the key, or where it would
  belong (`Belongs`), in front of the first free bucket at the latest.
* *Putting in.* Nothing is proved by induction over the loop: `Iterated` gives the
  sequence of values carried along as a function, once for all loops, and `CarriedIs` says what
  each is. `PutInSound` compares it with the table bucket by bucket; `PutInHolds` follows
  the value in hand: at each step the table with the value in hand exchanged for
  the one in the bucket holds the same map (`Swapped`).
* *Growing and shrinking.* `CeilMore` and `Threshold` are the arithmetic of load factors:
  below 1 a rehash always has a bucket more than values, whatever was set before;
  `ExtremeLoadFine` puts them to use, and `MovedGood` fills the new table.
* *Erasing.* `Shifts` and `Closes` say where the values behind go; that none is
  lost on the way or doubled is one lemma (`Rearranged`) about tables whose values
  come from another. A range moves values up only to the last bucket (`ClosesSound`); that
  the table is even in spite of that is all that `~ torn` has to say (`NotTorn`).

### 4.6 The wrappers

`WrapperProofs` proves `ListsCoverFirst` (`CoversFirst`) and `ListsNarrow` (`Narrow`)
for all ten wrappers, every dataset and every scale. They are theorems of `ListSpec`,
a wrapper with its dictionary as the sorted list of its pairs; that the trees of ART
and IBTree answer like that list (`AnswersAsListed`) is checked by TLC, for keys not in
the data too. `Unique`, duplicates and the two exceptions (`LastRowOnly` of the cuckoo
map, `WormholeGap`) are those of the run.

The argument has three parts. *What is kept*: `Keeps(e, ks, V)` says that a dictionary
has the pairs of the rows in V, in order; the rows are the multiples of the scale, to
which IBTree adds the last row and ART takes one row of each key, or one row of each
key for the hash maps (`LoadKeeps`). *Where the lower
bound is*: `AtLeastFinds`, and `GuessNear`, the heart of it: as the rows kept are never
more than a scale apart (`MultipleNear`, `SampledInSteps`), the pair found lies at most
scale - 1 rows behind the first row of the key, and if there is none that row is among
the last scale - 1 of the data. *What the wrapper makes of it*: a window reaching that
far back holds the row (`TreesHold`, `IBTreeHolds`, `HashHolds`, `FSTHolds`,
`WormholeHolds`). For FST the place of a pair times the scale stands in for its row, and
`SampledInSteps` says that it is that row; where the trie errs the window is the whole
dataset, which holds every row, and which `Narrow` has to allow. `WindowsHold` has all of it in one statement
that does not depend on `ListSpec`.

### 4.7 What is assumed

The assumptions are those stated as ASSUME in the modules, which TLC evaluates too:
non-empty sets of natural keys, positive sizes, an even mantissa (as 2^53 is) of no less than
the number of rows, sorted datasets, a bound on the rows and the lookups of a dataset (any number),
schedules of competitors of positive scale, a number of repetitions that is an integer,
and an option not given (`Absent`) being no number. The theorems about the robin map have
theirs, `RobinConstants`, as a hypothesis; `Structures` assumes it of the constants it is checked with.

### 4.8 Only model-checked

* Liveness (`GatheringEnds`, `Ends`, `EndsUnlessDense`, `ReturnsOrSticks`,
  `InsertionEnds`, the fairness part of `KeepsPromise`): TLAPS does not reason about
  ENABLED.
* The trees: `Implements`, `WellFormed`, `WalksInOrder` and `LookupsExact` of the B+ tree,
  and `AnswersAsListed` of `IndexLookup`, which includes two other trees. They are
  values nested to any depth, their operations RECURSIVE operators, with which tlapm loses
  its SMT backend, and what they compute needs induction over the tree.

## 5. What is not modelled, and why

* ALEX, PGM, FST, Wormhole: submodules that are not here. That they answer as a sorted
  list does is assumed, but for the bad iterators of FST that its wrapper tells of.
* Integers of `int` width in the harness (`benchmark.h:140-167`, `384`): the model has no
  limit there, so it is about fewer than 2^31 rows and requests.
* On the cold path of `Benchmark`, interpolation search going astray or never returning,
  and that `Build` of the cuckoo map ends: each is one step there. Their own modules
  say when that is so.
* Of ART: erase, exact lookup and backward iteration, which nothing calls; the four
  other ART files, which no schedule uses. Of the B+ tree: swap, comparison of trees,
  the fronts other than the multimap. Of the robin map: copies, moves and swaps, other
  growth policies, exceptions. Its distances have 16 bits: only insertions that
  displace a value (`robin_hash.h:1285`) ask for growth, a value put in an
  empty bucket at any distance (1236) does not. No table of this size is modelled, and
  that a run of 32768 comes about is left open.
* RMI, RS, TS, CHT, FAST: generated models or libraries that are not here.
* Times, sizes in bytes, performance counters, prefetching, fences: no property
  depends on them. A time is "not 0".
* Floating-point flags: the build uses `-ffast-math -march=native`
  (`CMakeLists.txt:9,11`). The model rounds each operation as it is written, to the
  nearest IEEE double with ties to even. That `-ffast-math` may let a compiler
  compute the offset in another order is not modelled.
* Files, downloads, scripts, option syntax.
* An empty dataset: the constructor loads it, most wrappers then read `front()` of
  nothing. Datasets here have a row at least, as all that the scripts make.
* The error sums of `--errors` (never printed, see 6), which also are not reset
  between `Run`s.

## 6. Where code and texts disagree

Five runs are meant to fail, each showing that a text of the repository does not
hold of the code:

* `claim_errors`: `--errors` should "report those instead of lookup times"
  (`benchmark.cc:122`), and nothing is reported.
* `claim_portion`: `--write` has the default 0 (`benchmark.cc:127`), and without it an
  uninitialised variable is used.
* `claim_art`: ART "stores <key, offset> pairs" (`art_primary_lb.h:21`), and after a
  partition stores places of a shorter vector.
* `claim_wrong`: a run fails for a "wrong result" (`benchmark.h:266`) also where the
  search result is right and the key absent.
* `claim_robin`: after a range was erased each key iterated over counts once
  (`robin_map_tests.cpp:368-370`). If the last run of the table wraps around, and the
  range goes up to the last buckets, the values in the first buckets are iterated over
  and not found: the shift at `robin_hash.h:879` stops at the last bucket, and 862
  returns before it. The benchmark itself never erases.

Met while modelling and shown by no run of their own:

* The extra entries are for the case that "slightly more write requests are done
  than the distribution would indicate" (`benchmark.h:162-165`); with repetitions or
  batches the demand is a multiple of it (`RunsOutAsForetold`).
* "the mount of data to be excluded from the initial index, and written during the
  benchmark" (`benchmark.cc:126`): later `Run`s withdraw more, on top of what earlier
  ones did not write.
* "don't print a line if (the first) run failed" (`benchmark.h:461`) holds on the warm
  path; the cold one, the only one that can fail, prints a line.
* `--csv` gives a CSV "in addition" (`benchmark.cc:124`), except with `--build`,
  `--cold-cache`, `--errors` and `--perf`.
* "Write portion can not exceed 100% of the dataset" (`benchmark.h:66`) is tested after
  the number was cut to 16 bits (`benchmark.cc:166`): 65537 percent pass as 1.
* A PGM `Run` erases lookups for all competitors after it.

## 7. Plan

Order: first the promise of a search and the searches, since all answers come
from them; then the partition, which decides what is in an index; then the
wrappers and the program that composes all; then the generator; then the
structures behind the wrappers: cuckoo map, radix table, B+ tree, robin map, ART and
the interpolation B-tree; last the abstract benchmark, `IndexSession`, which the program
implements. All of these are done.
