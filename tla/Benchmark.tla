------------------------------ MODULE Benchmark ------------------------------
(***************************************************************************)
(* The program: main of src/benchmark.cc, the constructor of Benchmark and   *)
(* its Run, called once for each competitor of a schedule (src/benchmark.h). *)
(*                                                                          *)
(* Run puts data aside (WritePartition), builds the index (IndexWrappers),    *)
(* then times the requests and prints a line.  The last-mile search is the    *)
(* one written into the core loop, or on the cold path any of src/searches:  *)
(* there its promise (LookupSpec) is used in its place, and of the reads past  *)
(* the end those of the branchless search.  The interpolation search, which    *)
(* reads and sticks as InterpolationSearch has it, is not one to choose here.  *)
(***************************************************************************)
EXTENDS IndexWrappers

CONSTANTS
  MaxRows, MaxLookups,  \* bounds on the dataset and on the requests
  Percent,              \* 100 in the code: the range of write_portion_
  PortionRange,         \* 2^16: the values of a uint16_t
  SlackDivisor,         \* 1000 in the code
  BatchSize,            \* batch_size
  Absent,               \* the value of an option not on the command line
  Forbidden,            \* keys the PGM index cannot take
  Calls                 \* of the program: the keys in its data file and in
                        \* its lookup file, the options, the competitors

ASSUME BenchmarkAssumption ==
  /\ KeyRange \in Nat \ {0} /\ RowRange \in Nat /\ RowRange > MaxRows
  /\ MaxRows \in Nat \ {0} /\ MaxLookups \in Nat
  /\ Percent \in Nat \ {0} /\ PortionRange \in Nat /\ PortionRange > Percent
  /\ SlackDivisor \in Nat \ {0}
  /\ BatchSize \in Nat \ {0} /\ Absent \notin Int
  /\ \A call \in Calls :
       /\ call.data \in Seq(0 .. KeyRange - 1) \ {<<>>}
       /\ call.lookups \in Seq(0 .. KeyRange - 1)
       /\ Len(call.data) <= MaxRows /\ Len(call.lookups) <= MaxLookups
       /\ call.options.write = Absent \/ call.options.write \in Int

ASSUME CallAssumption ==
  \A call \in Calls :
    /\ call.schedule \in Seq([kind : Kinds, scale : Nat \ {0}])
    /\ call.options.repeats \in Int

VARIABLES
  data,             \* key of each row of data_, numbered from 0
  options,          \* the command line, and whether it is a `fast` build
  schedule,         \* competitors still to run
  lookups,          \* lookups_: [key, result]
  write_portion,    \* write_portion_
  pc, why,          \* where the program is; the reason it failed
  index,            \* the competitor's state
  index_data, insertion_data, ids, before, drawn,   \* see WritePartition
  coins,            \* draws < write_portion_ of a fresh random engine?
  rep, cntr,        \* repetition; work counter of the batches
  from, idx, limit, \* the core loop's start, idx and limit
  runs, run_failed,
  first_run,
  answer,           \* the last lookup: key, window and rows summed up
  seen,             \* history: requests processed in this repetition
  runNo,            \* history: number of Runs begun
  output            \* history: lines printed or written to the CSV

settings == <<data, options, write_portion, coins>>
session == <<schedule, lookups, runNo>>
partition == <<index_data, insertion_data, ids, before, drawn>>
measuring == <<rep, cntr, from, idx, limit, runs, run_failed, answer, seen>>
printing == <<first_run, output>>
vars == <<settings, session, pc, why, index, partition, measuring, printing>>

Keys == 0 .. KeyRange - 1
Size == Cardinality(DOMAIN data)
NotFound == -1                \* util::NOT_FOUND
NoAnswer == [key |-> -1, window |-> Window(0, 0), rows |-> {}]

Part == INSTANCE WritePartition WITH
          lookupKeys <- {lookups[i].key : i \in DOMAIN lookups},
          numLookups <- Len(lookups)

At(key, w) == INSTANCE SearchBase WITH
                size <- Size, start <- w.start, stop <- w.stop,
                it <- 0, rows <- {}

MatchingRows(key) == {p \in DOMAIN data : data[p] = key}

(* A row's value is its number (get_value); they are added up in their order. *)
SumOf(rows) ==
  LET upto[n \in 0 .. MaxRows] ==
        IF n = 0 THEN 0
        ELSE IF n - 1 \in rows THEN upto[n - 1] + (n - 1) ELSE upto[n - 1]
  IN  upto[MaxRows]

Competitor == Head(schedule)
Has(option) == options[option]

(* What generate wrote for a key: the sum of the values of its rows.        *)
Expected(rowKeys, key) ==
  LET rows == {p \in DOMAIN rowKeys : rowKeys[p] = key}
  IN  IF rows = {} THEN NotFound ELSE SumOf(rows)

Init ==
  /\ \E call \in Calls :
       /\ data = [p \in 0 .. Len(call.data) - 1 |-> call.data[p + 1]]
       /\ lookups = [i \in DOMAIN call.lookups |->
                       [key |-> call.lookups[i],
                        result |-> Expected(data, call.lookups[i])]]
       /\ options = call.options
       /\ schedule = call.schedule
  /\ write_portion = 0 /\ pc = "main" /\ why = "none"
  /\ index = Unbuilt
  /\ index_data = [i \in 1 .. Size |-> i - 1]
  /\ insertion_data = <<>> /\ ids = {} /\ before = <<>> /\ drawn = {}
  /\ coins = <<>> /\ rep = 0 /\ cntr = 0
  /\ from = 0 /\ idx = 0 /\ limit = 0
  /\ runs = <<>> /\ run_failed = FALSE /\ first_run = TRUE
  /\ answer = NoAnswer /\ seen = <<>> /\ runNo = 0 /\ output = <<>>

(* util::fail: a message and exit(EXIT_FAILURE).                            *)
Fail(reason) == pc' = "failed" /\ why' = reason
Goto(label) == pc' = label /\ UNCHANGED why
-----------------------------------------------------------------------------
(* main and the constructor.                                                *)

Draws(portion) ==
  {c \in [1 .. MaxLookups -> BOOLEAN] :
     /\ portion = 0 => \A i \in DOMAIN c : ~c[i]
     /\ portion >= Percent => \A i \in DOMAIN c : c[i]}

(* The local write_portion is assigned only if the option is given.  What it  *)
(* holds otherwise is indeterminate: up to one beyond Percent here.  The       *)
(* number given is cut to 16 bits.                                          *)
PortionOf(option) ==
  IF option = Absent THEN 0 .. Percent + 1 ELSE {option % PortionRange}

PortionOrZero(option) == IF option = Absent THEN {0} ELSE {option}

ParseOptions ==
  /\ pc = "main"
  /\ \E portion \in PortionOf(options.write) :
       write_portion' = portion /\ coins' \in Draws(portion)
  /\ Goto("construct")
  /\ UNCHANGED <<data, options, session, index, partition, measuring, printing>>

AtMostOne(P) == Cardinality({o \in P : options[o]}) <= 1

Sorted == \A p, q \in DOMAIN data : p <= q => data[p] <= data[q]
Unique == \A p, q \in DOMAIN data : data[p] = data[q] => p = q

ConstructUnchecked ==
  /\ pc = "construct"
  /\ CASE ~ AtMostOne({"cold", "perf", "fence"}) -> Fail("combination")
       [] ~ Sorted -> Fail("unsorted")
       [] OTHER -> Goto("next")
  /\ UNCHANGED <<settings, session, index, partition, measuring, printing>>

Construct ==
  /\ pc = "construct"
  /\ CASE ~ AtMostOne({"cold", "perf", "fence"}) -> Fail("combination")
       [] write_portion > Percent -> Fail("portion")
       [] ~ Sorted -> Fail("unsorted")
       [] OTHER -> Goto("next")
  /\ UNCHANGED <<settings, session, index, partition, measuring, printing>>
-----------------------------------------------------------------------------
(* Run: from its start to the index built.                                  *)

NextCompetitor ==
  /\ schedule' = Tail(schedule)
  /\ Goto("next")

NotApplicable ==
  /\ pc = "next" /\ schedule # <<>>
  /\ ~ Applicable(Competitor, Unique)
  /\ NextCompetitor
  /\ UNCHANGED <<settings, lookups, runNo, index, partition, measuring,
                 printing>>

(* lookups_ loses the keys the PGM index cannot take, and for good.  Ids are   *)
(* to be drawn from 0 to size() - 1 of index_data_, and there is no such       *)
(* distribution if earlier Runs put all of it aside.                         *)
Begin ==
  /\ pc = "next" /\ schedule # <<>>
  /\ Applicable(Competitor, Unique)
  /\ lookups' = IF Competitor.kind = "PGM"
                THEN PairsAt(lookups,
                             {i \in DOMAIN lookups : lookups[i].key \notin Forbidden})
                ELSE lookups
  /\ index' = Unbuilt
  /\ runNo' = runNo + 1
  /\ answer' = NoAnswer
  /\ Goto(IF write_portion = 0 THEN "build"
          ELSE IF index_data = <<>> THEN "undefined" ELSE "gather")
  /\ UNCHANGED <<settings, schedule, partition, rep, cntr, from, idx, limit, runs,
                 run_failed, seen, printing>>

PutAside ==
  /\ Part!Step
  /\ UNCHANGED <<settings, session, why, index, measuring, printing>>

Pair(position) == [key |-> data[position], val |-> position]

Build ==
  /\ pc = "build"
  /\ index' = Load(Competitor,
                   [i \in DOMAIN index_data |-> Pair(index_data[i])])
  /\ Goto("dispatch")
  /\ UNCHANGED <<settings, session, partition, measuring, printing>>
-----------------------------------------------------------------------------
(* Run: the choice of what to do with the index.                            *)

Slow == options.perf \/ options.cold \/ options.fence

(* What ends the program instead.                                           *)
Refusal ==
  CASE options.fast /\ Slow -> "fast mode"
    [] ~options.fast /\ options.errors /\ (options.threads > 1 \/ Slow) -> "errors"
    [] ~options.fast /\ options.cold /\ options.threads > 1 -> "threads"
    [] OTHER -> "none"

Refuse ==
  /\ pc = "dispatch" /\ Refusal # "none"
  /\ Fail(Refusal)
  /\ UNCHANGED <<settings, session, index, partition, measuring, printing>>

(* DoLookupsWithErrorTracking, whose return is that of Run.                 *)
StartErrors ==
  /\ pc = "dispatch" /\ Refusal = "none"
  /\ ~options.fast /\ options.errors
  /\ idx' = 0
  /\ Goto("errors")
  /\ UNCHANGED <<settings, session, index, partition, rep, cntr, from, limit,
                 runs, run_failed, answer, seen, printing>>

TrackError ==
  /\ pc = "errors" /\ idx < Len(lookups)
  /\ LET key == lookups[idx + 1].key IN
       \/ LookupFails(Competitor, index, key) /\ Fail("not found") /\ UNCHANGED idx
       \/ Windows(Competitor, index, key) # {} /\ idx' = idx + 1 /\ Goto("errors")
  /\ UNCHANGED <<settings, session, index, partition, rep, cntr, from, limit,
                 runs, run_failed, answer, seen, printing>>

EndErrors ==
  /\ pc = "errors" /\ idx >= Len(lookups)
  /\ NextCompetitor
  /\ UNCHANGED <<settings, lookups, runNo, index, partition, measuring,
                 printing>>

(* DoEqualityLookups: nothing if only the build is to be measured.  A negative *)
(* number of repeats is a huge size_t, which resize throws at.               *)
StartLookups ==
  /\ pc = "dispatch" /\ Refusal = "none"
  /\ options.fast \/ ~options.errors
  /\ IF options.build
     THEN Goto("print") /\ UNCHANGED <<runs, rep, run_failed>>
     ELSE IF options.repeats < 0
     THEN Goto("crashed") /\ UNCHANGED <<runs, rep, run_failed>>
     ELSE /\ Goto("repeat")
          /\ runs' = [i \in 1 .. options.repeats |->
                        IF i \in DOMAIN runs THEN runs[i] ELSE 0]
          /\ rep' = 0
          /\ run_failed' = FALSE
  /\ UNCHANGED <<settings, session, index, partition, cntr, from, idx, limit,
                 answer, seen, printing>>
-----------------------------------------------------------------------------
(* DoEqualityLookups: repetitions and batches.                              *)

CoreLoop(start, end) ==
  /\ from' = start /\ idx' = start /\ limit' = end
  /\ Goto("loop")

(* With one thread all requests are one batch; otherwise the (single) thread  *)
(* takes batches off the counter.                                           *)
Repeat ==
  /\ pc = "repeat" /\ rep < options.repeats
  /\ seen' = <<>>
  /\ IF options.threads = 1
     THEN CoreLoop(0, Len(lookups)) /\ UNCHANGED cntr
     ELSE cntr' = 0 /\ Goto("batch") /\ UNCHANGED <<from, idx, limit>>
  /\ UNCHANGED <<settings, session, index, partition, rep, runs, run_failed,
                 answer, printing>>

Lesser(a, b) == IF a < b THEN a ELSE b

NextBatch == cntr + BatchSize

BatchEndInclusive == Lesser(cntr + BatchSize - 1, Len(lookups))

BatchEnd == Lesser(cntr + BatchSize, Len(lookups))

Batch ==
  /\ pc = "batch"
  /\ cntr' = NextBatch
  /\ IF cntr >= Len(lookups)
     THEN Goto("timed") /\ UNCHANGED <<from, idx, limit>>
     ELSE CoreLoop(cntr, BatchEnd)
  /\ UNCHANGED <<settings, session, index, partition, rep, runs, run_failed,
                 answer, seen, printing>>

LeaveLoop == Goto(IF options.threads = 1 THEN "timed" ELSE "batch")

EndLoop ==
  /\ pc = "loop" /\ idx >= limit
  /\ LeaveLoop
  /\ UNCHANGED <<settings, session, index, partition, measuring, printing>>

TimedRetrying ==
  /\ pc = "timed"
  /\ runs' = IF run_failed THEN [i \in DOMAIN runs |-> 0]
             ELSE [runs EXCEPT ![rep + 1] = 1]
  /\ rep' = IF run_failed THEN rep ELSE rep + 1
  /\ Goto("repeat")
  /\ UNCHANGED <<settings, session, index, partition, cntr, from, idx, limit,
                 run_failed, answer, seen, printing>>

(* The time of a repetition is 1 here, for "not 0".                         *)
Timed ==
  /\ pc = "timed"
  /\ runs' = IF run_failed THEN [i \in DOMAIN runs |-> 0]
             ELSE [runs EXCEPT ![rep + 1] = 1]
  /\ rep' = rep + 1
  /\ Goto(IF run_failed THEN "print" ELSE "repeat")
  /\ UNCHANGED <<settings, session, index, partition, cntr, from, idx, limit,
                 run_failed, answer, seen, printing>>

EndRepeatsEarly ==
  /\ pc = "repeat" /\ rep + 1 >= options.repeats
  /\ Goto("print")
  /\ UNCHANGED <<settings, session, index, partition, measuring, printing>>

EndRepeats ==
  /\ pc = "repeat" /\ rep >= options.repeats
  /\ Goto("print")
  /\ UNCHANGED <<settings, session, index, partition, measuring, printing>>
-----------------------------------------------------------------------------
(* DoEqualityLookupsCoreLoop: the requests.                                 *)

Request == lookups[idx + 1]

Serving == pc = "loop" /\ idx < limit

Served == idx' = idx + 1 /\ seen' = Append(seen, idx)

IsWriteEngineKept == ~options.cold /\ coins[idx + 1]

(* The engine starts afresh in each call of the core loop.                  *)
IsWrite == ~options.cold /\ coins[idx - from + 1]

WarmRowsInside(key, w) ==
  LET stop == Lesser(w.stop, Size)
      first == At(key, w)!LowerBound(w.start, stop)
  IN  IF first < stop /\ data[first] = key
      THEN {p \in MatchingRows(key) : p >= first} ELSE {}

(* std::lower_bound in the window cut to the data, then the run of the key.   *)
(* (The end of the window becomes an int here: the data has fewer than 2^31    *)
(* rows.)                                                                   *)
WarmRows(key, w) ==
  LET stop == Lesser(w.stop, Size)
      first == At(key, w)!LowerBound(w.start, stop)
  IN  IF first < Size /\ data[first] = key
      THEN {p \in MatchingRows(key) : p >= first} ELSE {}

(* What any of src/searches may return, by the promise of LookupSpec.        *)
PromisedRows(key, w) ==
  IF At(key, w)!Covered THEN {MatchingRows(key)}
  ELSE SUBSET MatchingRows(key)

(* Windows that start beyond the data or, as only the warm path cuts them to  *)
(* it, end there or before they start: the search reads what is not data_.   *)
Stray(w) ==
  w.start > Size \/ (options.cold /\ (w.stop > Size \/ w.stop < w.start))

(* The read behind the last row, of the branchless search (--search            *)
(* branchless_binary), which only the cold path calls.                       *)
BranchlessBehind(key, w) ==
  options.cold /\ options.branchless /\ At(key, w)!ReadsBehind

NotFoundInMap ==
  /\ Serving /\ ~IsWrite
  /\ LookupFails(Competitor, index, Request.key)
  /\ Fail("not found")
  /\ UNCHANGED <<settings, session, index, partition, measuring, printing>>

Answered == {w \in Windows(Competitor, index, Request.key) : ~Stray(w)}

ReadStray ==
  /\ Serving /\ ~IsWrite
  /\ \E w \in Windows(Competitor, index, Request.key) :
       Stray(w) \/ BranchlessBehind(Request.key, w)
  /\ Goto("undefined")
  /\ UNCHANGED <<settings, session, index, partition, measuring, printing>>

Read ==
  /\ Serving /\ ~IsWrite /\ ~options.cold
  /\ \E w \in Answered :
       answer' = [key |-> Request.key, window |-> w,
                  rows |-> WarmRows(Request.key, w)]
  /\ Served
  /\ UNCHANGED <<settings, session, pc, why, index, partition, rep, cntr, from,
                 limit, runs, run_failed, printing>>

CheckFoundOnly(rows, lookup) == rows = {} \/ SumOf(rows) = lookup.result

(* CheckResults compares sums, not rows.                                    *)
CheckResults(rows, lookup) == SumOf(rows) = lookup.result

ColdRead ==
  /\ Serving /\ options.cold
  /\ \E w \in Answered :
       \E rows \in PromisedRows(Request.key, w) :
         /\ answer' = [key |-> Request.key, window |-> w, rows |-> rows]
         /\ IF CheckResults(rows, Request)
            THEN Served /\ UNCHANGED <<pc, why, run_failed>>
            ELSE run_failed' = TRUE /\ LeaveLoop /\ UNCHANGED <<idx, seen>>
  /\ UNCHANGED <<settings, session, index, partition, rep, cntr, from, limit,
                 runs, printing>>

WriteRefused ==
  /\ Serving /\ IsWrite
  /\ CASE insertion_data = <<>> -> Fail("out of data")
       [] insertion_data # <<>> /\ Insertable(Competitor) -> FALSE
       [] insertion_data # <<>> /\ InsertCorrupts(Competitor) ->
            Goto("undefined")
       [] OTHER -> Fail("unsupported")
  /\ UNCHANGED <<settings, session, index, partition, measuring, printing>>

WriteKeeping ==
  /\ Serving /\ IsWrite
  /\ insertion_data # <<>> /\ Insertable(Competitor)
  /\ index' = InsertPair(Competitor, index, Pair(Last(insertion_data)))
  /\ Served
  /\ UNCHANGED <<settings, session, pc, why, partition, rep, cntr, from, limit,
                 runs, run_failed, answer, printing>>

Write ==
  /\ Serving /\ IsWrite
  /\ insertion_data # <<>> /\ Insertable(Competitor)
  /\ index' = InsertPair(Competitor, index, Pair(Last(insertion_data)))
  /\ insertion_data' = Front(insertion_data)
  /\ Served
  /\ UNCHANGED <<settings, session, pc, why, index_data, ids, before, drawn,
                 rep, cntr, from, limit, runs, run_failed, answer, printing>>
-----------------------------------------------------------------------------
(* PrintResult, or the destructor of PerfEventBlock, and the end of Run.      *)

Line(kind) == [run |-> runNo, kind |-> kind]

PerfLines ==
  (IF first_run THEN <<Line("header")>> ELSE <<>>) \o <<Line("result")>>

(* Only what is printed last goes to the CSV as well; a failed run has no    *)
(* line in either.                                                          *)
ResultLines ==
  IF options.errors \/ options.build \/ options.cold THEN <<Line("result")>>
  ELSE (IF runs[1] # 0 THEN <<Line("result")>> ELSE <<Line("error")>>)
       \o (IF options.csv /\ runs[1] # 0 THEN <<Line("csv")>> ELSE <<>>)

ReadsTimes == ~ (options.perf \/ options.errors \/ options.build \/ options.cold)

PrintResult ==
  /\ pc = "print" /\ ~ (ReadsTimes /\ runs = <<>>)
  /\ output' = output \o (IF options.perf THEN PerfLines ELSE ResultLines)
  /\ first_run' = FALSE
  /\ NextCompetitor
  /\ UNCHANGED <<settings, lookups, runNo, index, partition, measuring>>

(* runs_[0] of an empty vector.                                             *)
PrintNothing ==
  /\ pc = "print" /\ ReadsTimes /\ runs = <<>>
  /\ Goto("undefined")
  /\ UNCHANGED <<settings, session, index, partition, measuring, printing>>

Exit ==
  /\ pc = "next" /\ schedule = <<>>
  /\ Goto("exit")
  /\ UNCHANGED <<settings, session, index, partition, measuring, printing>>

Over == pc \in {"exit", "failed", "crashed", "undefined"}

Terminated == Over /\ UNCHANGED vars

Step ==
  \/ ParseOptions \/ Construct
  \/ NotApplicable \/ Begin \/ PutAside \/ Build
  \/ Refuse \/ StartErrors \/ TrackError \/ EndErrors
  \/ StartLookups \/ Repeat \/ Batch \/ EndLoop \/ Timed \/ EndRepeats
  \/ NotFoundInMap \/ ReadStray \/ Read \/ ColdRead \/ WriteRefused \/ Write
  \/ PrintResult \/ PrintNothing \/ Exit

Next == Step \/ Terminated

(* One thread runs the program; it does not stop between two steps.          *)
Spec == Init /\ [][Next]_vars /\ WF_vars(Step)
-----------------------------------------------------------------------------
(***************************************************************************)
(* In each repetition every request is processed, once and in order, whether *)
(* it comes in one batch or in many.                                        *)
(***************************************************************************)
RequestsOnce ==
  pc = "timed" /\ ~run_failed => seen = [i \in 1 .. Len(lookups) |-> i - 1]

(***************************************************************************)
(* A benchmark that only reads gets every answer exactly right, with every    *)
(* competitor and search (but for duplicate keys in the cuckoo map, and for  *)
(* Wormhole asked for key 0 or left with one key) ...                        *)
(***************************************************************************)
Measuring == pc \in {"loop", "batch", "timed"} /\ answer # NoAnswer

ReadOnlyExact ==
  Measuring /\ write_portion = 0
    /\ (Competitor.kind = "Wormhole" =>
          answer.key > 0 /\ Len(index.entries) >= 2)
    /\ (Competitor.kind = "CuckooMap" => Unique) =>
      answer.rows = MatchingRows(answer.key)

(***************************************************************************)
(* ... and one that also writes does where each row has an entry of its own   *)
(* and no two rows share a key: the lookups cannot tell which of the entries  *)
(* that were put aside have been inserted so far.                           *)
(***************************************************************************)
AllRowsKept == Competitor.scale = 1 /\ Insertable(Competitor)

ReadWriteExact ==
  Measuring /\ AllRowsKept /\ Unique /\ write_portion < Percent =>
    answer.rows = MatchingRows(answer.key)

(***************************************************************************)
(* While requests are served an entry is in the index or waits to be          *)
(* inserted, never both; in the first Run it is in one of the two.           *)
(***************************************************************************)
Held == {index.entries[i].val : i \in DOMAIN index.entries}

EntriesConserved ==
  pc = "loop" /\ AllRowsKept /\ Unique =>
    /\ Held \cap ToSet(insertion_data) = {}
    /\ Cardinality(Held) = Len(index.entries)
    /\ runNo = 1 => Held \cup ToSet(insertion_data) = DOMAIN data

(***************************************************************************)
(* "We need to ensure we don't have a conflict with the lookup keys" holds    *)
(* for as long as the data set aside lives, later Runs included.             *)
(***************************************************************************)
NoConflict ==
  pc \in {"build", "dispatch", "loop", "batch", "repeat", "timed", "next"}
    /\ write_portion < Percent =>
      \A i \in DOMAIN insertion_data : \A j \in DOMAIN lookups :
        data[insertion_data[i]] # lookups[j].key

(***************************************************************************)
(* Whether the first Run has enough put aside can be told before it starts:   *)
(* the draws of one batch repeat in every batch and repetition.              *)
(***************************************************************************)
WritesIn(n) == Cardinality({i \in 1 .. n : coins[i]})

WritesPerRepetition ==
  LET n == Len(lookups) IN
  IF options.threads = 1 THEN WritesIn(n)
  ELSE (n \div BatchSize) * WritesIn(Lesser(BatchSize, MaxLookups))
       + WritesIn(n % BatchSize)

Demand == options.repeats * WritesPerRepetition

RunsOutAsForetold ==
  runNo = 1 /\ write_portion > 0 /\ ~options.cold =>
    /\ why = "out of data" => Demand > Part!Target
    /\ pc = "print" /\ ~options.build => Demand <= Part!Target

(***************************************************************************)
(* The cold run, the only one to check its answers, checks sums.  All that    *)
(* it can let pass is row 0 missing, whose value is 0.                      *)
(***************************************************************************)
CheckSeesAllButRow0 ==
  options.cold /\ ~run_failed /\ answer # NoAnswer =>
    MatchingRows(answer.key) \ answer.rows \subseteq {0}

(***************************************************************************)
(* The portion asked for decides what is put aside: a number that fits into   *)
(* 16 bits is a share of the requests, rounded down, or it is more than all   *)
(* of them and no index is built.  (Other numbers are taken for what is left   *)
(* of them.)                                                                *)
(***************************************************************************)
AsideAsAsked ==
  pc = "build" /\ runNo = 1 /\ options.write \in 0 .. PortionRange - 1 =>
    /\ options.write <= Percent
    /\ Len(insertion_data) >= (Len(lookups) * options.write) \div Percent
    /\ options.write = 0 => insertion_data = <<>>

(***************************************************************************)
(* The behaviour of the program is undefined only where it times nothing      *)
(* (--repeats 0), writes to ART, or asks a competitor for what it does not     *)
(* have: Wormhole for a key without predecessor or with one key stored, the   *)
(* interpolation B-tree for a key behind its last, the cuckoo map for the key  *)
(* of its empty slots, any for a key while all entries are put aside.  Nor     *)
(* can a later Run put anything aside then.  And Wormhole and FST end windows *)
(* at the number of pairs they were built with, which may be in front of a    *)
(* row they start at if entries are put aside: then no warm read goes astray, *)
(* but the searches of the cold run do.  The branchless search, there, also    *)
(* reads past the end for the last key or a larger one, or if sent to the last *)
(* row.                                                                     *)
(***************************************************************************)
Reversed ==
  options.cold /\ \E i \in DOMAIN index.entries : index.entries[i].val > index.size

Lacks ==
  CASE Competitor.kind = "Wormhole" ->
         Request.key = 0 \/ Len(index.entries) < 2 \/ Reversed
    [] Competitor.kind = "FST" -> index.entries = <<>> \/ Reversed
    [] Competitor.kind = "IBTree" ->
         \A i \in DOMAIN index.entries : index.entries[i].key < Request.key
    [] Competitor.kind = "CuckooMap" ->
         Request.key = Sentinel /\ ~Stored(index, Sentinel)
    [] OTHER -> index.size = 0

SentToTheEnd ==
  /\ options.cold /\ options.branchless
  /\ \/ data[Size - 1] <= Request.key
     \/ \E w \in Windows(Competitor, index, Request.key) : w.start >= Size - 1

UndefinedOnlyThere ==
  pc = "undefined" =>
    \/ runs = <<>> /\ options.repeats = 0
    \/ runNo > 1 /\ index_data = <<>>
    \/ /\ idx < limit
       /\ IF IsWrite THEN Competitor.kind = "ART" ELSE Lacks \/ SentToTheEnd

(***************************************************************************)
(* Unless the data set lacks entries to put aside, the program ends.  A Build *)
(* and a search of the cold path are one step here: that insertions into the  *)
(* cuckoo map end is a property of its own module, and only with strong       *)
(* fairness of the evictions; what interpolation search does, of its own.     *)
(***************************************************************************)
Ends == [](pc = "gather" => Part!Enough) => <>Over
-----------------------------------------------------------------------------
(***************************************************************************)
(* All in all, what happens to an index is the simple session of IndexSession: *)
(* whatever the flags and threads, however the requests are cut into batches   *)
(* and the rows kept in the index, put aside and inserted, it serves all the   *)
(* requests in order, in each repetition, as the set of its rows would.       *)
(***************************************************************************)
InService == pc \in {"repeat", "batch", "loop", "timed"}

(* Wormhole's two gaps, and the keys the cuckoo map cannot keep apart.        *)
Answerable(key) ==
  /\ Competitor.kind = "Wormhole" => key > 0 /\ Len(index.entries) >= 2
  /\ Competitor.kind = "CuckooMap" => Unique

KeptApart == AllRowsKept /\ Unique /\ write_portion < Percent

Certain ==
  IF InService
  THEN {key \in Keys : KeptApart \/ (write_portion = 0 /\ Answerable(key))} ELSE {}

Findable ==
  IF ~InService THEN {} ELSE IF write_portion = 0 THEN DOMAIN data ELSE Held

Phase ==
  IF Over THEN "over"
  ELSE IF ~InService THEN "idle" ELSE IF run_failed THEN "spoilt" ELSE "serving"

AskedFor == [i \in DOMAIN lookups |-> lookups[i].key]
Withheld == ToSet(insertion_data)
Rounds == IF InService THEN rep ELSE 0
Progress == IF InService /\ pc # "repeat" /\ ~run_failed THEN Len(seen) ELSE 0
Given == [key |-> answer.key, rows |-> answer.rows]

Session == INSTANCE IndexSession WITH
  rowKey <- data, asked <- AskedFor, repeats <- options.repeats,
  phase <- Phase, begun <- runNo, aside <- Withheld, stored <- Findable,
  sure <- Certain, times <- Rounds, done <- Progress, answer <- Given

ServesAsPromised == Session!Spec
=============================================================================
