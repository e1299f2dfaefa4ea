--------------------------- MODULE BenchmarkProofs ---------------------------
(***************************************************************************)
(* What the program keeps from one step to the next, for every dataset, every *)
(* command line, every schedule and every batch size.  The write partition's   *)
(* own proof is carried over: within a Run its invariant is used as it is.     *)
(*                                                                          *)
(* The invariant comes in parts, each kept by every step given those before it *)
(* (Typed; InTurn; Portioned, Apart and FirstRun together; Compared; Prepared;  *)
(* Stays; Indexed; Complete; Precise; Within; Repeated; Tossed, Batched and      *)
(* Accounted; InRound), and each theorem takes those it needs.  The last one is  *)
(* the refinement of IndexSession.                                          *)
(***************************************************************************)
EXTENDS Benchmark, Foundations

(* The lookups file holds true answers for keys of KeyType.                  *)
Asked == {[key |-> k, result |-> Expected(data, k)] : k \in Keys}

Typed ==
  /\ \E m \in 1 .. MaxRows : data \in [0 .. m - 1 -> Keys]
  /\ lookups \in Seq(Asked) /\ Len(lookups) <= MaxLookups
  /\ options.write = Absent \/ options.write \in Int
  /\ write_portion \in Nat
  /\ idx \in Nat /\ limit \in Nat /\ cntr \in Nat /\ runNo \in Nat

(* The requests processed so far are the first ones, in order.               *)
FirstOnes(k) == [i \in 1 .. k |-> i - 1]

InTurn ==
  ~run_failed =>
    /\ pc = "loop" =>
         /\ seen = FirstOnes(idx) /\ idx <= limit
         /\ limit = IF options.threads = 1 THEN Len(lookups)
                    ELSE Lesser(cntr, Len(lookups))
    /\ pc = "batch" =>
         seen = FirstOnes(Lesser(cntr, Len(lookups))) /\ options.threads # 1
    /\ pc = "timed" => seen = FirstOnes(Len(lookups))

(* The portion is checked before anything is put aside.                      *)
Partitioning == pc \in {"gather", "extract", "sort"}

Portioned ==
  /\ pc = "main" => runNo = 0
  /\ pc # "main" /\ options.write \in 0 .. PortionRange - 1 =>
       write_portion = options.write
  /\ pc \notin {"main", "construct", "failed"} => write_portion <= Percent
  /\ write_portion = 0 => insertion_data = <<>> /\ ~Partitioning

(* Between two Runs the entries stay apart, none of them a key to look up      *)
(* once put aside; within the partition its own invariant says the rest.      *)
Theory == INSTANCE PartitionProofs WITH
            lookupKeys <- {lookups[i].key : i \in DOMAIN lookups},
            numLookups <- Len(lookups)

Apart ==
  /\ index_data \in Seq(DOMAIN data) /\ insertion_data \in Seq(DOMAIN data)
  /\ before \in Seq(DOMAIN data) /\ drawn \subseteq DOMAIN before
  /\ Theory!Distinct
  /\ ~ Partitioning => ids = {}
  /\ Partitioning => Theory!IInv
  /\ write_portion < Percent =>
       \A i \in DOMAIN insertion_data : \A j \in DOMAIN lookups :
         data[insertion_data[i]] # lookups[j].key

(* The first Run starts from the whole of the data and draws exactly as many   *)
(* as the target says.                                                      *)
FirstRun ==
  /\ runNo = 0 => pc \in {"main", "construct", "next", "exit", "failed"}
  /\ runNo = 0 \/ (runNo = 1 /\ pc = "gather") =>
       insertion_data = <<>> /\ ToSet(index_data) = DOMAIN data
  /\ runNo = 1 /\ pc = "gather" => Cardinality(ids) <= Part!Target
  /\ runNo = 1 /\ pc \in {"extract", "sort"} =>
       /\ ToSet(before) = DOMAIN data
       /\ Len(insertion_data) + Cardinality(ids) = Part!Target
  /\ runNo = 1 /\ pc = "build" /\ write_portion # 0 =>
       Len(insertion_data) = Part!Target
  /\ runNo = 1 /\ pc \in {"build", "dispatch"} =>
       ToSet(index_data) \cup ToSet(insertion_data) = DOMAIN data

(* The rows of the keys that will be looked up stay in index_data_, which is   *)
(* in the order of the keys when the index is built.                         *)
Wanted == {p \in DOMAIN data : \E j \in DOMAIN lookups : data[p] = lookups[j].key}

Stays ==
  /\ write_portion < Percent =>
       /\ pc \notin {"extract", "sort", "crashed"} => Wanted \subseteq ToSet(index_data)
       /\ pc \in {"extract", "sort"} => Wanted \subseteq ToSet(before)
  /\ pc = "build" =>
       \A i, j \in DOMAIN index_data :
         i <= j => data[index_data[i]] <= data[index_data[j]]

(* A request is served from a built index.                                   *)
Serviced == pc \in {"dispatch", "errors", "repeat", "batch", "loop", "timed"}

Entry == [key : Keys, val : DOMAIN data]

Indexed ==
  Serviced /\ AllRowsKept /\ Unique =>
    /\ index.entries \in Seq(Entry)
    /\ \A i \in DOMAIN index.entries : index.entries[i].key = data[index.entries[i].val]
    /\ \A i, j \in DOMAIN index.entries :
         index.entries[i].val = index.entries[j].val => i = j
    /\ Held \cap ToSet(insertion_data) = {}
    /\ runNo = 1 => Held \cup ToSet(insertion_data) = DOMAIN data
    /\ \A i, j \in DOMAIN index.entries :
         i <= j => index.entries[i].key <= index.entries[j].key
    /\ write_portion < Percent => Wanted \subseteq Held

(* The cold run leaves no answer behind whose sum is not the expected one.    *)
Compared ==
  /\ Partitioning \/ pc \in {"build", "dispatch"} => answer = NoAnswer
  /\ answer # NoAnswer /\ options.cold /\ ~run_failed =>
       /\ answer.key \in Keys /\ answer.rows \subseteq MatchingRows(answer.key)
       /\ SumOf(answer.rows) = Expected(data, answer.key)
-----------------------------------------------------------------------------
USE BenchmarkAssumption

LEMMA InitTyped == Init => Typed
<1> SUFFICES ASSUME Init PROVE Typed
  OBVIOUS
<1>1. PICK call \in Calls :
        /\ data = [p \in 0 .. Len(call.data) - 1 |-> call.data[p + 1]]
        /\ lookups = [i \in DOMAIN call.lookups |->
                        [key |-> call.lookups[i],
                         result |-> Expected(data, call.lookups[i])]]
        /\ options = call.options
  BY DEF Init
<1>2. Len(call.data) \in 1 .. MaxRows /\ data \in [0 .. Len(call.data) - 1 -> Keys]
  <2>1. /\ call.data \in Seq(Keys) \ {<<>>}
        /\ Len(call.data) <= MaxRows
    BY DEF Keys
  <2>2. Len(call.data) \in Nat /\ Len(call.data) # 0
    BY <2>1
  <2>3. \A p \in 0 .. Len(call.data) - 1 : call.data[p + 1] \in Keys
    BY <2>1, <2>2
  <2> QED
    BY <1>1, <2>1, <2>2, <2>3
<1>3. lookups \in Seq(Asked) /\ Len(lookups) <= MaxLookups
  <2>1. /\ call.lookups \in Seq(Keys)
        /\ Len(call.lookups) <= MaxLookups
    BY DEF Keys
  <2>2. /\ Len(call.lookups) \in Nat /\ DOMAIN call.lookups = 1 .. Len(call.lookups)
        /\ \A i \in 1 .. Len(call.lookups) : call.lookups[i] \in Keys
    BY <2>1
  <2>3. \A i \in 1 .. Len(call.lookups) : lookups[i] \in Asked
    BY <1>1, <2>2 DEF Asked
  <2>4. lookups \in [1 .. Len(call.lookups) -> Asked]
    BY <1>1, <2>2, <2>3
  <2>5. ASSUME NEW m \in Nat, NEW f \in [1 .. m -> Asked]
        PROVE  f \in Seq(Asked) /\ Len(f) = m
    OBVIOUS
  <2> QED
    BY <2>1, <2>2, <2>4, <2>5
<1>4. options.write = Absent \/ options.write \in Int
  BY <1>1
<1>5. /\ write_portion \in Nat
      /\ idx \in Nat /\ limit \in Nat /\ cntr \in Nat /\ runNo \in Nat
  BY DEF Init
<1> QED
  BY <1>2, <1>3, <1>4, <1>5 DEF Typed

(* data_ and the command line never change, lookups_ only loses requests.     *)
LEMMA LookupsShrink ==
  ASSUME Typed, Begin
  PROVE  /\ lookups' \in Seq(Asked) /\ Len(lookups') \in 0 .. Len(lookups)
         /\ \A i \in DOMAIN lookups' : \E j \in DOMAIN lookups : lookups'[i] = lookups[j]
<1> DEFINE P == {i \in DOMAIN lookups : lookups[i].key \notin Forbidden}
<1>1. lookups \in Seq(Asked)
  BY DEF Typed
<1>2. CASE lookups' = lookups
  BY <1>1, <1>2
<1>3. CASE lookups' = PairsAt(lookups, P)
  <2>1. P \subseteq DOMAIN lookups
    OBVIOUS
  <2> HIDE DEF P
  <2>2. /\ lookups' \in Seq(Asked) /\ Len(lookups') \in 0 .. Len(lookups)
        /\ Len(lookups') = Cardinality(P)
        /\ \A k \in 1 .. Cardinality(P) : \E i \in P : lookups'[k] = lookups[i]
    BY <1>1, <1>3, <2>1, KeptPairs
  <2>3. DOMAIN lookups' = 1 .. Cardinality(P)
    BY <2>2
  <2> QED
    BY <2>1, <2>2, <2>3
<1> QED
  BY <1>2, <1>3 DEF Begin

(* The actions that only move the program counter, or measure.               *)
Idle ==
  UNCHANGED <<data, options, lookups, write_portion, runNo, partition>>

LEMMA IdleSteps ==
  ASSUME \/ Construct \/ NotApplicable \/ Build \/ Refuse \/ StartErrors \/ TrackError
         \/ EndErrors \/ StartLookups \/ Repeat \/ Batch \/ EndLoop \/ Timed
         \/ EndRepeats \/ NotFoundInMap \/ ReadStray \/ Read \/ ColdRead
         \/ WriteRefused \/ PrintResult \/ PrintNothing \/ Exit \/ UNCHANGED vars
  PROVE  Idle
<1>1. ASSUME Construct \/ NotApplicable \/ Build \/ Refuse PROVE Idle
  BY <1>1 DEF Construct, NotApplicable, Build, Refuse, Idle, settings, session
<1>2. ASSUME StartErrors \/ TrackError \/ EndErrors PROVE Idle
  BY <1>2 DEF StartErrors, TrackError, EndErrors, Idle, settings, session
<1>3. ASSUME StartLookups \/ Repeat \/ Batch \/ EndLoop PROVE Idle
  BY <1>3 DEF StartLookups, Repeat, Batch, EndLoop, Idle, settings, session
<1>4. ASSUME Timed \/ EndRepeats \/ NotFoundInMap \/ ReadStray PROVE Idle
  BY <1>4 DEF Timed, EndRepeats, NotFoundInMap, ReadStray, Idle, settings, session
<1>5. ASSUME Read \/ ColdRead \/ WriteRefused PROVE Idle
  BY <1>5 DEF Read, ColdRead, WriteRefused, Idle, settings, session
<1>6. ASSUME PrintResult \/ PrintNothing \/ Exit \/ UNCHANGED vars PROVE Idle
  BY <1>6 DEF PrintResult, PrintNothing, Exit, vars, Idle, settings, session
<1> QED
  BY <1>1, <1>2, <1>3, <1>4, <1>5, <1>6

LEMMA OtherSteps ==
  ASSUME [Next]_vars
  PROVE  Idle \/ ParseOptions \/ Begin \/ PutAside \/ Write
BY IdleSteps DEF Next, Step, Terminated

LEMMA SameInputs ==
  ASSUME [Next]_vars
  PROVE  UNCHANGED <<data, options>>
BY OtherSteps DEF Idle, ParseOptions, Begin, PutAside, Write, settings

LEMMA TypedStep ==
  ASSUME Typed, [Next]_vars
  PROVE  Typed'
<1>1. /\ data' = data /\ options' = options /\ Asked' = Asked
      /\ (\E m \in 1 .. MaxRows : data \in [0 .. m - 1 -> Keys])'
      /\ (options.write = Absent \/ options.write \in Int)'
  BY SameInputs DEF Typed, Asked
<1>2. lookups' \in Seq(Asked) /\ Len(lookups') <= MaxLookups
  <2>1. CASE UNCHANGED lookups
    BY <2>1 DEF Typed
  <2>2. CASE Begin
    <3>1. lookups \in Seq(Asked) /\ Len(lookups) <= MaxLookups
      BY DEF Typed
    <3> QED
      BY <2>2, <3>1, LookupsShrink
  <2> QED
    BY <2>1, <2>2, OtherSteps DEF Idle, ParseOptions, PutAside, Write, session
<1>3. write_portion' \in Nat /\ runNo' \in Nat
  <2>1. write_portion \in Nat /\ runNo \in Nat
    BY DEF Typed
  <2>2. CASE ParseOptions
    <3>1. write_portion' \in PortionOf(options.write) /\ runNo' = runNo
      BY <2>2 DEF ParseOptions, session
    <3>2. CASE options.write = Absent
      BY <2>1, <3>1, <3>2 DEF PortionOf
    <3>3. CASE options.write # Absent
      <4>1. options.write % PortionRange \in Nat
        BY <3>3 DEF Typed
      <4> QED
        BY <2>1, <3>1, <3>3, <4>1 DEF PortionOf
    <3> QED
      BY <3>2, <3>3
  <2>3. CASE Begin
    BY <2>1, <2>3 DEF Begin, settings
  <2> QED
    BY <2>1, <2>2, <2>3, OtherSteps DEF Idle, PutAside, Write, settings, session
<1>4. idx' \in Nat /\ limit' \in Nat /\ cntr' \in Nat
  <2>1. idx \in Nat /\ limit \in Nat /\ cntr \in Nat /\ Len(lookups) \in Nat
    BY DEF Typed
  <2>2. CASE UNCHANGED <<idx, limit, cntr>>
    BY <2>1, <2>2
  <2>3. CASE StartErrors \/ TrackError
    <3>1. idx' \in {0, idx, idx + 1} /\ UNCHANGED <<limit, cntr>>
      BY <2>3 DEF StartErrors, TrackError
    <3> QED
      BY <2>1, <3>1
  <2>4. CASE Repeat
    BY <2>1, <2>4 DEF Repeat, CoreLoop
  <2>5. CASE Batch
    BY <2>1, <2>5 DEF Batch, CoreLoop, NextBatch, BatchEnd, Lesser
  <2>6. CASE Read \/ ColdRead \/ Write
    BY <2>1, <2>6 DEF Read, ColdRead, Write, Served
  <2>7. ASSUME \/ ParseOptions \/ Construct \/ NotApplicable \/ Begin \/ PutAside
               \/ Build \/ Refuse \/ EndErrors \/ StartLookups \/ EndLoop
        PROVE  UNCHANGED <<idx, limit, cntr>>
    BY <2>7 DEF ParseOptions, Construct, NotApplicable, Begin, PutAside, Build,
                Refuse, EndErrors, StartLookups, EndLoop, measuring
  <2>8. ASSUME \/ Timed \/ EndRepeats \/ NotFoundInMap \/ ReadStray \/ WriteRefused
               \/ PrintResult \/ PrintNothing \/ Exit \/ UNCHANGED vars
        PROVE  UNCHANGED <<idx, limit, cntr>>
    BY <2>8 DEF Timed, EndRepeats, NotFoundInMap, ReadStray, WriteRefused,
                PrintResult, PrintNothing, Exit, vars, measuring
  <2> QED
    BY <2>2, <2>3, <2>4, <2>5, <2>6, <2>7, <2>8 DEF Next, Step, Terminated
<1> QED
  BY <1>1, <1>2, <1>3, <1>4 DEF Typed
-----------------------------------------------------------------------------
(* Requests in turn.                                                        *)
LEMMA InTurnStep ==
  ASSUME Typed, InTurn, [Next]_vars
  PROVE  InTurn'
<1> SUFFICES ASSUME ~run_failed'
             PROVE  InTurn'
  BY DEF InTurn
<1>1. /\ idx \in Nat /\ limit \in Nat /\ cntr \in Nat /\ Len(lookups) \in Nat
      /\ options' = options
  BY SameInputs DEF Typed
<1> DEFINE n == Len(lookups)
<1>2. CASE ~ (pc' \in {"loop", "batch", "timed"})
  BY <1>2 DEF InTurn
<1>3. CASE UNCHANGED vars
  BY <1>3 DEF InTurn, vars, settings, session, measuring
<1>4. CASE Repeat
  <2>1. seen' = <<>> /\ lookups' = lookups /\ run_failed' = run_failed
    BY <1>4 DEF Repeat, session
  <2>2. FirstOnes(0) = <<>>
    BY DEF FirstOnes
  <2>3. CASE options.threads = 1
    <3>1. pc' = "loop" /\ idx' = 0 /\ limit' = n
      BY <1>4, <2>3 DEF Repeat, CoreLoop, Goto
    <3> QED
      BY <1>1, <2>1, <2>2, <2>3, <3>1 DEF InTurn
  <2>4. CASE options.threads # 1
    <3>1. pc' = "batch" /\ cntr' = 0
      BY <1>4, <2>4 DEF Repeat, Goto
    <3>2. Lesser(0, n) = 0
      BY <1>1 DEF Lesser
    <3> QED
      BY <1>1, <2>1, <2>2, <2>4, <3>1, <3>2 DEF InTurn
  <2> QED
    BY <2>3, <2>4
<1>5. CASE Batch
  <2>1. /\ pc = "batch" /\ seen' = seen /\ lookups' = lookups /\ run_failed' = run_failed
        /\ cntr' = cntr + BatchSize
    BY <1>5 DEF Batch, NextBatch, session
  <2>2. seen = FirstOnes(Lesser(cntr, n)) /\ options.threads # 1
    BY <2>1 DEF InTurn
  <2>3. CASE cntr >= n
    <3>1. pc' = "timed"
      BY <1>5, <2>3 DEF Batch, Goto
    <3>2. Lesser(cntr, n) = n
      BY <1>1, <2>3 DEF Lesser
    <3> QED
      BY <2>1, <2>2, <3>1, <3>2 DEF InTurn
  <2>4. CASE ~ (cntr >= n)
    <3>1. pc' = "loop" /\ idx' = cntr /\ limit' = Lesser(cntr + BatchSize, n)
      BY <1>5, <2>4 DEF Batch, CoreLoop, BatchEnd, Goto
    <3>2. Lesser(cntr, n) = cntr /\ cntr <= Lesser(cntr + BatchSize, n)
      BY <1>1, <2>4 DEF Lesser
    <3> QED
      BY <1>1, <2>1, <2>2, <3>1, <3>2 DEF InTurn
  <2> QED
    BY <2>3, <2>4
<1>6. CASE EndLoop
  <2>1. /\ pc = "loop" /\ idx >= limit
        /\ seen' = seen /\ lookups' = lookups /\ run_failed' = run_failed /\ cntr' = cntr
        /\ pc' = IF options.threads = 1 THEN "timed" ELSE "batch"
    BY <1>6 DEF EndLoop, LeaveLoop, Goto, measuring, session
  <2>2. /\ seen = FirstOnes(idx) /\ idx = limit
        /\ limit = IF options.threads = 1 THEN n ELSE Lesser(cntr, n)
    BY <1>1, <2>1 DEF InTurn
  <2> QED
    BY <1>1, <2>1, <2>2 DEF InTurn
<1>7. CASE Read \/ ColdRead \/ Write
  <2>1. /\ pc = "loop" /\ idx < limit
        /\ UNCHANGED <<lookups, limit, cntr>>
    BY <1>7 DEF Read, ColdRead, Write, Serving, session
  <2>2. pc' = "loop" /\ idx' = idx + 1 /\ seen' = Append(seen, idx) /\ ~run_failed
    BY <1>7 DEF Read, ColdRead, Write, Serving, Served
  <2>3. /\ seen = FirstOnes(idx)
        /\ limit = IF options.threads = 1 THEN n ELSE Lesser(cntr, n)
    BY <2>1, <2>2 DEF InTurn
  <2>4. Append(FirstOnes(idx), idx) = FirstOnes(idx + 1)
    BY <1>1 DEF FirstOnes
  <2> QED
    BY <1>1, <2>1, <2>2, <2>3, <2>4 DEF InTurn
<1>8. ASSUME \/ ParseOptions \/ Construct \/ NotApplicable \/ Begin \/ Build \/ Refuse
             \/ StartErrors \/ TrackError \/ EndErrors \/ StartLookups
      PROVE  ~ (pc' \in {"loop", "batch", "timed"})
  BY <1>8 DEF ParseOptions, Construct, NotApplicable, Begin, Build, Refuse,
              StartErrors, TrackError, EndErrors, StartLookups, NextCompetitor,
              Goto, Fail
<1>9. ASSUME \/ Timed \/ EndRepeats \/ NotFoundInMap \/ ReadStray \/ WriteRefused
             \/ PrintResult \/ PrintNothing \/ Exit
      PROVE  ~ (pc' \in {"loop", "batch", "timed"})
  BY <1>9 DEF Timed, EndRepeats, NotFoundInMap, ReadStray, WriteRefused, PrintResult,
              PrintNothing, Exit, NextCompetitor, Goto, Fail
<1>10. ASSUME PutAside
       PROVE  ~ (pc' \in {"loop", "batch", "timed"})
  BY <1>10 DEF PutAside, Part!Step, Part!Draw, Part!EndGather, Part!Extract,
               Part!EndExtract, Part!Sort
<1> QED
  BY <1>2, <1>3, <1>4, <1>5, <1>6, <1>7, <1>8, <1>9, <1>10 DEF Next, Step, Terminated

(***************************************************************************)
(* In each repetition DoEqualityLookups processes every request, once and in *)
(* order, for any number of requests and any batch size: the batches taken    *)
(* off the counter neither overlap nor leave one out.                        *)
(***************************************************************************)
THEOREM OnceAndInOrder == Spec => []RequestsOnce
<1>1. Init => Typed /\ InTurn
  BY InitTyped DEF Init, InTurn
<1>2. Typed /\ InTurn /\ [Next]_vars => Typed' /\ InTurn'
  BY TypedStep, InTurnStep
<1>3. InTurn => RequestsOnce
  BY DEF InTurn, RequestsOnce, FirstOnes
<1> QED
  BY <1>1, <1>2, <1>3, PTL DEF Spec
-----------------------------------------------------------------------------
(* What is put aside.                                                       *)
LEMMA InitApart == Init => Portioned /\ Apart /\ FirstRun
<1> SUFFICES ASSUME Init PROVE Portioned /\ Apart /\ FirstRun
  OBVIOUS
<1>1. PICK m \in 1 .. MaxRows : data \in [0 .. m - 1 -> Keys]
  BY InitTyped DEF Typed
<1>2. Size = m
  <2>1. DOMAIN data = 0 .. m - 1 /\ m \in Nat
    BY <1>1
  <2>2. Cardinality(0 .. m - 1) = m
    BY <2>1, FS_Interval
  <2> QED
    BY <2>1, <2>2 DEF Size
<1>3. index_data = [i \in 1 .. m |-> i - 1] /\ insertion_data = <<>> /\ ids = {}
      /\ before = <<>> /\ drawn = {} /\ pc = "main" /\ runNo = 0
  BY <1>2 DEF Init
<1>4. index_data \in Seq(DOMAIN data) /\ ToSet(index_data) = DOMAIN data
  <2>1. m \in Nat /\ \A i \in 1 .. m : i - 1 \in 0 .. m - 1
    OBVIOUS
  <2>2. index_data \in [1 .. m -> DOMAIN data]
    BY <1>1, <1>3, <2>1
  <2>3. \A p \in 0 .. m - 1 : p + 1 \in 1 .. m /\ index_data[p + 1] = p
    BY <1>3
  <2>4. index_data \in Seq(DOMAIN data)
    BY <2>1, <2>2
  <2>5. ToSet(index_data) = DOMAIN data
    BY <1>1, <2>2, <2>3 DEF ToSet
  <2> QED
    BY <2>4, <2>5
<1>5. Theory!Distinct
  BY <1>3 DEF Theory!Distinct, Theory!NoRepeats, Theory!ToSet
<1>6. Apart
  BY <1>3, <1>4, <1>5 DEF Apart, Partitioning
<1> QED
  BY <1>3, <1>4, <1>6 DEF Portioned, FirstRun, Partitioning

(* Within a Run the partition's own invariant is kept.                       *)
LEMMA PartitionStep ==
  ASSUME Typed, Apart, PutAside
  PROVE  Theory!IInv /\ Theory!IInv' /\ Theory!Step
<1>1. /\ UNCHANGED <<data, lookups, write_portion>> /\ Part!Step
  BY DEF PutAside, settings, session
<1>2. Partitioning
  BY <1>1 DEF Partitioning, Part!Step, Part!Draw, Part!EndGather, Part!Extract,
              Part!EndExtract, Part!Sort
<1>3. Theory!IInv
  BY <1>2 DEF Apart
<1>4. Theory!Step
  <2>1. /\ Part!Target = Theory!Target /\ Part!Cardinality(ids) = Theory!Cardinality(ids)
        /\ \A id : Part!MayDraw(id) <=> Theory!MayDraw(id)
        /\ \A id : Part!LargestLeft(id) <=> Theory!LargestLeft(id)
    BY DEF Part!Target, Theory!Target, Part!Cardinality, Theory!Cardinality,
           Part!MayDraw, Theory!MayDraw, Part!LargestLeft, Theory!LargestLeft
  <2>2. CASE Part!Draw
    BY <2>1, <2>2 DEF Part!Draw, Theory!Draw, Theory!Step
  <2>3. CASE Part!EndGather
    BY <2>1, <2>3 DEF Part!EndGather, Theory!EndGather, Theory!Step
  <2>4. CASE Part!Extract
    BY <2>1, <2>4 DEF Part!Extract, Theory!Extract, Theory!Step
  <2>5. CASE Part!EndExtract
    BY <2>5 DEF Part!EndExtract, Theory!EndExtract, Theory!Step
  <2>6. CASE Part!Sort
    <3>1. Part!SortedForms(index_data) = Theory!SortedForms(index_data)
      BY DEF Part!SortedForms, Theory!SortedForms, Part!NoRepeats, Theory!NoRepeats,
             Part!SortedByKey, Theory!SortedByKey, Part!ToSet, Theory!ToSet
    <3> QED
      BY <2>6, <3>1 DEF Part!Sort, Theory!Sort, Theory!Step
  <2> QED
    BY <1>1, <2>2, <2>3, <2>4, <2>5, <2>6 DEF Part!Step
<1>5. UNCHANGED Theory!inputs
  BY <1>1 DEF Theory!inputs
<1>6. Theory!Next
  BY <1>4, <1>5 DEF Theory!Next
<1>7. Keys \subseteq Nat /\ Keys # {}
  <2>1. KeyRange \in Nat /\ KeyRange > 0
    OBVIOUS
  <2>2. \A k \in Keys : k \in Nat
    BY DEF Keys
  <2>3. 0 \in Keys
    BY <2>1 DEF Keys
  <2> QED
    BY <2>2, <2>3
<1> QED
  BY <1>3, <1>4, <1>6, <1>7, Theory!NextInvariant

(* Of these, none begins or ends within the partition.                       *)
Moved ==
  /\ pc \notin {"main", "construct", "exit", "failed"} /\ ~Partitioning
  /\ pc' \notin {"main", "construct", "build"} /\ ~Partitioning'
  /\ pc' = "dispatch" => pc = "build"
  /\ pc = "next" => pc' \in {"next", "exit"}

LEMMA IdleMoves ==
  ASSUME [Next]_vars, ~ParseOptions, ~Begin, ~PutAside, ~Write
  PROVE  \/ UNCHANGED vars
         \/ Idle /\ (Construct \/ Moved)
<1>1. ASSUME NotApplicable \/ Build \/ Refuse \/ StartErrors \/ TrackError \/ EndErrors
      PROVE  Moved
  BY <1>1 DEF NotApplicable, Build, Refuse, StartErrors, TrackError, EndErrors,
              NextCompetitor, Goto, Fail, Moved, Partitioning
<1>2. ASSUME StartLookups \/ Repeat \/ Batch \/ EndLoop \/ Timed \/ EndRepeats
      PROVE  Moved
  BY <1>2 DEF StartLookups, Repeat, Batch, EndLoop, Timed, EndRepeats, CoreLoop,
              LeaveLoop, Goto, Moved, Partitioning
<1>3. ASSUME NotFoundInMap \/ ReadStray \/ Read \/ ColdRead \/ WriteRefused
      PROVE  Moved
  BY <1>3 DEF NotFoundInMap, ReadStray, Read, ColdRead, WriteRefused, Serving,
              LeaveLoop, Goto, Fail, Moved, Partitioning
<1>4. ASSUME PrintResult \/ PrintNothing \/ Exit
      PROVE  Moved
  BY <1>4 DEF PrintResult, PrintNothing, Exit, NextCompetitor, Goto, Moved, Partitioning
<1> QED
  BY <1>1, <1>2, <1>3, <1>4, IdleSteps DEF Next, Step, Terminated

LEMMA PortionedStep ==
  ASSUME Typed, Portioned, Apart, FirstRun, [Next]_vars
  PROVE  Portioned'
<1>1. options' = options
  BY SameInputs
<1>2. CASE UNCHANGED vars
  BY <1>2 DEF vars, Portioned, Partitioning, settings, session, partition
<1>3. CASE ParseOptions
  <2>1. /\ pc = "main" /\ pc' = "construct" /\ write_portion' \in PortionOf(options.write)
        /\ insertion_data' = insertion_data
    BY <1>3 DEF ParseOptions, Goto, partition
  <2>2. insertion_data = <<>>
    BY <2>1 DEF Portioned, FirstRun
  <2>3. ASSUME options.write \in 0 .. PortionRange - 1
        PROVE  write_portion' = options.write
    <3>1. options.write # Absent /\ options.write % PortionRange = options.write
      BY <2>3
    <3> QED
      BY <2>1, <3>1 DEF PortionOf
  <2> QED
    BY <1>1, <2>1, <2>2, <2>3 DEF Portioned, Partitioning
<1>4. CASE Construct
  <2>1. /\ pc = "construct" /\ pc' \in {"failed", "next"}
        /\ pc' = "next" => write_portion <= Percent
    <3>1. write_portion \in Nat
      BY DEF Typed
    <3> QED
      BY <1>4, <3>1 DEF Construct, Goto, Fail
  <2>2. UNCHANGED <<write_portion, insertion_data>>
    BY <1>4 DEF Construct, settings, partition
  <2> QED
    BY <1>1, <2>1, <2>2 DEF Portioned, Partitioning
<1>5. CASE Begin
  <2>1. /\ pc = "next" /\ UNCHANGED <<write_portion, insertion_data>>
        /\ pc' \in {"build", "undefined", "gather"}
        /\ write_portion = 0 => pc' = "build"
    BY <1>5 DEF Begin, Goto, settings, partition
  <2> QED
    BY <1>1, <2>1 DEF Portioned, Partitioning
<1>6. CASE PutAside
  <2>1. Partitioning /\ write_portion' = write_portion /\ runNo' = runNo
    BY <1>6, PartitionStep DEF PutAside, settings, session, Partitioning,
       Theory!Step, Theory!Draw, Theory!EndGather, Theory!Extract,
       Theory!EndExtract, Theory!Sort
  <2>2. pc' \in {"gather", "extract", "sort", "build", "crashed"}
    BY <1>6, PartitionStep DEF Theory!IInv, Theory!TypeOK
  <2> QED
    BY <1>1, <2>1, <2>2 DEF Portioned, Partitioning
<1>7. CASE Write
  <2>1. /\ pc = "loop" /\ pc' = pc /\ write_portion' = write_portion
        /\ insertion_data # <<>>
    BY <1>7 DEF Write, Serving, settings
  <2> QED
    BY <1>1, <2>1 DEF Portioned, Partitioning
<1>8. CASE Idle /\ Moved
  BY <1>1, <1>8 DEF Idle, Moved, Portioned, Partitioning, partition
<1> QED
  BY <1>2, <1>3, <1>4, <1>5, <1>6, <1>7, <1>8, IdleMoves

(* The entries apart, in the words of this module.                           *)
LEMMA SamePartition ==
  Theory!Distinct <=>
       /\ \A i, j \in DOMAIN index_data : index_data[i] = index_data[j] => i = j
       /\ \A i, j \in DOMAIN insertion_data :
            insertion_data[i] = insertion_data[j] => i = j
       /\ ToSet(index_data) \cap ToSet(insertion_data) = {}
BY DEF Theory!Distinct, Theory!NoRepeats, Theory!ToSet, ToSet

LEMMA ApartIdle ==
  ASSUME Apart, UNCHANGED <<data, lookups, write_portion, partition>>,
         pc' = pc \/ (~Partitioning /\ ~Partitioning')
  PROVE  Apart'
<1>1. UNCHANGED <<data, lookups, write_portion, index_data, insertion_data, ids,
                  before, drawn>>
  BY DEF partition
<1>2. Theory!Distinct'
  BY <1>1 DEF Apart, Theory!Distinct, Theory!NoRepeats
<1>3. CASE pc' = pc
  <2>1. Theory!IInv => Theory!IInv'
    BY <1>1, <1>3
       DEF Theory!IInv, Theory!TypeOK, Theory!Positions, Theory!Gathering,
           Theory!MayDraw, Theory!Extracting, Theory!Untouched, Theory!Drawn,
           Theory!Kept, Theory!Distinct, Theory!NoRepeats
  <2> QED
    BY <1>1, <1>2, <1>3, <2>1 DEF Apart, Partitioning
<1>4. CASE ~Partitioning /\ ~Partitioning'
  BY <1>1, <1>2, <1>4 DEF Apart
<1> QED
  BY <1>3, <1>4

LEMMA ApartBegin ==
  ASSUME Typed, Apart, Begin
  PROVE  Apart'
<1>1. /\ UNCHANGED <<data, write_portion, index_data, insertion_data, ids, before, drawn>>
      /\ pc = "next" /\ pc' \in {"build", "undefined", "gather"}
  BY DEF Begin, Goto, settings, partition
<1>2. ids = {} /\ Theory!Distinct
  BY <1>1 DEF Apart, Partitioning
<1>3. Theory!Distinct'
  BY <1>1, <1>2 DEF Theory!Distinct, Theory!NoRepeats
<1>4. pc' = "gather" => Theory!IInv'
  <2> SUFFICES ASSUME pc' = "gather" PROVE Theory!IInv'
    OBVIOUS
  <2>1. Theory!TypeOK'
    BY <1>1, <1>2 DEF Apart, Theory!TypeOK, Theory!Positions
  <2> QED
    BY <1>1, <1>2, <1>3, <2>1 DEF Theory!IInv, Theory!Gathering,
       Theory!Extracting, Theory!Drawn
<1>5. write_portion < Percent =>
        \A i \in DOMAIN insertion_data : \A j \in DOMAIN lookups' :
          data[insertion_data[i]] # lookups'[j].key
  <2>1. \A j \in DOMAIN lookups' : \E k \in DOMAIN lookups : lookups'[j] = lookups[k]
    BY LookupsShrink
  <2> QED
    BY <2>1 DEF Apart
<1> QED
  BY <1>1, <1>2, <1>3, <1>4, <1>5 DEF Apart, Partitioning

LEMMA ApartWrite ==
  ASSUME Apart, Write
  PROVE  Apart'
<1>1. /\ UNCHANGED <<data, lookups, write_portion, index_data, ids, before, drawn>>
      /\ insertion_data' = Front(insertion_data) /\ insertion_data # <<>>
      /\ pc = "loop" /\ pc' = "loop"
  BY DEF Write, Serving, settings, session
<1>2. /\ insertion_data \in Seq(DOMAIN data) /\ Len(insertion_data) \in Nat
      /\ Len(insertion_data) > 0 /\ DOMAIN insertion_data = 1 .. Len(insertion_data)
  BY <1>1 DEF Apart
<1>3. /\ insertion_data' \in Seq(DOMAIN data)
      /\ DOMAIN insertion_data' = 1 .. Len(insertion_data) - 1
      /\ \A i \in 1 .. Len(insertion_data) - 1 : insertion_data'[i] = insertion_data[i]
  BY <1>1, <1>2 DEF Front
<1>4. 1 .. Len(insertion_data) - 1 \subseteq DOMAIN insertion_data
  BY <1>2
<1>5. Theory!Distinct'
  <2>1. /\ Theory!NoRepeats(index_data) /\ Theory!NoRepeats(insertion_data)
        /\ Theory!ToSet(index_data) \cap Theory!ToSet(insertion_data) = {}
    BY DEF Apart, Theory!Distinct
  <2>2. Theory!NoRepeats(insertion_data')
    BY <1>3, <1>4, <2>1 DEF Theory!NoRepeats
  <2>3. Theory!ToSet(insertion_data') \subseteq Theory!ToSet(insertion_data)
    BY <1>3, <1>4 DEF Theory!ToSet
  <2>4. (Theory!NoRepeats(index_data))' /\ (Theory!ToSet(index_data))' = Theory!ToSet(index_data)
    BY <1>1, <2>1 DEF Theory!NoRepeats, Theory!ToSet
  <2>5. (Theory!ToSet(index_data) \cap Theory!ToSet(insertion_data))' = {}
    BY <2>1, <2>3, <2>4 DEF Theory!ToSet
  <2> QED
    BY <2>2, <2>4, <2>5 DEF Theory!Distinct
<1> QED
  BY <1>1, <1>3, <1>4, <1>5 DEF Apart, Partitioning

LEMMA ApartPutAside ==
  ASSUME Typed, Apart, PutAside
  PROVE  Apart'
<1>1. /\ UNCHANGED <<data, lookups, write_portion>>
      /\ Theory!IInv /\ Theory!IInv' /\ Theory!Step
  BY PartitionStep DEF PutAside, settings, session
<1>2. /\ index_data' \in Seq(DOMAIN data') /\ insertion_data' \in Seq(DOMAIN data')
      /\ before' \in Seq(DOMAIN data') /\ drawn' \subseteq DOMAIN before'
      /\ Theory!Distinct' /\ pc' \in {"gather", "extract", "sort", "build", "crashed"}
  BY <1>1 DEF Theory!IInv, Theory!TypeOK, Theory!Positions
<1>3. pc' \in {"build", "crashed"} => ids' = {}
  <2>1. CASE Theory!Draw \/ Theory!Extract \/ Theory!EndExtract
    BY <2>1 DEF Theory!Draw, Theory!Extract, Theory!EndExtract
  <2>2. CASE Theory!EndGather
    BY <2>2 DEF Theory!EndGather
  <2>3. CASE Theory!Sort
    BY <1>1, <2>3 DEF Theory!Sort, Theory!IInv, Theory!Drawn
  <2> QED
    BY <1>1, <2>1, <2>2, <2>3 DEF Theory!Step
<1>4. write_portion < Percent =>
        \A i \in DOMAIN insertion_data' : \A j \in DOMAIN lookups :
          data[insertion_data'[i]] # lookups[j].key
  <2> SUFFICES ASSUME write_portion < Percent
               PROVE  \A i \in DOMAIN insertion_data' : \A j \in DOMAIN lookups :
                        data[insertion_data'[i]] # lookups[j].key
    OBVIOUS
  <2>1. \A i \in DOMAIN insertion_data : \A j \in DOMAIN lookups :
          data[insertion_data[i]] # lookups[j].key
    BY DEF Apart
  <2>2. CASE UNCHANGED insertion_data
    BY <2>1, <2>2
  <2>3. CASE Theory!Extract
    <3>1. PICK id \in ids : insertion_data' = Append(insertion_data, index_data[id])
      BY <2>3 DEF Theory!Extract
    <3>2. index_data[id] = before[id]
      BY <1>1, <2>3 DEF Theory!IInv, Theory!TypeOK, Theory!Extract,
         Theory!Extracting, Theory!Untouched
    <3>3. \A j \in DOMAIN lookups : data[index_data[id]] # lookups[j].key
      <4>1. id \in drawn /\ write_portion # Percent
        BY <1>1, <2>3 DEF Theory!IInv, Theory!Drawn, Theory!Extract, Typed
      <4>2. data[before[id]] \notin {lookups[i].key : i \in DOMAIN lookups}
        BY <1>1, <2>3, <4>1 DEF Theory!IInv, Theory!Drawn, Theory!Extract
      <4> QED
        BY <3>2, <4>2
    <3>4. /\ insertion_data \in Seq(DOMAIN data) /\ Len(insertion_data) \in Nat
          /\ DOMAIN insertion_data = 1 .. Len(insertion_data)
      BY DEF Apart
    <3>5. /\ DOMAIN insertion_data' = 1 .. Len(insertion_data) + 1
          /\ \A i \in 1 .. Len(insertion_data) : insertion_data'[i] = insertion_data[i]
          /\ insertion_data'[Len(insertion_data) + 1] = index_data[id]
      BY <3>1, <3>4
    <3>6. \A i \in DOMAIN insertion_data' :
            i \in DOMAIN insertion_data \/ i = Len(insertion_data) + 1
      BY <3>4, <3>5
    <3> QED
      BY <2>1, <3>3, <3>4, <3>5, <3>6
  <2> QED
    BY <1>1, <2>2, <2>3 DEF Theory!Step, Theory!Draw, Theory!EndGather,
       Theory!EndExtract, Theory!Sort
<1> QED
  BY <1>1, <1>2, <1>3, <1>4 DEF Apart, Partitioning

LEMMA ApartStep ==
  ASSUME Typed, Portioned, Apart, FirstRun, [Next]_vars
  PROVE  Apart'
<1>1. CASE UNCHANGED vars
  BY <1>1, ApartIdle DEF vars, settings, session
<1>2. CASE Idle /\ (Construct \/ Moved)
  <2>1. UNCHANGED <<data, lookups, write_portion, partition>>
    BY <1>2 DEF Idle
  <2>2. ~Partitioning /\ ~Partitioning'
    BY <1>2 DEF Construct, Goto, Fail, Moved, Partitioning
  <2> QED
    BY <2>1, <2>2, ApartIdle
<1>3. CASE ParseOptions
  <2>1. /\ UNCHANGED <<data, lookups, index_data, insertion_data, ids, before, drawn>>
        /\ pc = "main" /\ pc' = "construct"
    BY <1>3 DEF ParseOptions, Goto, session, partition
  <2>2. insertion_data = <<>>
    BY <2>1 DEF Portioned, FirstRun
  <2>3. Theory!Distinct'
    BY <2>1 DEF Apart, Theory!Distinct, Theory!NoRepeats
  <2> QED
    BY <2>1, <2>2, <2>3 DEF Apart, Partitioning
<1> QED
  BY <1>1, <1>2, <1>3, ApartBegin, ApartWrite, ApartPutAside, IdleMoves

LEMMA ShareIsNat ==
  ASSUME NEW n \in Nat, NEW p \in Nat
  PROVE  (n * p) \div Percent + n \div SlackDivisor \in Nat
<1>1. n * p \in Nat /\ \A m \in Nat, d \in Nat \ {0} : m \div d \in Nat
  OBVIOUS
<1>2. (n * p) \div Percent \in Nat /\ n \div SlackDivisor \in Nat
  BY <1>1
<1> QED
  BY <1>2

LEMMA TargetIsNat == Typed => Part!Target \in Nat
<1> SUFFICES ASSUME Typed PROVE Part!Target \in Nat
  OBVIOUS
<1>1. Len(lookups) \in Nat /\ write_portion \in Nat
  BY DEF Typed
<1> QED
  BY <1>1, ShareIsNat DEF Part!Target

LEMMA FirstRunPutAside ==
  ASSUME Typed, Apart, FirstRun, PutAside
  PROVE  FirstRun'
<1>1. /\ UNCHANGED <<data, lookups, write_portion, runNo>>
      /\ Theory!IInv /\ Theory!IInv' /\ Theory!Step
  BY PartitionStep DEF PutAside, settings, session
<1>2. /\ Partitioning /\ runNo # 0
      /\ pc' \in {"gather", "extract", "sort", "build", "crashed"}
  BY <1>1 DEF FirstRun, Partitioning, Theory!Step, Theory!Draw, Theory!EndGather,
     Theory!Extract, Theory!EndExtract, Theory!Sort, Theory!IInv, Theory!TypeOK
<1>3. Part!Target' = Part!Target
  BY <1>1 DEF Part!Target
<1>4. CASE runNo # 1
  BY <1>1, <1>2, <1>4 DEF FirstRun
<1>5. CASE runNo = 1 /\ Theory!Draw
  <2>1. /\ pc = "gather" /\ pc' = pc /\ UNCHANGED <<index_data, insertion_data>>
        /\ Theory!Cardinality(ids) < Theory!Target
        /\ \E id \in DOMAIN index_data : ids' = ids \/ ids' = ids \cup {id}
    BY <1>5 DEF Theory!Draw
  <2>2. Theory!Cardinality(ids) = Cardinality(ids) /\ Theory!Target = Part!Target
    BY DEF Theory!Cardinality, Cardinality, Theory!Target, Part!Target
  <2>3. IsFiniteSet(ids) /\ Cardinality(ids) \in Nat
    <3>1. ids \subseteq DOMAIN index_data /\ index_data \in Seq(DOMAIN data)
      BY <1>1 DEF Theory!IInv, Theory!TypeOK, Theory!Positions
    <3>2. IsFiniteSet(ids)
      BY <3>1, KeptPairs
    <3> QED
      BY <3>2, FS_CardinalityType
  <2>4. Cardinality(ids') \in {Cardinality(ids), Cardinality(ids) + 1}
    BY <2>1, <2>3, FS_AddElement
  <2>5. Cardinality(ids') <= Part!Target
    BY <2>1, <2>2, <2>3, <2>4, TargetIsNat
  <2>6. (Cardinality(ids) <= Part!Target)'
    BY <1>3, <2>5
  <2> QED
    BY <1>1, <1>2, <1>5, <2>1, <2>6 DEF FirstRun, ToSet
<1>6. CASE runNo = 1 /\ Theory!EndGather
  <2>1. /\ pc = "gather" /\ pc' \in {"extract", "crashed"} /\ before' = index_data
        /\ ids' = ids /\ insertion_data' = insertion_data
        /\ Theory!Cardinality(ids) >= Theory!Target
    BY <1>6 DEF Theory!EndGather
  <2>2. insertion_data = <<>> /\ ToSet(index_data) = DOMAIN data
    BY <1>6, <2>1 DEF FirstRun
  <2>3. Theory!Cardinality(ids) = Cardinality(ids) /\ Theory!Target = Part!Target
    BY DEF Theory!Cardinality, Cardinality, Theory!Target, Part!Target
  <2>4. Cardinality(ids) \in Nat
    <3>1. ids \subseteq DOMAIN index_data /\ index_data \in Seq(DOMAIN data)
      BY <1>1 DEF Theory!IInv, Theory!TypeOK, Theory!Positions
    <3>2. IsFiniteSet(ids)
      BY <3>1, KeptPairs
    <3> QED
      BY <3>2, FS_CardinalityType
  <2>5. Len(insertion_data) + Cardinality(ids) = Part!Target
    <3>1. Cardinality(ids) <= Part!Target /\ Part!Target \in Nat
      BY <1>6, <2>1, TargetIsNat DEF FirstRun
    <3>2. Len(insertion_data) = 0
      BY <2>2
    <3> QED
      BY <2>1, <2>3, <2>4, <3>1, <3>2
  <2>6. (Len(insertion_data) + Cardinality(ids) = Part!Target)'
    BY <1>3, <2>1, <2>3, <2>5
  <2>7. (ToSet(before) = DOMAIN data)'
    BY <1>1, <2>1, <2>2 DEF ToSet
  <2> QED
    BY <1>1, <1>2, <2>1, <2>6, <2>7 DEF FirstRun
<1>7. CASE runNo = 1 /\ Theory!Extract
  <2>1. pc = "extract" /\ pc' = pc /\ before' = before
    BY <1>7 DEF Theory!Extract
  <2>2. PICK id \in ids : /\ insertion_data' = Append(insertion_data, index_data[id])
                          /\ ids' = ids \ {id}
    BY <1>7 DEF Theory!Extract
  <2>3. /\ ids \subseteq DOMAIN index_data /\ index_data \in Seq(DOMAIN data)
        /\ insertion_data \in Seq(DOMAIN data)
    BY <1>1 DEF Theory!IInv, Theory!TypeOK, Theory!Positions
  <2>4. IsFiniteSet(ids)
    BY <2>3, KeptPairs
  <2>5. /\ Cardinality(ids) \in Nat /\ Cardinality(ids') = Cardinality(ids) - 1
    BY <2>2, <2>4, FS_RemoveElement, FS_CardinalityType
  <2>6. Len(insertion_data) \in Nat /\ Len(insertion_data') = Len(insertion_data) + 1
    BY <2>2, <2>3
  <2>7. Len(insertion_data') + Cardinality(ids') = Len(insertion_data) + Cardinality(ids)
    BY <2>5, <2>6
  <2>8. /\ ToSet(before) = DOMAIN data
        /\ Len(insertion_data) + Cardinality(ids) = Part!Target
    BY <1>7, <2>1 DEF FirstRun
  <2>9. (Len(insertion_data) + Cardinality(ids) = Part!Target)'
    BY <1>3, <2>7, <2>8
  <2> QED
    BY <1>1, <2>1, <2>8, <2>9 DEF FirstRun, ToSet
<1>8. CASE runNo = 1 /\ Theory!EndExtract
  <2>1. pc = "extract" /\ pc' = "sort" /\ UNCHANGED <<before, ids, insertion_data>>
    BY <1>8 DEF Theory!EndExtract
  <2>2. /\ ToSet(before) = DOMAIN data
        /\ Len(insertion_data) + Cardinality(ids) = Part!Target
    BY <1>8, <2>1 DEF FirstRun
  <2>3. (Len(insertion_data) + Cardinality(ids) = Part!Target)'
    BY <1>3, <2>1, <2>2
  <2> QED
    BY <1>1, <2>1, <2>2, <2>3 DEF FirstRun, ToSet
<1>9. CASE runNo = 1 /\ Theory!Sort
  <2>1. pc = "sort" /\ pc' \in {"build", "crashed"} /\ UNCHANGED <<before, insertion_data>>
    BY <1>9 DEF Theory!Sort
  <2>2. /\ ToSet(before) = DOMAIN data
        /\ Len(insertion_data) + Cardinality(ids) = Part!Target
    BY <1>9, <2>1 DEF FirstRun
  <2>3. ids = {} /\ insertion_data \in Seq(DOMAIN data)
    BY <1>1, <2>1 DEF Theory!IInv, Theory!Drawn, Theory!TypeOK, Theory!Positions
  <2>4. Len(insertion_data) = Part!Target
    <3>1. Cardinality(ids) = 0 /\ Len(insertion_data) \in Nat
      BY <2>3, FS_EmptySet
    <3>2. Len(insertion_data) + Cardinality(ids) = Len(insertion_data)
      BY <3>1
    <3> QED
      BY <2>2, <3>2
  <2>5. (Len(insertion_data) = Part!Target)'
    BY <1>3, <2>1, <2>4
  <2>6. pc' = "build" =>
          ToSet(index_data') \cup ToSet(insertion_data') = DOMAIN data
    <3> SUFFICES ASSUME pc' = "build"
                 PROVE  ToSet(index_data') \cup ToSet(insertion_data') = DOMAIN data
      OBVIOUS
    <3>1. /\ ids' = {} /\ Theory!ToSet(index_data') = Theory!Kept'
          /\ \A i \in drawn' \ ids' : before'[i] \in Theory!ToSet(insertion_data')
          /\ index_data' \in Seq(DOMAIN data) /\ insertion_data' \in Seq(DOMAIN data)
      BY <1>1 DEF Theory!IInv, Theory!Drawn, Theory!TypeOK, Theory!Positions, Theory!ToSet
    <3>2. \A i \in DOMAIN before' :
            before'[i] \in ToSet(index_data') \cup ToSet(insertion_data')
      BY <3>1 DEF Theory!Kept, Theory!ToSet, ToSet
    <3>3. DOMAIN data \subseteq ToSet(index_data') \cup ToSet(insertion_data')
      BY <2>1, <2>2, <3>2 DEF ToSet
    <3>4. ToSet(index_data') \cup ToSet(insertion_data') \subseteq DOMAIN data
      BY <3>1 DEF ToSet
    <3> QED
      BY <3>3, <3>4
  <2>7. (ToSet(index_data) \cup ToSet(insertion_data) = DOMAIN data)' \/ pc' = "crashed"
    BY <1>1, <2>1, <2>6 DEF ToSet
  <2> QED
    BY <1>1, <1>9, <2>1, <2>5, <2>7 DEF FirstRun
<1> QED
  BY <1>1, <1>2, <1>4, <1>5, <1>6, <1>7, <1>8, <1>9 DEF Theory!Step

LEMMA FirstRunStep ==
  ASSUME Typed, Portioned, Apart, FirstRun, [Next]_vars
  PROVE  FirstRun'
<1>1. CASE Idle /\ (Construct \/ Moved \/ UNCHANGED vars)
  <2>1. /\ UNCHANGED <<data, lookups, write_portion, runNo, index_data, insertion_data,
                       ids, before>>
        /\ Part!Target' = Part!Target
    BY <1>1 DEF Idle, partition, Part!Target
  <2>2. CASE UNCHANGED vars
    BY <2>1, <2>2 DEF vars, FirstRun, ToSet
  <2>3. CASE Construct
    <3>1. pc = "construct" /\ pc' \in {"next", "failed"}
      BY <2>3 DEF Construct, Goto, Fail
    <3> QED
      BY <2>1, <3>1 DEF FirstRun, ToSet
  <2>4. CASE Moved
    <3>1. /\ pc' \notin {"gather", "extract", "sort", "build"}
          /\ pc' = "dispatch" => pc = "build"
          /\ runNo = 0 => pc' \in {"next", "exit"}
      BY <2>4 DEF Moved, Partitioning, FirstRun
    <3> QED
      BY <2>1, <3>1 DEF FirstRun, ToSet
  <2> QED
    BY <1>1, <2>2, <2>3, <2>4
<1>2. CASE ParseOptions
  <2>1. /\ UNCHANGED <<data, runNo, index_data, insertion_data>>
        /\ pc = "main" /\ pc' = "construct"
    BY <1>2 DEF ParseOptions, Goto, session, partition
  <2> QED
    BY <2>1 DEF FirstRun, Portioned, ToSet
<1>3. CASE Begin
  <2>1. /\ UNCHANGED <<data, write_portion, index_data, insertion_data>>
        /\ runNo' = runNo + 1 /\ runNo \in Nat
        /\ pc' \in {"build", "undefined", "gather"} /\ (pc' = "build" => write_portion = 0)
    BY <1>3 DEF Begin, Goto, settings, partition, Typed
  <2>2. runNo' = 1 => insertion_data = <<>> /\ ToSet(index_data) = DOMAIN data
    BY <2>1 DEF FirstRun
  <2>3. runNo' = 1 => ToSet(index_data) \cup ToSet(insertion_data) = DOMAIN data
    <3>1. ToSet(<<>>) = {}
      BY DEF ToSet
    <3> QED
      BY <2>2, <3>1
  <2>4. pc' = "gather" => (Cardinality(ids) <= Part!Target)'
    <3>1. Typed' /\ ids = {} /\ ids' = ids
      <4>1. Next
        BY <1>3 DEF Next, Step
      <4>2. pc = "next" /\ ids' = ids
        BY <1>3 DEF Begin, partition
      <4> QED
        BY <4>1, <4>2, TypedStep DEF Apart, Partitioning
    <3>2. Part!Target' \in Nat
      <4>1. Len(lookups') \in Nat /\ write_portion' \in Nat
        BY <3>1 DEF Typed
      <4> QED
        BY <4>1, ShareIsNat DEF Part!Target
    <3>3. Cardinality(ids') = 0
      BY <3>1, FS_EmptySet
    <3> QED
      BY <3>2, <3>3
  <2> QED
    BY <2>1, <2>2, <2>3, <2>4 DEF FirstRun, ToSet
<1>4. CASE Write
  <2>1. pc = "loop" /\ pc' = "loop" /\ runNo' = runNo
    BY <1>4 DEF Write, Serving, session
  <2> QED
    BY <2>1 DEF FirstRun
<1> QED
  BY <1>1, <1>2, <1>3, <1>4, FirstRunPutAside, IdleMoves, IdleSteps

Aside == Typed /\ Portioned /\ Apart /\ FirstRun

LEMMA AsideInvariant ==
  /\ Init => Aside
  /\ Aside /\ [Next]_vars => Aside'
BY InitTyped, InitApart, TypedStep, PortionedStep, ApartStep, FirstRunStep DEF Aside

(***************************************************************************)
(* "We need to ensure we don't have a conflict with the lookup keys": with    *)
(* less than 100% writes no entry put aside ever has a key that is looked up,  *)
(* in the Run that put it aside and in all Runs after it, for every dataset,   *)
(* portion and schedule.                                                    *)
(***************************************************************************)
THEOREM LookupsNeverAside == Spec => []NoConflict
<1>1. Aside => NoConflict
  BY DEF Aside, Apart, NoConflict
<1> QED
  BY <1>1, AsideInvariant, PTL DEF Spec

LEMMA WholeShare ==
  ASSUME NEW n \in Nat, NEW p \in Nat \ {0}
  PROVE  (n * p) \div p = n
<1> DEFINE q == (n * p) \div p
<1>1. n * p \in Nat /\ q \in Nat /\ q * p <= n * p /\ n * p < (q + 1) * p
  OBVIOUS
<1> HIDE DEF q
<1>2. q <= n
  BY <1>1
<1>3. n < q + 1
  BY <1>1
<1>4. q = n
  BY <1>1, <1>2, <1>3
<1> QED
  BY <1>4 DEF q

(***************************************************************************)
(* A portion that fits into the uint16_t it is kept in is what is put aside    *)
(* in the first Run, or it is more than 100 and no index is ever built.        *)
(***************************************************************************)
THEOREM PortionHonoured == Spec => []AsideAsAsked
<1>1. ASSUME Aside PROVE AsideAsAsked
  <2> SUFFICES ASSUME pc = "build", runNo = 1, options.write \in 0 .. PortionRange - 1
               PROVE  /\ options.write <= Percent
                      /\ Len(insertion_data) >= (Len(lookups) * options.write) \div Percent
                      /\ options.write = 0 => insertion_data = <<>>
    BY DEF AsideAsAsked
  <2>1. write_portion = options.write /\ write_portion <= Percent /\ write_portion \in Nat
        /\ (write_portion = 0 => insertion_data = <<>>)
    BY <1>1 DEF Aside, Portioned, Typed
  <2>2. Len(lookups) \in Nat /\ Len(insertion_data) \in Nat
    BY <1>1 DEF Aside, Typed, Apart
  <2>3. CASE write_portion = 0
    <3>1. Len(lookups) * 0 = 0 /\ 0 \div Percent = 0
      BY <2>2
    <3> QED
      BY <2>1, <2>2, <2>3, <3>1
  <2>4. CASE write_portion # 0
    <3>1. Len(insertion_data) = Part!Target
      BY <1>1, <2>4 DEF Aside, FirstRun
    <3>2. CASE write_portion = Percent
      BY <2>1, <2>2, <3>1, <3>2, WholeShare DEF Part!Target
    <3>3. CASE write_portion # Percent
      <4>1. \A n \in Nat, p \in Nat \ {0} : n \div p \in Nat
        OBVIOUS
      <4>2. Len(lookups) * write_portion \in Nat
        BY <2>1, <2>2
      <4>3. /\ (Len(lookups) * write_portion) \div Percent \in Nat
            /\ Len(lookups) \div SlackDivisor \in Nat
        BY <2>2, <4>1, <4>2
      <4> QED
        BY <2>1, <2>2, <3>1, <3>3, <4>3 DEF Part!Target
    <3> QED
      BY <3>2, <3>3
  <2> QED
    BY <2>1, <2>3, <2>4
<1> QED
  BY <1>1, AsideInvariant, PTL DEF Spec
-----------------------------------------------------------------------------
(* Sums of rows.                                                            *)
IsSumming(f, rows, m) ==
  f = [n \in 0 .. m |->
         IF n = 0 THEN 0
         ELSE IF n - 1 \in rows THEN f[n - 1] + (n - 1) ELSE f[n - 1]]

LEMMA SummingExists ==
  ASSUME NEW rows
  PROVE  \A m \in Nat : \E f : IsSumming(f, rows, m)
<1> DEFINE T == {m \in Nat : ~ \E f : IsSumming(f, rows, m)}
<1>1. SUFFICES ASSUME T # {} PROVE FALSE
  OBVIOUS
<1>2. PICK m \in T : \A y \in T : m <= y
  <2>1. T \subseteq Nat
    OBVIOUS
  <2> HIDE DEF T
  <2> QED
    BY <1>1, <2>1, LeastNatural
<1>3. m # 0
  <2>1. IsSumming([n \in 0 .. 0 |-> 0], rows, 0)
    BY DEF IsSumming
  <2> QED
    BY <1>2, <2>1
<1>4. m \in Nat /\ m - 1 \in Nat /\ m - 1 \notin T
  BY <1>2, <1>3
<1>5. PICK f : IsSumming(f, rows, m - 1)
  BY <1>4
<1> DEFINE v(n) == IF n = 0 THEN 0
                   ELSE IF n - 1 \in rows THEN f[n - 1] + (n - 1) ELSE f[n - 1]
           g == [n \in 0 .. m |-> v(n)]
<1>6. \A n \in 0 .. m - 1 : f[n] = v(n) /\ g[n] = f[n]
  BY <1>4, <1>5 DEF IsSumming
<1>7. \A n \in 0 .. m : n # 0 => n - 1 \in 0 .. m - 1
  BY <1>4
<1>8. IsSumming(g, rows, m)
  <2>1. \A n \in 0 .. m :
          v(n) = IF n = 0 THEN 0
                 ELSE IF n - 1 \in rows THEN g[n - 1] + (n - 1) ELSE g[n - 1]
    BY <1>6, <1>7
  <2> QED
    BY <2>1 DEF IsSumming
<1> QED
  BY <1>2, <1>8

LEMMA SumUnfolds ==
  ASSUME NEW rows
  PROVE  \E f : /\ SumOf(rows) = f[MaxRows] /\ f[0] = 0
                /\ \A n \in 1 .. MaxRows :
                     f[n] = IF n - 1 \in rows THEN f[n - 1] + (n - 1) ELSE f[n - 1]
<1> DEFINE f == CHOOSE f : IsSumming(f, rows, MaxRows)
<1>1. IsSumming(f, rows, MaxRows)
  BY SummingExists
<1>2. SumOf(rows) = f[MaxRows]
  BY DEF SumOf, IsSumming
<1> HIDE DEF f
<1>3. f[0] = 0
  BY <1>1 DEF IsSumming
<1>4. \A n \in 1 .. MaxRows :
        f[n] = IF n - 1 \in rows THEN f[n - 1] + (n - 1) ELSE f[n - 1]
  BY <1>1 DEF IsSumming
<1> QED
  BY <1>2, <1>3, <1>4

(* Of rows that are left out of a sum without a trace, there is but row 0.     *)
LEMMA MissingRows ==
  ASSUME NEW all, all \subseteq 0 .. MaxRows - 1, NEW rows, rows \subseteq all,
         SumOf(rows) = SumOf(all)
  PROVE  all \ rows \subseteq {0}
<1> SUFFICES ASSUME NEW p \in all \ rows, p # 0 PROVE FALSE
  OBVIOUS
<1>1. PICK f : /\ SumOf(rows) = f[MaxRows] /\ f[0] = 0
               /\ \A n \in 1 .. MaxRows :
                    f[n] = IF n - 1 \in rows THEN f[n - 1] + (n - 1) ELSE f[n - 1]
  BY SumUnfolds
<1>2. PICK g : /\ SumOf(all) = g[MaxRows] /\ g[0] = 0
               /\ \A n \in 1 .. MaxRows :
                    g[n] = IF n - 1 \in all THEN g[n - 1] + (n - 1) ELSE g[n - 1]
  BY SumUnfolds
<1> DEFINE Ahead(n) == /\ f[n] \in Nat /\ g[n] \in Nat /\ f[n] <= g[n]
                       /\ p < n => f[n] < g[n]
           T == {n \in 0 .. MaxRows : ~Ahead(n)}
<1>3. p \in Nat /\ p < MaxRows /\ MaxRows \in Nat
  OBVIOUS
<1>4. T = {}
  <2> SUFFICES ASSUME T # {} PROVE FALSE
    OBVIOUS
  <2>1. PICK n \in T : \A y \in T : n <= y
    <3>1. T \subseteq Nat
      OBVIOUS
    <3> HIDE DEF T
    <3> QED
      BY <3>1, LeastNatural
  <2>2. n # 0
    BY <1>1, <1>2, <1>3, <2>1
  <2>3. n \in 1 .. MaxRows /\ n - 1 \in 0 .. MaxRows - 1 /\ n - 1 < n
    BY <1>3, <2>1, <2>2
  <2>4. Ahead(n - 1)
    <3>1. n - 1 \in 0 .. MaxRows /\ n - 1 \notin T
      BY <1>3, <2>1, <2>3
    <3> QED
      BY <3>1
  <2>5. f[n] = IF n - 1 \in rows THEN f[n - 1] + (n - 1) ELSE f[n - 1]
    BY <1>1, <2>3
  <2>6. g[n] = IF n - 1 \in all THEN g[n - 1] + (n - 1) ELSE g[n - 1]
    BY <1>2, <2>3
  <2>7. p < n => p < n - 1 \/ p = n - 1
    BY <1>3, <2>3
  <2>8. Ahead(n)
    <3>1. CASE n - 1 \in rows
      BY <1>3, <2>3, <2>4, <2>5, <2>6, <2>7, <3>1
    <3>2. CASE n - 1 \notin rows /\ n - 1 \in all
      BY <1>3, <2>3, <2>4, <2>5, <2>6, <2>7, <3>2
    <3>3. CASE n - 1 \notin all
      BY <1>3, <2>3, <2>4, <2>5, <2>6, <2>7, <3>3
    <3> QED
      BY <3>1, <3>2, <3>3
  <2> QED
    BY <2>1, <2>8
<1>5. Ahead(MaxRows)
  BY <1>3, <1>4
<1>6. f[MaxRows] < g[MaxRows] /\ f[MaxRows] \in Nat
  BY <1>3, <1>5
<1>7. f[MaxRows] = g[MaxRows]
  BY <1>1, <1>2
<1> HIDE DEF Ahead
<1> QED
  BY <1>6, <1>7

-----------------------------------------------------------------------------
(* What the cold run can let pass.                                          *)
LEMMA ComparedStep ==
  ASSUME Typed, InTurn, Apart, Compared, [Next]_vars
  PROVE  Compared'
<1>1. data' = data /\ options' = options
  BY SameInputs
<1>2. \A key : MatchingRows(key)' = MatchingRows(key)
  BY <1>1 DEF MatchingRows
<1>3. CASE /\ UNCHANGED <<answer, run_failed>>
           /\ \/ pc' = pc \/ pc' \notin {"gather", "extract", "sort", "build", "dispatch"}
              \/ pc \in {"gather", "extract", "sort", "build", "dispatch"}
  BY <1>1, <1>2, <1>3 DEF Compared, Partitioning
<1>4. CASE Begin
  <2>1. answer' = NoAnswer
    BY <1>4 DEF Begin
  <2> QED
    BY <2>1 DEF Compared, NoAnswer
<1>5. CASE StartLookups
  <2>1. pc = "dispatch" /\ UNCHANGED answer /\ pc' \in {"print", "crashed", "repeat"}
    BY <1>5 DEF StartLookups, Goto
  <2> QED
    BY <1>1, <2>1 DEF Compared, Partitioning, NoAnswer
<1>6. CASE Read
  <2>1. ~options.cold /\ pc = "loop" /\ pc' = "loop"
    BY <1>6 DEF Read, Serving
  <2> QED
    BY <1>1, <2>1 DEF Compared, Partitioning
<1>7. CASE ColdRead
  <2>1. /\ pc = "loop" /\ idx < limit /\ pc' \in {"loop", "timed", "batch"}
        /\ options.cold
    BY <1>7 DEF ColdRead, Serving, LeaveLoop, Goto
  <2>2. PICK w \in Answered : \E rows \in PromisedRows(Request.key, w) :
          /\ answer' = [key |-> Request.key, window |-> w, rows |-> rows]
          /\ IF CheckResults(rows, Request)
             THEN Served /\ UNCHANGED <<pc, why, run_failed>>
             ELSE run_failed' = TRUE /\ LeaveLoop /\ UNCHANGED <<idx, seen>>
    BY <1>7 DEF ColdRead
  <2>3. PICK rows \in PromisedRows(Request.key, w) :
          /\ answer' = [key |-> Request.key, window |-> w, rows |-> rows]
          /\ ~run_failed' => SumOf(rows) = Request.result /\ ~run_failed
    BY <2>2 DEF CheckResults
  <2>4. rows \subseteq MatchingRows(Request.key)
    BY DEF PromisedRows
  <2>5. ~run_failed => Request \in Asked
    <3> SUFFICES ASSUME ~run_failed PROVE Request \in Asked
      OBVIOUS
    <3>1. limit <= Len(lookups)
      BY <2>1 DEF InTurn, Lesser, Typed
    <3>2. idx + 1 \in 1 .. Len(lookups) /\ lookups \in Seq(Asked)
      BY <2>1, <3>1 DEF Typed
    <3> QED
      BY <3>2 DEF Request
  <2>6. Request \in Asked =>
          Request.key \in Keys /\ Request.result = Expected(data, Request.key)
    BY DEF Asked
  <2>7. ~run_failed' =>
          /\ answer'.key \in Keys /\ answer'.rows \subseteq MatchingRows(answer'.key)
          /\ SumOf(answer'.rows) = Expected(data, answer'.key)
    BY <2>3, <2>4, <2>5, <2>6
  <2> QED
    BY <1>1, <1>2, <2>1, <2>7 DEF Compared, Partitioning
<1>8. CASE PutAside
  <2>1. UNCHANGED <<answer, run_failed>> /\ pc \in {"gather", "extract", "sort"}
    BY <1>8, PartitionStep DEF PutAside, measuring, Theory!Step, Theory!Draw,
       Theory!EndGather, Theory!Extract, Theory!EndExtract, Theory!Sort
  <2> QED
    BY <1>3, <2>1
<1>9. ASSUME \/ ParseOptions \/ Construct \/ NotApplicable \/ Build \/ Refuse
             \/ StartErrors \/ TrackError \/ EndErrors \/ Repeat \/ Batch \/ EndLoop
      PROVE  /\ UNCHANGED <<answer, run_failed>>
             /\ \/ pc' \notin {"gather", "extract", "sort", "build", "dispatch"}
                \/ pc = "build"
  BY <1>9 DEF ParseOptions, Construct, NotApplicable, Build, Refuse, StartErrors,
              TrackError, EndErrors, Repeat, Batch, EndLoop, CoreLoop, LeaveLoop,
              NextCompetitor, Goto, Fail, measuring
<1>10. ASSUME \/ Timed \/ EndRepeats \/ NotFoundInMap \/ ReadStray \/ WriteRefused
              \/ Write \/ PrintResult \/ PrintNothing \/ Exit \/ UNCHANGED vars
       PROVE  /\ UNCHANGED <<answer, run_failed>>
              /\ \/ pc' \notin {"gather", "extract", "sort", "build", "dispatch"}
                 \/ pc' = pc
  BY <1>10 DEF Timed, EndRepeats, NotFoundInMap, ReadStray, WriteRefused, Write,
               Serving, PrintResult, PrintNothing, Exit, NextCompetitor, Goto, Fail,
               vars, measuring
<1> QED
  BY <1>3, <1>4, <1>5, <1>6, <1>7, <1>8, <1>9, <1>10 DEF Next, Step, Terminated

(***************************************************************************)
(* CheckResults of the cold run, the only check the program has of its         *)
(* answers, compares sums.  Whatever the competitor and the search, the only  *)
(* wrong answer it lets pass is that of a lookup that missed row 0.           *)
(***************************************************************************)
THEOREM OnlyRow0Missed == Spec => []CheckSeesAllButRow0
<1> DEFINE CInv == Aside /\ InTurn /\ Compared
<1>1. Init => CInv
  BY InitTyped, InitApart DEF Aside, Init, InTurn, Compared, Partitioning, NoAnswer
<1>2. CInv /\ [Next]_vars => CInv'
  BY AsideInvariant, InTurnStep, ComparedStep DEF Aside
<1>3. ASSUME CInv PROVE CheckSeesAllButRow0
  <2> SUFFICES ASSUME options.cold, ~run_failed, answer # NoAnswer
               PROVE  MatchingRows(answer.key) \ answer.rows \subseteq {0}
    BY DEF CheckSeesAllButRow0
  <2>1. /\ answer.rows \subseteq MatchingRows(answer.key)
        /\ SumOf(answer.rows) = Expected(data, answer.key)
    BY <1>3 DEF Compared
  <2>2. MatchingRows(answer.key) \subseteq 0 .. MaxRows - 1
    <3>1. PICK m \in 1 .. MaxRows : data \in [0 .. m - 1 -> Keys]
      BY <1>3 DEF Aside, Typed
    <3>2. 0 .. m - 1 \subseteq 0 .. MaxRows - 1
      OBVIOUS
    <3> QED
      BY <3>1, <3>2 DEF MatchingRows
  <2>3. CASE MatchingRows(answer.key) = {}
    BY <2>3
  <2>4. CASE MatchingRows(answer.key) # {}
    <3>1. Expected(data, answer.key) = SumOf(MatchingRows(answer.key))
      BY <2>4 DEF Expected, MatchingRows
    <3> QED
      BY <2>1, <2>2, <3>1, MissingRows
  <2> QED
    BY <2>3, <2>4
<1> HIDE DEF CInv
<1> QED
  BY <1>1, <1>2, <1>3, PTL DEF Spec

-----------------------------------------------------------------------------
(* What a Run relies on: sorted data, a competitor left that is applicable,    *)
(* requests there are, and all of the data if none of it is put aside.        *)
Competitors == [kind : Kinds, scale : Nat \ {0}]

AllRows == [i \in 1 .. Size |-> i - 1]

Running == Partitioning \/ Serviced \/ pc \in {"build", "print"}

Prepared ==
  /\ schedule \in Seq(Competitors)
  /\ pc \notin {"main", "construct", "failed"} => Sorted
  /\ Running => schedule # <<>> /\ Applicable(Competitor, Unique)
  /\ pc = "loop" => limit <= Len(lookups)
  /\ pc = "main" \/ write_portion = 0 => index_data = AllRows

LEMMA InitPrepared == Init => Prepared
<1> SUFFICES ASSUME Init PROVE Prepared
  OBVIOUS
<1>1. schedule \in Seq(Competitors)
  BY CallAssumption DEF Init, Competitors
<1>2. pc = "main" /\ index_data = AllRows
  BY DEF Init, AllRows
<1> QED
  BY <1>1, <1>2 DEF Prepared, Running, Partitioning, Serviced

(* Steps within a Run, and the ways out of one.                              *)
LEMMA RunSteps ==
  ASSUME [Next]_vars
  PROVE  \/ UNCHANGED vars
         \/ ParseOptions \/ Construct \/ Exit \/ Begin
         \/ Running /\ UNCHANGED <<data, schedule, lookups>> /\ pc' \notin {"next", "exit"}
         \/ /\ Running \/ schedule # <<>>
            /\ pc \notin {"main", "construct", "failed"} /\ pc' = "next"
            /\ schedule' = Tail(schedule) /\ UNCHANGED data
<1>1. ASSUME NotApplicable \/ EndErrors \/ PrintResult
      PROVE  /\ Running \/ schedule # <<>>
             /\ pc \notin {"main", "construct", "failed"} /\ pc' = "next"
             /\ schedule' = Tail(schedule) /\ UNCHANGED data
  BY <1>1 DEF NotApplicable, EndErrors, PrintResult, NextCompetitor, Goto, Running,
     Serviced, settings
<1>2. ASSUME \/ Build \/ Refuse \/ StartErrors \/ TrackError \/ StartLookups
             \/ Repeat \/ Batch \/ EndLoop \/ Timed \/ EndRepeats
      PROVE  /\ Running /\ UNCHANGED <<data, schedule, lookups>>
             /\ pc' \notin {"next", "exit"}
  BY <1>2 DEF Build, Refuse, StartErrors, TrackError, StartLookups, Repeat, Batch,
     EndLoop, Timed, EndRepeats, CoreLoop, LeaveLoop, Goto, Fail, Running, Serviced,
     settings, session
<1>3. ASSUME \/ NotFoundInMap \/ ReadStray \/ Read \/ ColdRead \/ WriteRefused
             \/ Write \/ PrintNothing
      PROVE  /\ Running /\ UNCHANGED <<data, schedule, lookups>>
             /\ pc' \notin {"next", "exit"}
  BY <1>3 DEF NotFoundInMap, ReadStray, Read, ColdRead, WriteRefused, Write, PrintNothing,
     Serving, LeaveLoop, Goto, Fail, Running, Serviced, settings, session
<1>4. ASSUME PutAside
      PROVE  /\ Running /\ UNCHANGED <<data, schedule, lookups>>
             /\ pc' \notin {"next", "exit"}
  BY <1>4 DEF PutAside, Part!Step, Part!Draw, Part!EndGather, Part!Extract,
     Part!EndExtract, Part!Sort, Running, Partitioning, settings, session
<1> QED
  BY <1>1, <1>2, <1>3, <1>4 DEF Next, Step, Terminated

LEMMA PreparedStep ==
  ASSUME Typed, Portioned, Prepared, [Next]_vars
  PROVE  Prepared'
<1>1. data' = data /\ Sorted' = Sorted /\ Unique' = Unique /\ AllRows' = AllRows
  BY SameInputs DEF Sorted, Unique, AllRows, Size
<1>2. (schedule \in Seq(Competitors))'
  <2>1. schedule \in Seq(Competitors)
    BY DEF Prepared
  <2>2. \A s \in Seq(Competitors) : s # <<>> => Tail(s) \in Seq(Competitors)
    OBVIOUS
  <2>3. CASE schedule' = schedule
    BY <2>1, <2>3
  <2>4. CASE schedule' = Tail(schedule) /\ (Running \/ schedule # <<>>)
    BY <2>1, <2>2, <2>4 DEF Prepared
  <2>5. ASSUME UNCHANGED vars \/ ParseOptions \/ Construct \/ Exit \/ Begin
        PROVE  schedule' = schedule
    BY <2>5 DEF vars, ParseOptions, Construct, Exit, Begin, session
  <2> QED
    BY <2>3, <2>4, <2>5, RunSteps
<1>3. (pc \notin {"main", "construct", "failed"} => Sorted)'
  <2>1. CASE Construct
    BY <1>1, <2>1 DEF Construct, Goto, Fail
  <2>2. CASE ParseOptions
    BY <2>2 DEF ParseOptions, Goto
  <2>3. CASE UNCHANGED vars
    BY <1>1, <2>3 DEF vars, Prepared
  <2>4. ASSUME Exit \/ Begin \/ Running
        PROVE  pc \notin {"main", "construct", "failed"}
    BY <2>4 DEF Exit, Begin, Running, Partitioning, Serviced
  <2> QED
    BY <1>1, <2>1, <2>2, <2>3, <2>4, RunSteps DEF Prepared
<1>4. (Running => schedule # <<>> /\ Applicable(Competitor, Unique))'
  <2>1. ASSUME UNCHANGED schedule, Running \/ Begin
        PROVE  (schedule # <<>> /\ Applicable(Competitor, Unique))'
    BY <1>1, <2>1 DEF Prepared, Begin, Competitor, Applicable
  <2>2. CASE ParseOptions \/ Construct \/ Exit \/ pc' = "next"
    BY <2>2 DEF ParseOptions, Construct, Exit, Goto, Fail, Running, Partitioning, Serviced
  <2>3. CASE UNCHANGED vars
    <3>1. Running' = Running /\ UNCHANGED schedule
      BY <2>3 DEF vars, session, Running, Partitioning, Serviced
    <3> QED
      BY <2>1, <3>1
  <2>4. Begin => UNCHANGED schedule
    BY DEF Begin
  <2> QED
    BY <2>1, <2>2, <2>3, <2>4, RunSteps
<1>5. (pc = "loop" => limit <= Len(lookups))'
  <2> SUFFICES ASSUME pc' = "loop" PROVE limit' <= Len(lookups')
    OBVIOUS
  <2>1. Len(lookups) \in Nat /\ cntr \in Nat
    BY DEF Typed
  <2>2. CASE Repeat
    BY <2>1, <2>2 DEF Repeat, CoreLoop, Goto, session
  <2>3. CASE Batch
    <3>1. /\ lookups' = lookups
          /\ cntr >= Len(lookups) => pc' = "timed"
          /\ ~ (cntr >= Len(lookups)) => limit' = BatchEnd
      BY <2>3 DEF Batch, CoreLoop, Goto, session
    <3> QED
      BY <2>1, <3>1 DEF BatchEnd, Lesser
  <2>4. ASSUME \/ ParseOptions \/ Construct \/ NotApplicable \/ Begin \/ Build \/ Refuse
               \/ StartErrors \/ TrackError \/ EndErrors \/ StartLookups \/ EndLoop
        PROVE  pc' # "loop"
    BY <2>4 DEF ParseOptions, Construct, NotApplicable, Begin, Build, Refuse,
       StartErrors, TrackError, EndErrors, StartLookups, EndLoop, LeaveLoop,
       NextCompetitor, Goto, Fail
  <2>5. ASSUME \/ Timed \/ EndRepeats \/ NotFoundInMap \/ ReadStray \/ WriteRefused
               \/ PrintResult \/ PrintNothing \/ Exit
        PROVE  pc' # "loop"
    BY <2>5 DEF Timed, EndRepeats, NotFoundInMap, ReadStray, WriteRefused, PrintResult,
       PrintNothing, Exit, NextCompetitor, Goto, Fail
  <2>6. PutAside => pc' # "loop"
    BY DEF PutAside, Part!Step, Part!Draw, Part!EndGather, Part!Extract,
       Part!EndExtract, Part!Sort
  <2>7. ASSUME Read \/ ColdRead \/ Write \/ UNCHANGED vars
        PROVE  pc = "loop" /\ UNCHANGED <<limit, lookups>>
    BY <2>7 DEF Read, ColdRead, Write, Serving, vars, session, measuring
  <2> QED
    BY <2>2, <2>3, <2>4, <2>5, <2>6, <2>7 DEF Next, Step, Terminated, Prepared
<1>6. (pc = "main" \/ write_portion = 0 => index_data = AllRows)'
  <2>1. ASSUME ParseOptions \/ Begin \/ Write \/ UNCHANGED vars
        PROVE  /\ index_data' = index_data
               /\ pc' = "main" \/ write_portion' = 0 => pc = "main" \/ write_portion = 0
    BY <2>1 DEF ParseOptions, Begin, Write, Serving, vars, Goto, settings, partition
  <2>2. CASE PutAside
    <3>1. Partitioning /\ write_portion' = write_portion /\ pc' # "main"
      BY <2>2 DEF PutAside, Part!Step, Part!Draw, Part!EndGather, Part!Extract,
         Part!EndExtract, Part!Sort, Partitioning, settings
    <3> QED
      BY <3>1 DEF Portioned
  <2>3. CASE Idle /\ (Construct \/ Moved)
    <3>1. UNCHANGED <<index_data, write_portion>> /\ pc' # "main"
      BY <2>3 DEF Idle, partition, Construct, Moved, Goto, Fail
    <3> QED
      BY <1>1, <3>1 DEF Prepared
  <2> QED
    BY <1>1, <2>1, <2>2, <2>3, IdleMoves DEF Prepared
<1> QED
  BY <1>2, <1>3, <1>4, <1>5, <1>6 DEF Prepared

LEMMA SizeOfData ==
  ASSUME Typed
  PROVE  /\ Size \in 1 .. MaxRows /\ DOMAIN data = 0 .. Size - 1
         /\ data \in [0 .. Size - 1 -> Keys]
         /\ \A p \in 0 .. Size - 1 : data[p] \in Nat
<1>1. PICK m \in 1 .. MaxRows : data \in [0 .. m - 1 -> Keys]
  BY DEF Typed
<1>2. Size = m
  <2>1. DOMAIN data = 0 .. m - 1 /\ m \in Nat
    BY <1>1
  <2>2. Cardinality(0 .. m - 1) = m
    <3>1. 0 \in Int /\ m - 1 \in Int
      BY <2>1
    <3>2. Cardinality(0 .. m - 1) = IF 0 > m - 1 THEN 0 ELSE m - 1 - 0 + 1
      BY <3>1, FS_Interval, Zenon
    <3> QED
      BY <3>2
  <2> QED
    BY <2>1, <2>2 DEF Size
<1>3. \A p \in 0 .. m - 1 : data[p] \in Nat
  BY <1>1 DEF Keys
<1> QED
  BY <1>1, <1>2, <1>3

LEMMA AllRowsStay ==
  ASSUME Typed
  PROVE  /\ ToSet(AllRows) = DOMAIN data
         /\ Sorted => \A i, j \in DOMAIN AllRows :
                        i <= j => data[AllRows[i]] <= data[AllRows[j]]
<1>1. Size \in Nat /\ DOMAIN data = 0 .. Size - 1
  BY SizeOfData
<1>2. /\ DOMAIN AllRows = 1 .. Size
      /\ \A i \in 1 .. Size : AllRows[i] = i - 1 /\ i - 1 \in DOMAIN data
      /\ \A p \in 0 .. Size - 1 : p + 1 \in 1 .. Size /\ AllRows[p + 1] = p
  BY <1>1 DEF AllRows
<1>3. ToSet(AllRows) = DOMAIN data
  <2>1. ToSet(AllRows) = {AllRows[i] : i \in 1 .. Size}
    BY <1>2 DEF ToSet
  <2>2. \A p \in DOMAIN data : \E i \in 1 .. Size : AllRows[i] = p
    BY <1>1, <1>2
  <2>3. \A i \in 1 .. Size : AllRows[i] \in DOMAIN data
    BY <1>2
  <2> QED
    BY <2>1, <2>2, <2>3
<1>4. ASSUME Sorted, NEW i \in 1 .. Size, NEW j \in 1 .. Size, i <= j
      PROVE  data[AllRows[i]] <= data[AllRows[j]]
  <2>1. i - 1 <= j - 1
    BY <1>1, <1>4
  <2> QED
    BY <1>2, <1>4, <2>1 DEF Sorted
<1> QED
  BY <1>2, <1>3, <1>4

LEMMA InitStays == Init => Stays
<1> SUFFICES ASSUME Init PROVE Stays
  OBVIOUS
<1>1. pc = "main" /\ index_data = AllRows
  BY DEF Init, AllRows
<1>2. Wanted \subseteq ToSet(index_data)
  BY <1>1, InitTyped, AllRowsStay DEF Wanted
<1> QED
  BY <1>1, <1>2 DEF Stays

LEMMA StaysPutAside ==
  ASSUME Typed, Portioned, Apart, Stays, PutAside
  PROVE  Stays'
<1>1. /\ UNCHANGED <<data, lookups, write_portion>>
      /\ Theory!IInv /\ Theory!IInv' /\ Theory!Step
  BY PartitionStep DEF PutAside, settings, session
<1>2. Wanted' = Wanted
  BY <1>1 DEF Wanted
<1>3. pc' = "build" => Theory!Sort
  BY <1>1 DEF Theory!Step, Theory!Draw, Theory!EndGather, Theory!Extract, Theory!EndExtract
<1>4. ASSUME write_portion < Percent
      PROVE  /\ pc' \notin {"extract", "sort", "crashed"} => Wanted \subseteq ToSet(index_data')
             /\ pc' \in {"extract", "sort"} => Wanted \subseteq ToSet(before')
  <2>1. CASE Theory!Draw
    <3>1. pc = "gather" /\ pc' = "gather" /\ index_data' = index_data
      BY <2>1 DEF Theory!Draw
    <3> QED
      BY <1>4, <3>1 DEF Stays
  <2>2. CASE Theory!EndGather
    <3>1. pc = "gather" /\ pc' \in {"crashed", "extract"} /\ before' = index_data
      BY <2>2 DEF Theory!EndGather
    <3> QED
      BY <1>4, <3>1 DEF Stays
  <2>3. CASE Theory!Extract \/ Theory!EndExtract
    <3>1. pc = "extract" /\ pc' \in {"extract", "sort"} /\ before' = before
      BY <2>3 DEF Theory!Extract, Theory!EndExtract
    <3> QED
      BY <1>4, <3>1 DEF Stays
  <2>4. CASE Theory!Sort
    <3>1. pc = "sort" /\ pc' \in {"crashed", "build"} /\ UNCHANGED <<before, drawn, ids>>
      BY <2>4 DEF Theory!Sort, Theory!IInv, Theory!TypeOK
    <3>2. Wanted \subseteq ToSet(before)
      BY <1>4, <3>1 DEF Stays
    <3>3. \A i \in drawn : data[before[i]] \notin {lookups[j].key : j \in DOMAIN lookups}
      BY <1>1, <1>4, <3>1 DEF Theory!IInv, Theory!Drawn, Typed
    <3>4. ASSUME pc' = "build", NEW p \in Wanted PROVE p \in ToSet(index_data')
      <4>1. PICK i \in DOMAIN before : before[i] = p
        BY <3>2 DEF ToSet
      <4>2. i \notin drawn
        BY <3>3, <4>1 DEF Wanted
      <4>3. Theory!ToSet(index_data') = Theory!Kept'
        BY <1>1, <3>4 DEF Theory!IInv, Theory!Drawn, Theory!ToSet
      <4>4. p \in Theory!Kept'
        BY <3>1, <4>1, <4>2 DEF Theory!Kept
      <4> QED
        BY <4>3, <4>4 DEF Theory!ToSet, ToSet
    <3> QED
      BY <3>1, <3>4
  <2> QED
    BY <1>1, <2>1, <2>2, <2>3, <2>4 DEF Theory!Step
<1>5. ASSUME Theory!Sort
      PROVE  \A i, j \in DOMAIN index_data' :
               i <= j => data[index_data'[i]] <= data[index_data'[j]]
  BY <1>5 DEF Theory!Sort, Theory!SortedForms, Theory!SortedByKey
<1> QED
  BY <1>1, <1>2, <1>3, <1>4, <1>5 DEF Stays, ToSet

LEMMA StaysStep ==
  ASSUME Typed, Portioned, Apart, Prepared, Stays, [Next]_vars
  PROVE  Stays'
<1>1. data' = data
  BY SameInputs
<1>2. CASE PutAside
  BY <1>2, StaysPutAside
<1>3. CASE ParseOptions
  <2>1. pc = "main" /\ pc' = "construct" /\ UNCHANGED <<lookups, index_data>>
    BY <1>3 DEF ParseOptions, Goto, session, partition
  <2>2. Wanted' \subseteq DOMAIN data
    BY <1>1 DEF Wanted
  <2>3. ToSet(index_data') = DOMAIN data
    BY <2>1, AllRowsStay DEF Prepared
  <2> QED
    BY <2>1, <2>2, <2>3 DEF Stays, ToSet
<1>4. CASE Begin
  <2>1. /\ pc = "next" /\ UNCHANGED <<index_data, write_portion>>
        /\ pc' \in {"build", "undefined", "gather"}
        /\ pc' = "build" => write_portion = 0
    BY <1>4 DEF Begin, Goto, settings, partition
  <2>2. Wanted' \subseteq Wanted
    <3>1. \A j \in DOMAIN lookups' : \E k \in DOMAIN lookups : lookups'[j] = lookups[k]
      BY <1>4, LookupsShrink
    <3> QED
      BY <1>1, <3>1 DEF Wanted
  <2>3. pc' = "build" => index_data = AllRows /\ Sorted
    BY <2>1 DEF Prepared
  <2>4. pc' = "build" =>
          \A i, j \in DOMAIN index_data' :
            i <= j => data'[index_data'[i]] <= data'[index_data'[j]]
    BY <1>1, <2>1, <2>3, AllRowsStay
  <2> QED
    BY <2>1, <2>2, <2>4 DEF Stays, ToSet
<1>5. CASE Write
  <2>1. UNCHANGED <<lookups, index_data, write_portion>> /\ pc = "loop" /\ pc' = "loop"
    BY <1>5 DEF Write, Serving, settings, session
  <2> QED
    BY <1>1, <2>1 DEF Stays, Wanted, ToSet
<1>6. CASE UNCHANGED vars
  BY <1>6 DEF vars, settings, session, partition, Stays, Wanted, ToSet
<1>7. CASE Idle /\ (Construct \/ Moved)
  <2>1. /\ UNCHANGED <<lookups, index_data, before, write_portion>>
        /\ pc \notin {"extract", "sort"} /\ pc' \notin {"extract", "sort", "build"}
    BY <1>7 DEF Idle, partition, Construct, Moved, Partitioning, Goto, Fail
  <2>2. pc = "crashed" => pc' = "crashed"
    <3>1. ASSUME pc = "crashed", [Next]_vars PROVE pc' = pc
      BY <3>1 DEF Next, Step, Terminated, vars, ParseOptions, Construct, NotApplicable,
         Begin, PutAside, Part!Step, Part!Draw, Part!EndGather, Part!Extract,
         Part!EndExtract, Part!Sort, Build, Refuse, StartErrors, TrackError, EndErrors,
         StartLookups, Repeat, Batch, EndLoop, Timed, EndRepeats, NotFoundInMap,
         ReadStray, Read, ColdRead, WriteRefused, Write, Serving, PrintResult,
         PrintNothing, Exit
    <3> QED
      BY <3>1
  <2> QED
    BY <1>1, <2>1, <2>2 DEF Stays, Wanted, ToSet
<1> QED
  BY <1>2, <1>3, <1>4, <1>5, <1>6, <1>7, IdleMoves

-----------------------------------------------------------------------------
(* Entries: what the dictionaries do with the pairs they are given.           *)
LEMMA Inserted ==
  ASSUME NEW S, NEW s \in Seq(S), NEW i \in 1 .. Len(s) + 1, NEW e \in S
  PROVE  /\ InsertAt(s, i, e) \in Seq(S) /\ Len(InsertAt(s, i, e)) = Len(s) + 1
         /\ \A j \in 1 .. Len(s) + 1 :
              InsertAt(s, i, e)[j] = IF j < i THEN s[j] ELSE IF j = i THEN e ELSE s[j - 1]
<1> DEFINE n == Len(s)
           a == SubSeq(s, 1, i - 1)
           b == SubSeq(s, i, n)
<1>1. n \in Nat /\ i \in Nat /\ \A j \in 1 .. n : s[j] \in S
  OBVIOUS
<1>2. /\ a \in Seq(S) /\ Len(a) = i - 1
      /\ \A j \in 1 .. i - 1 : a[j] = s[j]
  BY <1>1
<1>3. /\ b \in Seq(S) /\ Len(b) = n - i + 1
      /\ \A j \in 1 .. n - i + 1 : b[j] = s[i + j - 1]
  BY <1>1
<1> HIDE DEF a, b, n
<1>4. /\ a \o <<e>> \in Seq(S) /\ Len(a \o <<e>>) = i
      /\ \A j \in 1 .. i : (a \o <<e>>)[j] = IF j < i THEN s[j] ELSE e
  BY <1>1, <1>2
<1> DEFINE c == a \o <<e>>
<1>5. /\ c \o b \in Seq(S) /\ Len(c \o b) = n + 1
      /\ \A j \in 1 .. n + 1 : (c \o b)[j] = IF j <= i THEN c[j] ELSE b[j - i]
  <2>1. c \in Seq(S) /\ Len(c) = i
    BY <1>4
  <2> HIDE DEF c
  <2>2. i + (n - i + 1) = n + 1
    BY <1>1
  <2>3. c \o b \in Seq(S) /\ Len(c \o b) = n + 1
    <3>1. \A u, v \in Seq(S) : u \o v \in Seq(S) /\ Len(u \o v) = Len(u) + Len(v)
      OBVIOUS
    <3> QED
      BY <1>3, <2>1, <2>2, <3>1
  <2>4. \A j \in 1 .. n + 1 : (c \o b)[j] = IF j <= i THEN c[j] ELSE b[j - i]
    BY <1>1, <1>3, <2>1, <2>2
  <2> QED
    BY <2>3, <2>4
<1> HIDE DEF c
<1>6. \A j \in 1 .. n + 1 : j > i => b[j - i] = s[j - 1]
  <2> SUFFICES ASSUME NEW j \in 1 .. n + 1, j > i PROVE b[j - i] = s[j - 1]
    OBVIOUS
  <2>1. j - i \in 1 .. n - i + 1 /\ i + (j - i) - 1 = j - 1
    BY <1>1
  <2> QED
    BY <1>3, <2>1
<1>7. \A j \in 1 .. n + 1 :
        (c \o b)[j] = IF j < i THEN s[j] ELSE IF j = i THEN e ELSE s[j - 1]
  <2> SUFFICES ASSUME NEW j \in 1 .. n + 1
               PROVE  (c \o b)[j] = IF j < i THEN s[j] ELSE IF j = i THEN e ELSE s[j - 1]
    OBVIOUS
  <2>1. CASE j <= i
    <3>1. j \in 1 .. i
      BY <1>1, <2>1
    <3>2. c[j] = IF j < i THEN s[j] ELSE e
      BY <1>4, <3>1 DEF c
    <3> QED
      BY <1>1, <1>5, <2>1, <3>2
  <2>2. CASE ~ (j <= i)
    BY <1>1, <1>5, <1>6, <2>2
  <2> QED
    BY <2>1, <2>2
<1>8. InsertAt(s, i, e) = c \o b
  BY DEF InsertAt, a, b, c, n
<1> QED
  BY <1>5, <1>7, <1>8 DEF n

(* The places the lower and the upper bound return are there, and part the    *)
(* keys.                                                                    *)
LEMMA BoundsThere ==
  ASSUME NEW entries, Len(entries) \in Nat, NEW key \in Int,
         \A i \in 1 .. Len(entries) : entries[i].key \in Int
  PROVE  /\ AtLeast(entries, key) \in 1 .. Len(entries) + 1
         /\ \A j \in 1 .. AtLeast(entries, key) - 1 : entries[j].key < key
         /\ AtLeast(entries, key) <= Len(entries) =>
              entries[AtLeast(entries, key)].key >= key
         /\ Above(entries, key) \in 1 .. Len(entries) + 1
         /\ \A j \in 1 .. Above(entries, key) - 1 : entries[j].key <= key
         /\ Above(entries, key) <= Len(entries) =>
              entries[Above(entries, key)].key > key
<1> DEFINE n == Len(entries)
           T == {i \in 1 .. n + 1 : i <= n => entries[i].key >= key}
           U == {i \in 1 .. n + 1 : i <= n => entries[i].key > key}
<1>1. /\ T \subseteq Nat /\ n + 1 \in T
      /\ U \subseteq Nat /\ n + 1 \in U
  OBVIOUS
<1>2. PICK t \in T : \A y \in T : t <= y
  <2> HIDE DEF T
  <2> QED
    BY <1>1, LeastNatural
<1>3. PICK u \in U : \A y \in U : u <= y
  <2> HIDE DEF U
  <2> QED
    BY <1>1, LeastNatural
<1>4. \A j \in 1 .. t - 1 : entries[j].key < key
  <2> SUFFICES ASSUME NEW j \in 1 .. t - 1 PROVE entries[j].key < key
    OBVIOUS
  <2>1. j \in 1 .. n /\ j < t
    BY <1>2
  <2>2. j \notin T
    BY <1>2, <2>1
  <2> QED
    BY <2>1, <2>2
<1>5. \A j \in 1 .. u - 1 : entries[j].key <= key
  <2> SUFFICES ASSUME NEW j \in 1 .. u - 1 PROVE entries[j].key <= key
    OBVIOUS
  <2>1. j \in 1 .. n /\ j < u
    BY <1>3
  <2>2. j \notin U
    BY <1>3, <2>1
  <2> QED
    BY <2>1, <2>2
<1> DEFINE Lower(i) == /\ \A j \in 1 .. i - 1 : entries[j].key < key
                       /\ i <= n => entries[i].key >= key
           Upper(i) == /\ \A j \in 1 .. i - 1 : entries[j].key <= key
                       /\ i <= n => entries[i].key > key
<1>6. AtLeast(entries, key) \in 1 .. n + 1 /\ Lower(AtLeast(entries, key))
  <2>1. t \in 1 .. n + 1 /\ Lower(t)
    BY <1>2, <1>4
  <2>2. AtLeast(entries, key) = CHOOSE i \in 1 .. n + 1 : Lower(i)
    BY DEF AtLeast
  <2> HIDE DEF Lower, n
  <2> QED
    BY <2>1, <2>2
<1>7. Above(entries, key) \in 1 .. n + 1 /\ Upper(Above(entries, key))
  <2>1. u \in 1 .. n + 1 /\ Upper(u)
    BY <1>3, <1>5
  <2>2. Above(entries, key) = CHOOSE i \in 1 .. n + 1 : Upper(i)
    BY DEF Above
  <2> HIDE DEF Upper, n
  <2> QED
    BY <2>1, <2>2
<1> QED
  BY <1>6, <1>7

LEMMA BuiltWhole ==
  ASSUME Typed, Apart, Unique, AllRowsKept,
         NEW s, s = [i \in DOMAIN index_data |-> Pair(index_data[i])]
  PROVE  s \in Seq(Entry) /\ Load(Competitor, s).entries = s
<1> DEFINE n == Len(index_data)
<1>1. PICK m \in 1 .. MaxRows : data \in [0 .. m - 1 -> Keys]
  BY DEF Typed
<1>2. /\ index_data \in Seq(DOMAIN data) /\ n \in Nat /\ DOMAIN index_data = 1 .. n
      /\ \A i \in 1 .. n : index_data[i] \in DOMAIN data
      /\ \A i, j \in 1 .. n : index_data[i] = index_data[j] => i = j
  BY DEF Apart, Theory!Distinct, Theory!NoRepeats
<1>3. s = [i \in 1 .. n |-> [key |-> data[index_data[i]], val |-> index_data[i]]]
  BY <1>2 DEF Pair
<1> HIDE DEF n
<1>4. s \in Seq(Entry) /\ DOMAIN s = 1 .. n
  <2>1. \A i \in 1 .. n : [key |-> data[index_data[i]], val |-> index_data[i]] \in Entry
    BY <1>1, <1>2 DEF Entry
  <2>2. s \in [1 .. n -> Entry]
    BY <1>3, <2>1
  <2>3. \A f \in [1 .. n -> Entry] : f \in Seq(Entry)
    BY <1>2
  <2> QED
    BY <2>2, <2>3
<1>5. ByValue(s, 1) = s
  <2>1. \A i \in DOMAIN s : s[i].val % 1 = 0
    <3> SUFFICES ASSUME NEW i \in 1 .. n PROVE s[i].val % 1 = 0
      BY <1>4
    <3>1. s[i].val \in DOMAIN data
      BY <1>2, <1>3
    <3>2. s[i].val \in Nat
      BY <1>1, <3>1
    <3> QED
      BY <3>2
  <2>2. {i \in DOMAIN s : s[i].val % 1 = 0} = DOMAIN s
    BY <2>1
  <2> QED
    BY <1>4, <2>2, AllPlaces DEF ByValue
<1>6. FirstOfKey(s) = s
  <2>1. \A i \in DOMAIN s : \A j \in 1 .. i - 1 : s[j].key # s[i].key
    <3> SUFFICES ASSUME NEW i \in 1 .. n, NEW j \in 1 .. i - 1, s[j].key = s[i].key
                 PROVE  FALSE
      BY <1>4
    <3>1. j \in 1 .. n /\ j # i
      BY <1>2
    <3>2. index_data[j] = index_data[i]
      BY <1>2, <1>3, <3>1 DEF Unique
    <3> QED
      BY <1>2, <3>1, <3>2
  <2>2. {i \in DOMAIN s : \A j \in 1 .. i - 1 : s[j].key # s[i].key} = DOMAIN s
    BY <2>1
  <2> QED
    BY <1>4, <2>2, AllPlaces DEF FirstOfKey
<1>7. Competitor.scale = 1 /\ Competitor.kind \in {"BTree", "ALEX", "PGM"}
  BY DEF AllRowsKept, Insertable
<1>8. CASE Competitor.kind = "BTree"
  BY <1>4, <1>5, <1>7, <1>8 DEF Load
<1>9. CASE Competitor.kind = "ALEX"
  BY <1>4, <1>5, <1>7, <1>9 DEF Load
<1>10. CASE Competitor.kind = "PGM"
  BY <1>4, <1>6, <1>7, <1>10 DEF Load
<1> QED
  BY <1>4, <1>7, <1>8, <1>9, <1>10

LEMMA IndexedBuild ==
  ASSUME Typed, Apart, FirstRun, Stays, Build
  PROVE  Indexed'
<1>1. /\ UNCHANGED <<data, schedule, lookups, write_portion, runNo, index_data,
                       insertion_data>>
      /\ pc = "build" /\ pc' = "dispatch"
  BY DEF Build, Goto, settings, session, partition
<1>2. (AllRowsKept /\ Unique)' <=> AllRowsKept /\ Unique
  BY <1>1 DEF AllRowsKept, Unique, Competitor
<1> SUFFICES ASSUME AllRowsKept, Unique PROVE Indexed'
  BY <1>2 DEF Indexed
<1> DEFINE s == [i \in DOMAIN index_data |-> Pair(index_data[i])]
<1>3. s \in Seq(Entry) /\ index'.entries = s
  BY BuiltWhole DEF Build
<1>4. /\ DOMAIN s = DOMAIN index_data
      /\ \A i \in DOMAIN index_data : s[i].key = data[index_data[i]] /\ s[i].val = index_data[i]
  BY DEF Pair
<1> HIDE DEF s
<1>5. /\ \A i, j \in DOMAIN index_data : index_data[i] = index_data[j] => i = j
      /\ ToSet(index_data) \cap ToSet(insertion_data) = {}
      /\ runNo = 1 => ToSet(index_data) \cup ToSet(insertion_data) = DOMAIN data
  BY <1>1, SamePartition DEF Apart, FirstRun
<1>6. Held' = ToSet(index_data)
  BY <1>3, <1>4 DEF Held, ToSet
<1>7. (index.entries \in Seq(Entry))'
  BY <1>1, <1>3 DEF Entry
<1>8. (\A i \in DOMAIN index.entries : index.entries[i].key = data[index.entries[i].val])'
  BY <1>1, <1>3, <1>4
<1>9. (\A i, j \in DOMAIN index.entries :
         index.entries[i].val = index.entries[j].val => i = j)'
  BY <1>3, <1>4, <1>5
<1>10. /\ (Held \cap ToSet(insertion_data) = {})'
       /\ (runNo = 1 => Held \cup ToSet(insertion_data) = DOMAIN data)'
  BY <1>1, <1>5, <1>6 DEF ToSet
<1>11. (\A i, j \in DOMAIN index.entries :
          i <= j => index.entries[i].key <= index.entries[j].key)'
  BY <1>1, <1>3, <1>4 DEF Stays
<1>12. (write_portion < Percent => Wanted \subseteq Held)'
  BY <1>1, <1>6 DEF Stays, Wanted
<1> QED
  BY <1>7, <1>8, <1>9, <1>10, <1>11, <1>12 DEF Indexed

LEMMA WritePlace ==
  ASSUME Typed, Apart, Indexed, Write, AllRowsKept, Unique
  PROVE  \E at \in 1 .. Len(index.entries) + 1 :
           LET e == Pair(Last(insertion_data)) IN
           /\ index'.entries = InsertAt(index.entries, at, e)
           /\ \A j \in 1 .. at - 1 : index.entries[j].key <= e.key
           /\ at <= Len(index.entries) => index.entries[at].key >= e.key
<1> DEFINE es == index.entries
           e == Pair(Last(insertion_data))
           at == AtLeast(es, e.key)
           above == Above(es, e.key)
<1>1. PICK m \in 1 .. MaxRows : data \in [0 .. m - 1 -> Keys]
  BY DEF Typed
<1>2. /\ insertion_data # <<>> /\ index' = InsertPair(Competitor, index, e)
      /\ pc = "loop"
  BY DEF Write, Serving
<1>3. Last(insertion_data) \in ToSet(insertion_data) /\ Last(insertion_data) \in DOMAIN data
  <2>1. insertion_data \in Seq(DOMAIN data) /\ insertion_data # <<>>
    BY <1>2 DEF Apart
  <2>2. Len(insertion_data) \in DOMAIN insertion_data
    BY <2>1
  <2> QED
    BY <2>1, <2>2 DEF Last, ToSet
<1>4. /\ es \in Seq(Entry) /\ Held \cap ToSet(insertion_data) = {}
      /\ \A i \in DOMAIN es : es[i].key = data[es[i].val] /\ es[i].val \in DOMAIN data
  <2>1. /\ es \in Seq(Entry) /\ Held \cap ToSet(insertion_data) = {}
        /\ \A i \in DOMAIN es : es[i].key = data[es[i].val]
    BY <1>2 DEF Indexed, Serviced
  <2>2. \A i \in DOMAIN es : es[i] \in Entry
    BY <2>1
  <2>3. \A i \in DOMAIN es : es[i].val \in DOMAIN data
    BY <2>2 DEF Entry
  <2> QED
    BY <2>1, <2>3
<1>5. e.key = data[Last(insertion_data)] /\ e.key \in Keys
  BY <1>1, <1>3 DEF Pair
<1>6. /\ at \in 1 .. Len(es) + 1
      /\ \A j \in 1 .. at - 1 : es[j].key <= e.key
      /\ at <= Len(es) => es[at].key >= e.key
      /\ above \in 1 .. Len(es) + 1
      /\ \A j \in 1 .. above - 1 : es[j].key <= e.key
      /\ above <= Len(es) => es[above].key >= e.key
  <2>1. Len(es) \in Nat /\ \A i \in 1 .. Len(es) : es[i].key \in Int
    <3>1. Len(es) \in Nat /\ \A i \in 1 .. Len(es) : es[i] \in Entry
      BY <1>4
    <3>2. \A x \in Entry : x.key \in Int
      BY DEF Entry, Keys
    <3> QED
      BY <3>1, <3>2
  <2>2. e.key \in Int
    BY <1>5 DEF Keys
  <2> DEFINE n == Len(es)
             key == e.key
  <2>3. \A j \in 1 .. n : es[j].key \in Int
    BY <2>1
  <2> HIDE DEF es, e, at, above
  <2>4. /\ at \in 1 .. n + 1 /\ above \in 1 .. n + 1
        /\ \A j \in 1 .. at - 1 : es[j].key < key
        /\ at <= n => es[at].key >= key
        /\ \A j \in 1 .. above - 1 : es[j].key <= key
        /\ above <= n => es[above].key > key
    BY <2>1, <2>2, BoundsThere DEF at, above
  <2>5. \A j \in 1 .. at - 1 : j \in 1 .. n
    BY <2>1, <2>4
  <2>6. above <= n => above \in 1 .. n
    BY <2>1, <2>4
  <2> QED
    BY <2>1, <2>2, <2>4, <2>5, <2>6
(* A key put aside is not in the index.                                     *)
<1>7. ~ (at <= Len(es) /\ es[at].key = e.key)
  <2> SUFFICES ASSUME at <= Len(es), es[at].key = e.key PROVE FALSE
    OBVIOUS
  <2>1. at \in DOMAIN es
    BY <1>4, <1>6
  <2>2. data[es[at].val] = data[Last(insertion_data)]
    BY <1>4, <1>5, <2>1
  <2>3. es[at].val = Last(insertion_data)
    BY <1>3, <1>4, <2>1, <2>2 DEF Unique
  <2>4. es[at].val \in Held
    BY <2>1 DEF Held
  <2> QED
    BY <1>3, <1>4, <2>3, <2>4
<1>8. index'.entries = Place(Competitor, index, e)
  BY <1>2 DEF InsertPair
<1>9. Competitor.kind \in {"BTree", "ALEX", "PGM"}
  BY DEF AllRowsKept, Insertable
<1> HIDE DEF e
<1>10. CASE Competitor.kind = "ALEX"
  <2>1. index'.entries = InsertAt(es, above, e)
    BY <1>8, <1>10 DEF Place
  <2> QED
    BY <1>6, <2>1 DEF e
<1>11. CASE Competitor.kind # "ALEX"
  <2>1. index'.entries = InsertAt(es, at, e)
    BY <1>7, <1>8, <1>11 DEF Place
  <2> QED
    BY <1>6, <2>1 DEF e
<1> QED
  BY <1>10, <1>11

(* The row at the end is no longer put aside.                                 *)
LEMMA LastTaken ==
  ASSUME Apart, Write
  PROVE  /\ ToSet(insertion_data') = ToSet(insertion_data) \ {Last(insertion_data)}
         /\ Last(insertion_data) \in ToSet(insertion_data)
<1> DEFINE m == Len(insertion_data)
           last == Last(insertion_data)
<1>1. insertion_data' = Front(insertion_data) /\ insertion_data # <<>>
  BY DEF Write
<1>2. /\ insertion_data \in Seq(DOMAIN data) /\ m \in Nat /\ m > 0
      /\ DOMAIN insertion_data = 1 .. m
      /\ \A i, j \in 1 .. m : insertion_data[i] = insertion_data[j] => i = j
  BY <1>1, SamePartition DEF Apart
<1>3. /\ last = insertion_data[m] /\ last \in ToSet(insertion_data)
      /\ m \in 1 .. m
  BY <1>2 DEF Last, ToSet
<1>4. ToSet(insertion_data') = ToSet(insertion_data) \ {last}
  <2>1. /\ DOMAIN insertion_data' = 1 .. m - 1
        /\ \A i \in 1 .. m - 1 : insertion_data'[i] = insertion_data[i]
    BY <1>1, <1>2 DEF Front
  <2>2. 1 .. m = (1 .. m - 1) \cup {m} /\ m \notin 1 .. m - 1
    BY <1>2
  <2> HIDE DEF m, last
  <2>3. \A i \in 1 .. m - 1 : insertion_data[i] # last
    BY <1>2, <1>3, <2>2
  <2>4. ToSet(insertion_data') = {insertion_data[i] : i \in 1 .. m - 1}
    BY <2>1 DEF ToSet
  <2>5. ToSet(insertion_data) = {insertion_data[i] : i \in 1 .. m - 1} \cup {last}
    <3>1. ToSet(insertion_data) = {insertion_data[i] : i \in 1 .. m}
      BY <1>2 DEF ToSet
    <3>2. {insertion_data[i] : i \in 1 .. m}
            = {insertion_data[i] : i \in 1 .. m - 1} \cup {insertion_data[m]}
      BY <2>2
    <3> QED
      BY <1>3, <3>1, <3>2
  <2> QED
    BY <2>3, <2>4, <2>5
<1> QED
  BY <1>3, <1>4

LEMMA IndexedWrite ==
  ASSUME Typed, Apart, Indexed, Write
  PROVE  /\ Indexed'
         /\ AllRowsKept /\ Unique => Held' = Held \cup {Last(insertion_data)}
<1>1. /\ UNCHANGED <<data, schedule, runNo, lookups, write_portion>>
      /\ pc = "loop" /\ pc' = "loop"
      /\ insertion_data' = Front(insertion_data) /\ insertion_data # <<>>
  BY DEF Write, Serving, settings, session
<1>2. (AllRowsKept /\ Unique)' <=> AllRowsKept /\ Unique
  BY <1>1 DEF AllRowsKept, Unique, Competitor
<1> SUFFICES ASSUME AllRowsKept, Unique
             PROVE  Indexed' /\ Held' = Held \cup {Last(insertion_data)}
  BY <1>2 DEF Indexed
<1> DEFINE es == index.entries
           n == Len(es)
           m == Len(insertion_data)
           last == Last(insertion_data)
           e == Pair(last)
<1>3. /\ es \in Seq(Entry)
      /\ \A i \in DOMAIN es : es[i].key = data[es[i].val]
      /\ \A i, j \in DOMAIN es : es[i].val = es[j].val => i = j
      /\ Held \cap ToSet(insertion_data) = {}
      /\ runNo = 1 => Held \cup ToSet(insertion_data) = DOMAIN data
      /\ \A i, j \in DOMAIN es : i <= j => es[i].key <= es[j].key
      /\ write_portion < Percent => Wanted \subseteq Held
  BY <1>1 DEF Indexed, Serviced
<1>4. /\ insertion_data \in Seq(DOMAIN data) /\ m \in Nat /\ m > 0
      /\ DOMAIN insertion_data = 1 .. m
      /\ \A i, j \in 1 .. m : insertion_data[i] = insertion_data[j] => i = j
  BY <1>1, SamePartition DEF Apart
<1>5. /\ last = insertion_data[m] /\ last \in ToSet(insertion_data) /\ last \in DOMAIN data
      /\ m \in 1 .. m
  BY <1>4 DEF Last, ToSet
<1>6. ToSet(insertion_data') = ToSet(insertion_data) \ {last}
  BY LastTaken
<1>7. e \in Entry /\ e.val = last /\ e.key = data[last]
  <2>1. PICK k \in 1 .. MaxRows : data \in [0 .. k - 1 -> Keys]
    BY DEF Typed
  <2> HIDE DEF last
  <2> QED
    BY <1>5, <2>1 DEF Pair, Entry
<1>8. PICK at \in 1 .. n + 1 :
        /\ index'.entries = InsertAt(es, at, e)
        /\ \A j \in 1 .. at - 1 : es[j].key <= e.key
        /\ at <= n => es[at].key >= e.key
  BY WritePlace
<1> DEFINE new == index'.entries
<1> HIDE DEF es, n, m, last, e, new
<1>9. /\ n \in Nat /\ DOMAIN es = 1 .. n /\ n = Len(es) /\ at \in Nat
  BY <1>3 DEF n
<1>10. /\ new \in Seq(Entry) /\ DOMAIN new = 1 .. n + 1
       /\ \A j \in 1 .. n + 1 :
            new[j] = IF j < at THEN es[j] ELSE IF j = at THEN e ELSE es[j - 1]
  <2>1. /\ InsertAt(es, at, e) \in Seq(Entry) /\ Len(InsertAt(es, at, e)) = n + 1
        /\ \A j \in 1 .. n + 1 :
             InsertAt(es, at, e)[j] = IF j < at THEN es[j] ELSE IF j = at THEN e ELSE es[j - 1]
    <3>1. es \in Seq(Entry) /\ e \in Entry /\ at \in 1 .. Len(es) + 1
      BY <1>3, <1>7, <1>9
    <3> QED
      BY <1>9, <3>1, Inserted
  <2>2. new = InsertAt(es, at, e)
    BY <1>8 DEF new
  <2>3. DOMAIN new = 1 .. Len(new)
    BY <2>1, <2>2
  <2> QED
    BY <2>1, <2>2, <2>3
(* Every other entry stands where it stood, or one further on.               *)
<1> DEFINE old(j) == IF j < at THEN j ELSE j - 1
<1>11. /\ \A j \in 1 .. n + 1 : j # at => old(j) \in 1 .. n /\ new[j] = es[old(j)]
       /\ \A j, k \in 1 .. n + 1 : j # at /\ k # at /\ old(j) = old(k) => j = k
       /\ \A j, k \in 1 .. n + 1 : j <= k /\ j # at /\ k # at => old(j) <= old(k)
       /\ \A j \in 1 .. n + 1 : j < at => old(j) < at
       /\ \A j \in 1 .. n + 1 : j > at => old(j) >= at
       /\ \A i \in 1 .. n : \E j \in 1 .. n + 1 : j # at /\ old(j) = i
       /\ new[at] = e
  <2>1. ASSUME NEW j \in 1 .. n + 1, j # at
        PROVE  old(j) \in 1 .. n /\ new[j] = es[old(j)]
    BY <1>9, <1>10, <2>1
  <2>2. ASSUME NEW i \in 1 .. n
        PROVE  \E j \in 1 .. n + 1 : j # at /\ old(j) = i
    <3>1. CASE i < at
      <4>1. i \in 1 .. n + 1 /\ i # at /\ old(i) = i
        BY <1>9, <3>1
      <4> QED
        BY <4>1
    <3>2. CASE ~ (i < at)
      <4>1. i + 1 \in 1 .. n + 1 /\ i + 1 # at /\ old(i + 1) = i
        BY <1>9, <3>2
      <4> QED
        BY <4>1
    <3> QED
      BY <3>1, <3>2
  <2>3. \A j, k \in 1 .. n + 1 : j # at /\ k # at /\ old(j) = old(k) => j = k
    BY <1>9
  <2>4. new[at] = e
    BY <1>9, <1>10
  <2>5. \A j, k \in 1 .. n + 1 : j <= k /\ j # at /\ k # at => old(j) <= old(k)
    BY <1>9
  <2>6. /\ \A j \in 1 .. n + 1 : j < at => old(j) < at
        /\ \A j \in 1 .. n + 1 : j > at => old(j) >= at
    BY <1>9
  <2> QED
    BY <2>1, <2>2, <2>3, <2>4, <2>5, <2>6
<1> HIDE DEF old
<1>12. Held' = Held \cup {last}
  <2>1. Held' = {new[j].val : j \in 1 .. n + 1}
    BY <1>10 DEF Held, new
  <2>2. Held = {es[i].val : i \in 1 .. n}
    BY <1>9 DEF Held, es
  <2>3. \A j \in 1 .. n + 1 : new[j].val \in Held \cup {last}
    BY <1>7, <1>11, <2>2
  <2>4. \A i \in 1 .. n : \E j \in 1 .. n + 1 : new[j].val = es[i].val
    BY <1>11
  <2>5. last \in Held'
    BY <1>7, <1>11, <2>1
  <2>6. Held' \subseteq Held \cup {last}
    BY <2>1, <2>3
  <2>7. Held \subseteq Held'
    <3> SUFFICES ASSUME NEW i \in 1 .. n PROVE es[i].val \in Held'
      BY <2>2
    <3>1. PICK j \in 1 .. n + 1 : new[j].val = es[i].val
      BY <2>4
    <3> QED
      BY <2>1, <3>1
  <2> QED
    BY <2>5, <2>6, <2>7
<1>13. last \notin Held
  BY <1>3, <1>5
<1>14. (index.entries \in Seq(Entry))'
  BY <1>1, <1>10 DEF Entry, new
<1>15. \A j \in 1 .. n + 1 : new[j].key = data[new[j].val]
  BY <1>3, <1>7, <1>9, <1>11
<1>16. \A j, k \in 1 .. n + 1 : new[j].val = new[k].val => j = k
  <2> SUFFICES ASSUME NEW j \in 1 .. n + 1, NEW k \in 1 .. n + 1, new[j].val = new[k].val
               PROVE  j = k
    OBVIOUS
  <2>1. \A i \in 1 .. n : es[i].val # last
    BY <1>9, <1>13 DEF Held, es
  <2>2. CASE j # at /\ k # at
    BY <1>3, <1>9, <1>11, <2>2
  <2>3. CASE j = at /\ k # at
    BY <1>7, <1>11, <2>1, <2>3
  <2>4. CASE j # at /\ k = at
    BY <1>7, <1>11, <2>1, <2>4
  <2> QED
    BY <2>2, <2>3, <2>4
<1>17. /\ Held' \cap ToSet(insertion_data') = {}
       /\ runNo = 1 => Held' \cup ToSet(insertion_data') = DOMAIN data
  BY <1>3, <1>5, <1>6, <1>12
<1>18. /\ (Held \cap ToSet(insertion_data) = {})'
       /\ (runNo = 1 => Held \cup ToSet(insertion_data) = DOMAIN data)'
  BY <1>1, <1>17 DEF ToSet
<1>19. \A i \in 1 .. n : /\ es[i].key \in Nat
                         /\ i < at => es[i].key <= e.key
                         /\ i >= at => e.key <= es[i].key
  <2> SUFFICES ASSUME NEW i \in 1 .. n
               PROVE  /\ es[i].key \in Nat
                      /\ i < at => es[i].key <= e.key
                      /\ i >= at => e.key <= es[i].key
    OBVIOUS
  <2>1. \A x \in Entry : x.key \in Nat
    BY DEF Entry, Keys
  <2>2. es[i] \in Entry /\ es[i].key \in Nat /\ e.key \in Nat
    BY <1>3, <1>7, <1>9, <2>1
  <2>3. i < at => es[i].key <= e.key
    <3>1. i < at => i \in 1 .. at - 1
      BY <1>9
    <3> QED
      BY <1>8, <3>1
  <2>4. i >= at => e.key <= es[i].key
    <3> SUFFICES ASSUME i >= at PROVE e.key <= es[i].key
      OBVIOUS
    <3>1. at \in 1 .. n /\ at <= n /\ at <= i
      BY <1>9
    <3>2. es[at].key >= e.key
      BY <1>8, <3>1
    <3>3. es[at].key <= es[i].key
      BY <1>3, <1>9, <3>1, Zenon
    <3>4. es[at] \in Entry
      BY <1>3, <1>9, <3>1
    <3>5. es[at].key \in Nat
      BY <2>1, <3>4
    <3> QED
      BY <2>2, <3>2, <3>3, <3>5
  <2> QED
    BY <2>2, <2>3, <2>4
<1>20. \A j, k \in 1 .. n + 1 : j <= k => new[j].key <= new[k].key
  <2> SUFFICES ASSUME NEW j \in 1 .. n + 1, NEW k \in 1 .. n + 1, j <= k
               PROVE  new[j].key <= new[k].key
    OBVIOUS
  <2>1. CASE j # at /\ k # at
    <3>1. /\ new[j] = es[old(j)] /\ new[k] = es[old(k)] /\ old(j) <= old(k)
          /\ old(j) \in 1 .. n /\ old(k) \in 1 .. n
      BY <1>11, <2>1
    <3> QED
      BY <1>3, <1>9, <3>1
  <2>2. CASE j = at /\ k # at
    <3>1. k > at
      BY <1>9, <2>2
    <3>2. new[j] = e /\ new[k] = es[old(k)] /\ old(k) \in 1 .. n /\ old(k) >= at
      BY <1>11, <2>2, <3>1
    <3> QED
      BY <1>19, <3>2
  <2>3. CASE j # at /\ k = at
    <3>1. j < at
      BY <1>9, <2>3
    <3>2. new[k] = e /\ new[j] = es[old(j)] /\ old(j) \in 1 .. n /\ old(j) < at
      BY <1>11, <2>3, <3>1
    <3> QED
      BY <1>19, <3>2
  <2>4. CASE j = at /\ k = at
    <3>1. new[j] = e /\ new[k] = e /\ e.key \in Nat
      BY <1>7, <1>11, <2>4 DEF Entry, Keys
    <3> QED
      BY <3>1
  <2> QED
    BY <2>1, <2>2, <2>3, <2>4
<1>21. (write_portion < Percent => Wanted \subseteq Held)'
  BY <1>1, <1>3, <1>12 DEF Wanted
<1> QED
  BY <1>1, <1>10, <1>14, <1>15, <1>16, <1>18, <1>20, <1>21, <1>12 DEF Indexed, new, last

LEMMA IndexedStep ==
  ASSUME Typed, Apart, FirstRun, Stays, Indexed, [Next]_vars
  PROVE  Indexed'
<1>1. data' = data
  BY SameInputs
<1>2. CASE ~Serviced'
  BY <1>2 DEF Indexed
<1>3. ASSUME Serviced, UNCHANGED <<schedule, runNo, index, insertion_data, lookups, write_portion>>
      PROVE  Indexed'
  <2>1. (AllRowsKept /\ Unique)' <=> AllRowsKept /\ Unique
    BY <1>1, <1>3 DEF AllRowsKept, Unique, Competitor
  <2>2. Held' = Held /\ Entry' = Entry /\ Wanted' = Wanted
        /\ ToSet(insertion_data)' = ToSet(insertion_data)
    BY <1>1, <1>3 DEF Held, Entry, ToSet, Wanted
  <2> QED
    BY <1>1, <1>3, <2>1, <2>2 DEF Indexed
<1>4. CASE UNCHANGED vars
  <2>1. Serviced' <=> Serviced
    BY <1>4 DEF vars, Serviced
  <2> QED
    BY <1>2, <1>3, <1>4, <2>1 DEF vars, settings, session, partition
<1>5. ASSUME \/ ParseOptions \/ Construct \/ NotApplicable \/ Begin \/ PutAside
             \/ Refuse \/ EndErrors \/ EndRepeats \/ NotFoundInMap \/ ReadStray
             \/ WriteRefused \/ PrintResult \/ PrintNothing \/ Exit
      PROVE  ~Serviced'
  <2>1. CASE PutAside
    <3>1. Theory!IInv' /\ Theory!Step
      BY <2>1, PartitionStep
    <3> QED
      BY <3>1 DEF Theory!IInv, Theory!TypeOK, Serviced
  <2>2. CASE ParseOptions \/ Construct \/ NotApplicable \/ Begin \/ Refuse \/ EndErrors
    BY <2>2 DEF ParseOptions, Construct, NotApplicable, Begin, Refuse, EndErrors,
       NextCompetitor, Goto, Fail, Serviced
  <2>3. CASE \/ EndRepeats \/ NotFoundInMap \/ ReadStray \/ WriteRefused
             \/ PrintResult \/ PrintNothing \/ Exit
    BY <2>3 DEF EndRepeats, NotFoundInMap, ReadStray, WriteRefused, PrintResult,
       PrintNothing, Exit, NextCompetitor, Goto, Fail, Serviced
  <2> QED
    BY <1>5, <2>1, <2>2, <2>3
<1>6. ASSUME \/ StartErrors \/ TrackError \/ StartLookups \/ Repeat \/ Batch
             \/ EndLoop \/ Timed \/ Read \/ ColdRead
      PROVE  Serviced /\ UNCHANGED <<schedule, runNo, index, insertion_data, lookups, write_portion>>
  BY <1>6 DEF StartErrors, TrackError, StartLookups, Repeat, Batch, EndLoop, Timed,
     Read, ColdRead, Serving, settings, session, partition, Serviced
<1> QED
  BY <1>2, <1>3, <1>4, <1>5, <1>6, IndexedBuild, IndexedWrite
     DEF Next, Step, Terminated

(***************************************************************************)
(* While requests are served with a B+ tree, ALEX or the PGM index at scale 1   *)
(* and no two rows share a key, every entry is in the index once or still put   *)
(* aside, never both; in the first Run none is missing: building the index from *)
(* what the partition left, and inserting from the end of what it put aside,   *)
(* together neither lose nor double an entry.                                *)
(***************************************************************************)
THEOREM NoEntryLost == Spec => []EntriesConserved
<1> DEFINE EInv == Aside /\ Prepared /\ Stays /\ Indexed
<1>1. Init => EInv
  BY AsideInvariant, InitPrepared, InitStays DEF Init, Indexed, Serviced
<1>2. EInv /\ [Next]_vars => EInv'
  BY AsideInvariant, PreparedStep, StaysStep, IndexedStep DEF Aside
<1>3. ASSUME EInv PROVE EntriesConserved
  <2> SUFFICES ASSUME pc = "loop", AllRowsKept, Unique
               PROVE  /\ Held \cap ToSet(insertion_data) = {}
                      /\ Cardinality(Held) = Len(index.entries)
                      /\ runNo = 1 => Held \cup ToSet(insertion_data) = DOMAIN data
    BY DEF EntriesConserved
  <2> DEFINE es == index.entries
             n == Len(es)
             f == [i \in 1 .. n |-> es[i].val]
  <2>1. /\ es \in Seq(Entry) /\ Held \cap ToSet(insertion_data) = {}
        /\ \A i, j \in DOMAIN es : es[i].val = es[j].val => i = j
        /\ runNo = 1 => Held \cup ToSet(insertion_data) = DOMAIN data
    BY <1>3 DEF Indexed, Serviced
  <2>2. n \in Nat /\ DOMAIN es = 1 .. n
    BY <2>1
  <2>3. f \in Bijection(1 .. n, Held)
    <3>1. Held = {es[i].val : i \in 1 .. n}
      BY <2>2 DEF Held
    <3> HIDE DEF es, n
    <3>2. f \in [1 .. n -> Held]
      BY <3>1
    <3>3. \A i, j \in 1 .. n : f[i] = f[j] => i = j
      BY <2>1, <2>2
    <3>4. \A t \in Held : \E i \in 1 .. n : f[i] = t
      BY <3>1
    <3> QED
      BY <3>2, <3>3, <3>4 DEF Bijection, Injection, Surjection, IsInjective
  <2>4. ExistsBijection(1 .. n, Held)
    BY <2>3 DEF ExistsBijection
  <2>5. IsFiniteSet(1 .. n) /\ Cardinality(1 .. n) = n
    <3>1. 1 \in Int /\ n \in Int
      BY <2>2
    <3>2. IsFiniteSet(1 .. n) /\ Cardinality(1 .. n) = IF 1 > n THEN 0 ELSE n - 1 + 1
      BY <3>1, FS_Interval
    <3> HIDE DEF n
    <3> QED
      BY <2>2, <3>2
  <2>6. Cardinality(Held) = n
    <3> HIDE DEF n
    <3> QED
      BY <2>4, <2>5, FS_Bijection
  <2> QED
    BY <2>1, <2>6
<1> HIDE DEF EInv
<1> QED
  BY <1>1, <1>2, <1>3, PTL DEF Spec

-----------------------------------------------------------------------------
(* Answers: the data, the windows of the competitors and the last-mile search. *)
(* A window that holds the first row of a key is searched right, on the warm   *)
(* path and by every search of the cold one.                                *)
LEMMA RightWindow ==
  ASSUME Typed, Sorted, NEW key \in Keys, NEW f \in DOMAIN data, data[f] = key,
         \A q \in DOMAIN data : q < f => data[q] # key,
         NEW w, w.start \in Nat, w.stop \in Nat,
         w.start <= f, f <= w.stop, w.stop <= Size
  PROVE  /\ WarmRows(key, w) = MatchingRows(key)
         /\ PromisedRows(key, w) = {MatchingRows(key)}
<1>1. /\ Size \in Nat /\ f \in Nat /\ f < Size /\ key \in Nat
      /\ DOMAIN data = 0 .. Size - 1
      /\ \A p \in 0 .. Size - 1 : data[p] \in Nat
  BY SizeOfData DEF Keys
<1>2. \A q \in 0 .. Size - 1 : q < f => data[q] < key
  <2> SUFFICES ASSUME NEW q \in 0 .. Size - 1, q < f PROVE data[q] < key
    OBVIOUS
  <2>1. data[q] <= data[f]
    BY <1>1 DEF Sorted
  <2>2. data[q] # key /\ data[q] \in Nat
    BY <1>1
  <2> QED
    BY <1>1, <2>1, <2>2
<1>3. Lesser(w.stop, Size) = w.stop
  BY <1>1 DEF Lesser
<1>4. At(key, w)!LowerBound(w.start, w.stop) = f
  <2> DEFINE Bound(p) == /\ \A q \in w.start .. p - 1 : data[q] < key
                         /\ p = w.stop \/ data[p] >= key
  <2>1. f \in w.start .. w.stop /\ Bound(f)
    BY <1>1, <1>2
  <2>2. ASSUME NEW p \in w.start .. w.stop, Bound(p) PROVE p = f
    <3>1. ~ (f < p)
      <4>1. f < p => data[f] < key
        BY <1>1, <2>2
      <4> QED
        BY <1>1, <4>1
    <3>2. ~ (p < f)
      <4>1. p < f => p # w.stop /\ data[p] < key /\ data[p] \in Nat
        BY <1>1, <1>2
      <4> QED
        BY <1>1, <2>2, <4>1
    <3> QED
      BY <1>1, <3>1, <3>2
  <2>3. (CHOOSE p \in w.start .. w.stop : Bound(p)) = f
    BY <2>1, <2>2
  <2>4. ~ (w.stop < w.start)
    BY <1>1
  <2> QED
    BY <2>3, <2>4 DEF At!LowerBound
<1>5. \A p \in MatchingRows(key) : p >= f
  BY <1>1 DEF MatchingRows
<1>6. WarmRows(key, w) = MatchingRows(key)
  BY <1>1, <1>3, <1>4, <1>5 DEF WarmRows
<1>7. At(key, w)!Covered
  <2>1. At(key, w)!Matching = MatchingRows(key)
    BY <1>1 DEF At!Matching, At!Rows, MatchingRows
  <2>2. f \in w.start .. w.stop /\ f \in MatchingRows(key)
    BY <1>1 DEF MatchingRows
  <2>3. \A q \in MatchingRows(key) : f <= q
    BY <1>5
  <2> QED
    BY <2>1, <2>2, <2>3 DEF At!Covered, At!FirstMatch
<1>8. PromisedRows(key, w) = {MatchingRows(key)}
  BY <1>7 DEF PromisedRows
<1> QED
  BY <1>6, <1>8

LEMMA AbsentKey ==
  ASSUME NEW key, MatchingRows(key) = {}, NEW w
  PROVE  WarmRows(key, w) = {} /\ PromisedRows(key, w) = {{}}
<1>1. WarmRows(key, w) \subseteq MatchingRows(key)
  BY DEF WarmRows
<1>2. PromisedRows(key, w) = {{}}
  BY DEF PromisedRows
<1> QED
  BY <1>1, <1>2
-----------------------------------------------------------------------------
(* The competitors' own proof is about one of them built over a whole dataset, *)
(* which is what each is in a Run that puts nothing aside.  It is cited for the  *)
(* competitor, the data and any key and window.                              *)
HIDE BenchmarkAssumption

Wrapped == INSTANCE WrapperProofs WITH
             Trials <- {}, competitor <- Competitor,
             keys <- [i \in 1 .. Size |-> data[i - 1]],
             lookup_key <- 0, bound <- Window(0, 0)

LEMMA SameLoad ==
  ASSUME NEW c, NEW s
  PROVE  Wrapped!Load(c, s) = Load(c, s)
<1>1. \A t, P : Wrapped!PairsAt(t, P) = PairsAt(t, P)
  BY DEF Wrapped!PairsAt, PairsAt, Wrapped!Rank, Rank, Wrapped!Cardinality, Cardinality
<1>2. /\ \A t, sc : Wrapped!ByValue(t, sc) = ByValue(t, sc)
      /\ \A t, sc : Wrapped!ByPlace(t, sc) = ByPlace(t, sc)
      /\ \A t, sc : Wrapped!WithLast(t, sc) = WithLast(t, sc)
      /\ \A t : Wrapped!FirstOfKey(t) = FirstOfKey(t)
      /\ \A t : Wrapped!LastOfKey(t) = LastOfKey(t)
  BY <1>1 DEF Wrapped!ByValue, ByValue, Wrapped!ByPlace, ByPlace, Wrapped!WithLast,
     WithLast, Wrapped!FirstOfKey, FirstOfKey, Wrapped!LastOfKey, LastOfKey
<1>3. \A t, sc : Wrapped!ArtPairs(t, sc) = ArtPairs(t, sc)
  BY <1>1, <1>2, Zenon DEF Wrapped!ArtPairs, ArtPairs
<1> QED
  BY <1>2, <1>3 DEF Wrapped!Load, Load

LEMMA SameWindows ==
  ASSUME NEW c, c.kind \in Kinds, NEW ix, NEW key
  PROVE  /\ Wrapped!Windows(c, ix, key) = Windows(c, ix, key)
         /\ \A u : Wrapped!Applicable(c, u) <=> Applicable(c, u)
<1>1. /\ \A e, k : Wrapped!AtLeast(e, k) = AtLeast(e, k)
      /\ \A g, er : Wrapped!Below(g, er) = Below(g, er)
      /\ \A a, b : Wrapped!Window(a, b) = Window(a, b)
      /\ \A k : Wrapped!Predecessor(k) = Predecessor(k)
      /\ Wrapped!Garbage = Garbage
      /\ Wrapped!HashMap(c) <=> HashMap(c)
  BY DEF Wrapped!AtLeast, AtLeast, Wrapped!Below, Below, Wrapped!Window, Window,
     Wrapped!Predecessor, Predecessor, Wrapped!Garbage, Garbage, Wrapped!HashMap, HashMap
<1>h. Wrapped!HashWindows(c, ix, key) = HashWindows(c, ix, key)
  BY <1>1 DEF Wrapped!HashWindows, HashWindows, Wrapped!Stored, Stored,
              Wrapped!Sentinel, Sentinel
<1>2. \A er : Wrapped!Backwards(ix, key, er) = Backwards(ix, key, er)
  BY <1>1 DEF Wrapped!Backwards, Backwards, Wrapped!Guess, Guess
<1>3. \A sc : Wrapped!IBTreeWindows(ix, key, sc) = IBTreeWindows(ix, key, sc)
  BY <1>1 DEF Wrapped!IBTreeWindows, IBTreeWindows
<1>4. \A sc : Wrapped!FSTWindows(ix, key, sc) = FSTWindows(ix, key, sc)
  BY <1>1 DEF Wrapped!FSTWindows, FSTWindows, Wrapped!FSTWindow, FSTWindow
<1>5. Wrapped!WormholeWindows(ix, key) = WormholeWindows(ix, key)
  BY <1>1 DEF Wrapped!WormholeWindows, WormholeWindows
<1>6. Wrapped!Windows(c, ix, key) = Windows(c, ix, key)
  <2>1. CASE c.kind = "BS"
    BY <1>1, <2>1 DEF Wrapped!Windows, Windows, Wrapped!HashMap, HashMap
  <2>2. CASE c.kind \in {"BTree", "ALEX", "ART"}
    BY <1>2, <2>2 DEF Wrapped!Windows, Windows, Wrapped!HashMap, HashMap
  <2>3. CASE c.kind = "PGM"
    BY <1>2, <2>3 DEF Wrapped!Windows, Windows, Wrapped!HashMap, HashMap
  <2>4. CASE c.kind = "IBTree"
    BY <1>3, <2>4 DEF Wrapped!Windows, Windows, Wrapped!HashMap, HashMap
  <2>5. CASE c.kind \in {"RobinHash", "CuckooMap"}
    BY <1>h, <2>5 DEF Wrapped!Windows, Windows, Wrapped!HashMap, HashMap
  <2>6. CASE c.kind = "FST"
    BY <1>4, <2>6 DEF Wrapped!Windows, Windows, Wrapped!HashMap, HashMap
  <2>7. CASE c.kind = "Wormhole"
    BY <1>5, <2>7 DEF Wrapped!Windows, Windows, Wrapped!HashMap, HashMap
  <2> QED
    BY <2>1, <2>2, <2>3, <2>4, <2>5, <2>6, <2>7 DEF Kinds
<1> QED
  BY <1>6 DEF Wrapped!Applicable, Applicable

(* The pairs Build is given if no entry is put aside.                         *)
AllPairs == [i \in 1 .. Size |-> Pair(i - 1)]

(* What WrapperProofs proves of the window for a key of the data, in the words  *)
(* of this module.                                                          *)
LEMMA WindowOfRow ==
  ASSUME Typed, Sorted, NEW c \in Competitors, Applicable(c, Unique),
         NEW f \in DOMAIN data, \A q \in DOMAIN data : q < f => data[q] # data[f],
         c.kind = "Wormhole" =>
           data[f] > 0 /\ Len(Load(c, AllPairs).entries) >= 2,
         c.kind = "CuckooMap" => Unique,
         NEW w \in Windows(c, Load(c, AllPairs), data[f])
  PROVE  /\ w.start \in Nat /\ w.stop \in Nat
         /\ w.start <= f /\ f <= w.stop /\ w.stop <= Size
<1> DEFINE ks == [i \in 1 .. Size |-> data[i - 1]]
<1>1. /\ Size \in Nat /\ 1 <= Size /\ Size <= MaxRows /\ DOMAIN data = 0 .. Size - 1
      /\ \A p \in 0 .. Size - 1 : data[p] \in 0 .. KeyRange - 1
  BY SizeOfData DEF Keys
<1>3. /\ DOMAIN ks = 1 .. Size /\ Len(ks) = Size /\ ks \in Seq(0 .. KeyRange - 1)
      /\ \A i \in 1 .. Size : i - 1 \in 0 .. Size - 1 /\ ks[i] = data[i - 1]
      /\ \A p \in 0 .. Size - 1 : p + 1 \in 1 .. Size /\ ks[p + 1] = data[p]
  <2>1. \A i \in 1 .. Size : i - 1 \in 0 .. Size - 1
    BY <1>1
  <2>2. ks \in [1 .. Size -> 0 .. KeyRange - 1]
    BY <1>1, <2>1
  <2>3. ASSUME NEW S, NEW m \in Nat, NEW g \in [1 .. m -> S]
        PROVE  g \in Seq(S) /\ Len(g) = m
    OBVIOUS
  <2>4. \A p \in 0 .. Size - 1 : p + 1 \in 1 .. Size /\ ks[p + 1] = data[p]
    BY <1>1
  <2> QED
    BY <1>1, <2>1, <2>2, <2>3, <2>4
<1>4. Wrapped!PairsOf(ks) = AllPairs
  BY <1>3 DEF Wrapped!PairsOf, AllPairs, Pair
<1> HIDE DEF ks
<1>5. Wrapped!Dataset(ks)
  <2>1. \A i, j \in 1 .. Size : i <= j => ks[i] <= ks[j]
    <3> SUFFICES ASSUME NEW i \in 1 .. Size, NEW j \in 1 .. Size, i <= j
                 PROVE  ks[i] <= ks[j]
      OBVIOUS
    <3>1. i - 1 <= j - 1
      BY <1>1
    <3>2. i - 1 \in DOMAIN data /\ j - 1 \in DOMAIN data
      BY <1>1, <1>3
    <3>3. data[i - 1] <= data[j - 1]
      BY <3>1, <3>2, Zenon DEF Sorted
    <3> QED
      BY <1>3, <3>3
  <2>2. Size \in 1 .. RowRange - 1
    BY <1>1, BenchmarkAssumption
  <2>3. ks \in Seq(Wrapped!KeyType)
    BY <1>3 DEF Wrapped!KeyType
  <2>4. KeyRange \in Nat /\ RowRange \in Nat
    BY BenchmarkAssumption
  <2> QED
    BY <1>3, <2>1, <2>2, <2>3, <2>4 DEF Wrapped!Dataset
<1>6. Wrapped!Distinct(ks) <=> Unique
  <2>1. ASSUME Unique, NEW i \in 1 .. Size, NEW j \in 1 .. Size, ks[i] = ks[j]
        PROVE  i = j
    <3>1. i - 1 \in DOMAIN data /\ j - 1 \in DOMAIN data
          /\ data[i - 1] = data[j - 1]
      BY <1>1, <1>3, <2>1
    <3>2. i - 1 = j - 1
      BY <2>1, <3>1, Zenon DEF Unique
    <3> QED
      BY <1>1, <3>2
  <2>2. ASSUME \A i, j \in 1 .. Size : ks[i] = ks[j] => i = j,
               NEW p \in 0 .. Size - 1, NEW q \in 0 .. Size - 1, data[p] = data[q]
        PROVE  p = q
    <3>1. p + 1 = q + 1
      BY <1>3, <2>2
    <3> QED
      BY <1>1, <3>1
  <2> QED
    BY <1>1, <1>3, <2>1, <2>2 DEF Wrapped!Distinct, Unique
<1>7. Wrapped!FirstOf(ks, f) /\ ks[f + 1] = data[f]
  <2>1. f \in 0 .. Size - 1 /\ Len(ks) = Size
    BY <1>1, <1>3
  <2>2. \A q \in 0 .. f - 1 : q \in 0 .. Size - 1 /\ q < f
    BY <1>1, <2>1
  <2>3. \A q \in 0 .. f - 1 : ks[q + 1] = data[q] /\ data[q] # data[f]
    BY <1>1, <1>3, <2>2
  <2>4. ks[f + 1] = data[f]
    BY <1>3, <2>1
  <2> QED
    BY <2>1, <2>3, <2>4 DEF Wrapped!FirstOf
<1>8. /\ c \in Wrapped!Competitors /\ c.kind \in Kinds
      /\ Wrapped!Applicable(c, Wrapped!Distinct(ks))
      /\ Wrapped!Load(c, Wrapped!PairsOf(ks)) = Load(c, AllPairs)
      /\ w \in Wrapped!Windows(c, Wrapped!Load(c, Wrapped!PairsOf(ks)), ks[f + 1])
  <2>1. c \in Wrapped!Competitors /\ c.kind \in Kinds
    BY DEF Competitors, Wrapped!Competitors, Kinds, Wrapped!Kinds
  <2>2. Wrapped!Load(c, Wrapped!PairsOf(ks)) = Load(c, AllPairs)
    BY <1>4, SameLoad
  <2>3. /\ Wrapped!Windows(c, Load(c, AllPairs), data[f]) = Windows(c, Load(c, AllPairs), data[f])
        /\ \A u : Wrapped!Applicable(c, u) <=> Applicable(c, u)
    BY <2>1, SameWindows
  <2>4. w \in Wrapped!Windows(c, Wrapped!Load(c, Wrapped!PairsOf(ks)), ks[f + 1])
    BY <1>7, <2>2, <2>3
  <2>5. Wrapped!Applicable(c, Wrapped!Distinct(ks)) <=> Applicable(c, Wrapped!Distinct(ks))
    BY <2>3
  <2>6. Applicable(c, Wrapped!Distinct(ks))
    BY <1>6 DEF Applicable
  <2> QED
    BY <2>1, <2>2, <2>4, <2>5, <2>6
<1>9. ~ (/\ c.kind = "Wormhole"
         /\ \/ ks[f + 1] = 0
            \/ Len(Wrapped!Load(c, Wrapped!PairsOf(ks)).entries) < 2)
  <2>1. \A x \in Int : x > 0 => x # 0
    OBVIOUS
  <2>2. data[f] \in Int
    BY <1>1
  <2>3. c.kind = "Wormhole" => Len(Load(c, AllPairs).entries) >= 2
    OBVIOUS
  <2> QED
    BY <1>7, <1>8, <2>1, <2>2, <2>3
<1>10. ~ (c.kind = "CuckooMap" /\ ~ Wrapped!Distinct(ks))
  BY <1>6
<1>11. KeyRange \in Nat \ {0} /\ RowRange \in Nat
  BY BenchmarkAssumption
<1> QED
  BY <1>3, <1>5, <1>7, <1>8, <1>9, <1>10, <1>11, Wrapped!WindowsHold
-----------------------------------------------------------------------------
USE BenchmarkAssumption

(* With nothing put aside the index is that of all the data, and what it       *)
(* answers is right.                                                        *)
Complete ==
  /\ Serviced /\ write_portion = 0 => index = Load(Competitor, AllPairs)
  /\ Serviced /\ answer # NoAnswer /\ write_portion = 0
       /\ Answerable(answer.key) =>
       answer.rows = MatchingRows(answer.key)

LEMMA AnswersRight ==
  ASSUME Typed, Sorted, Competitor \in Competitors, Applicable(Competitor, Unique),
         index = Load(Competitor, AllPairs),
         NEW key \in Keys, Answerable(key),
         NEW w \in Windows(Competitor, index, key)
  PROVE  /\ WarmRows(key, w) = MatchingRows(key)
         /\ PromisedRows(key, w) = {MatchingRows(key)}
<1>1. CASE MatchingRows(key) = {}
  BY <1>1, AbsentKey
<1>2. CASE MatchingRows(key) # {}
  <2>1. MatchingRows(key) \subseteq Nat /\ MatchingRows(key) \subseteq DOMAIN data
    BY SizeOfData DEF MatchingRows
  <2>2. PICK f \in MatchingRows(key) : \A q \in MatchingRows(key) : f <= q
    BY <1>2, <2>1, LeastNatural
  <2>3. f \in DOMAIN data /\ data[f] = key
    BY <2>2 DEF MatchingRows
  <2>4. \A q \in DOMAIN data : q < f => data[q] # key
    <3> SUFFICES ASSUME NEW q \in DOMAIN data, q < f, data[q] = key PROVE FALSE
      OBVIOUS
    <3>1. q \in MatchingRows(key)
      BY DEF MatchingRows
    <3>2. q \in Nat /\ f \in Nat /\ f <= q
      BY <2>1, <2>2, <3>1
    <3> QED
      BY <3>2
  <2>5. \A q \in DOMAIN data : q < f => data[q] # data[f]
    BY <2>3, <2>4
  <2>6. /\ Competitor.kind = "Wormhole" =>
             data[f] > 0 /\ Len(Load(Competitor, AllPairs).entries) >= 2
        /\ Competitor.kind = "CuckooMap" => Unique
        /\ w \in Windows(Competitor, Load(Competitor, AllPairs), data[f])
    BY <2>3 DEF Answerable
  <2>7. /\ w.start \in Nat /\ w.stop \in Nat
        /\ w.start <= f /\ f <= w.stop /\ w.stop <= Size
    BY <2>3, <2>5, <2>6, WindowOfRow
  <2> QED
    BY <2>3, <2>4, <2>7, RightWindow
<1> QED
  BY <1>1, <1>2

(* The steps that stay in service.                                          *)
LEMMA ServicedSteps ==
  ASSUME [Next]_vars, Serviced'
  PROVE  \/ Build \/ Write \/ StartLookups \/ Read \/ ColdRead
         \/ Serviced /\ UNCHANGED <<data, schedule, index, write_portion, answer, run_failed>>
<1>1. ASSUME UNCHANGED vars
      PROVE  Serviced /\ UNCHANGED <<data, schedule, index, write_portion, answer, run_failed>>
  BY <1>1 DEF vars, settings, session, measuring, Serviced
<1>2. ASSUME \/ StartErrors \/ TrackError \/ Repeat \/ Batch \/ EndLoop \/ Timed
      PROVE  Serviced /\ UNCHANGED <<data, schedule, index, write_portion, answer, run_failed>>
  BY <1>2 DEF StartErrors, TrackError, Repeat, Batch, EndLoop, Timed, settings, session,
     measuring, Serviced
<1>3. ASSUME \/ ParseOptions \/ Construct \/ NotApplicable \/ Begin \/ Refuse \/ EndErrors
             \/ EndRepeats \/ NotFoundInMap \/ ReadStray
      PROVE  ~ Serviced'
  BY <1>3 DEF ParseOptions, Construct, NotApplicable, Begin, Refuse, EndErrors,
     EndRepeats, NotFoundInMap, ReadStray, NextCompetitor, Goto, Fail, Serviced
<1>4. ASSUME WriteRefused \/ PrintResult \/ PrintNothing \/ Exit
      PROVE  ~ Serviced'
  BY <1>4 DEF WriteRefused, PrintResult, PrintNothing, Exit, NextCompetitor, Goto, Fail,
     Serviced
<1>5. ASSUME PutAside PROVE ~ Serviced'
  BY <1>5 DEF PutAside, Part!Step, Part!Draw, Part!EndGather, Part!Extract,
     Part!EndExtract, Part!Sort, Serviced
<1> QED
  BY <1>1, <1>2, <1>3, <1>4, <1>5 DEF Next, Step, Terminated

LEMMA CompleteStep ==
  ASSUME Typed, Portioned, Compared, Prepared, Complete, [Next]_vars
  PROVE  Complete'
<1>1. UNCHANGED <<data, options>>
  BY SameInputs
<1>2. /\ Unique' = Unique /\ AllPairs' = AllPairs /\ AllRows' = AllRows
      /\ \A key : MatchingRows(key)' = MatchingRows(key)
  BY <1>1 DEF Unique, AllPairs, AllRows, Size, Pair, MatchingRows
<1>3. SUFFICES ASSUME Serviced', write_portion' = 0
               PROVE  /\ (index = Load(Competitor, AllPairs))'
                      /\ answer' # NoAnswer /\ Answerable(answer.key)' =>
                           answer'.rows = MatchingRows(answer'.key)
  BY <1>2 DEF Complete
<1>4. CASE Serviced /\ UNCHANGED <<data, schedule, index, write_portion, answer, run_failed>>
  <2>1. Answerable(answer.key)' = Answerable(answer.key)
    BY <1>2, <1>4 DEF Answerable, Competitor
  <2> QED
    BY <1>2, <1>3, <1>4, <2>1 DEF Complete, Competitor
<1>5. CASE Build
  <2>1. pc = "build" /\ UNCHANGED <<schedule, write_portion, answer>>
    BY <1>5 DEF Build, settings, session, measuring
  <2>2. answer' = NoAnswer
    BY <2>1 DEF Compared
  <2>3. index_data = AllRows
    BY <1>3, <2>1 DEF Prepared
  <2>4. index' = Load(Competitor, [i \in DOMAIN AllRows |-> Pair(AllRows[i])])
    BY <1>5, <2>3 DEF Build
  <2>5. [i \in DOMAIN AllRows |-> Pair(AllRows[i])] = AllPairs
    BY DEF AllRows, AllPairs
  <2>6. Load(Competitor, AllPairs)' = Load(Competitor, AllPairs)
    BY <1>2, <2>1 DEF Competitor
  <2> QED
    BY <2>2, <2>4, <2>5, <2>6
<1>6. CASE Write
  <2>1. write_portion' = write_portion /\ insertion_data # <<>>
    BY <1>6 DEF Write, settings
  <2> QED
    BY <1>3, <2>1 DEF Portioned
<1>7. CASE StartLookups
  <2>1. pc = "dispatch" /\ UNCHANGED <<schedule, index, write_portion, answer>>
    BY <1>7 DEF StartLookups, settings, session
  <2>2. answer' = NoAnswer
    BY <2>1 DEF Compared
  <2>3. Load(Competitor, AllPairs)' = Load(Competitor, AllPairs)
    BY <1>2, <2>1 DEF Competitor
  <2> QED
    BY <1>3, <2>1, <2>2, <2>3 DEF Complete, Serviced
<1>8. CASE Read \/ ColdRead
  <2>1. /\ pc = "loop" /\ idx < limit
        /\ UNCHANGED <<schedule, index, write_portion, lookups>>
    BY <1>8 DEF Read, ColdRead, Serving, settings, session
  <2>2. Load(Competitor, AllPairs)' = Load(Competitor, AllPairs)
    BY <1>2, <2>1 DEF Competitor
  <2>3. Request.key \in Keys
    <3>1. limit <= Len(lookups) /\ lookups \in Seq(Asked) /\ idx \in Nat /\ limit \in Nat
      BY <2>1 DEF Prepared, Typed
    <3>2. idx + 1 \in 1 .. Len(lookups)
      BY <2>1, <3>1
    <3>3. Request \in Asked
      BY <3>1, <3>2 DEF Request
    <3> QED
      BY <3>3 DEF Asked
  <2>4. /\ Sorted /\ schedule # <<>> /\ Applicable(Competitor, Unique)
        /\ Competitor \in Competitors
        /\ index = Load(Competitor, AllPairs)
    <3>1. /\ Sorted /\ schedule # <<>> /\ Applicable(Competitor, Unique)
          /\ schedule \in Seq(Competitors)
      BY <2>1 DEF Prepared, Running, Serviced
    <3>2. \A s \in Seq(Competitors) : s # <<>> => Head(s) \in Competitors
      OBVIOUS
    <3> QED
      BY <1>3, <2>1, <3>1, <3>2 DEF Complete, Serviced, Competitor
  <2>5. Answerable(answer.key)' <=> Answerable(answer'.key)
    BY <1>2, <2>1 DEF Answerable, Competitor
  <2>6. PICK w \in Windows(Competitor, index, Request.key) :
          /\ answer'.key = Request.key
          /\ \/ answer'.rows = WarmRows(Request.key, w)
             \/ answer'.rows \in PromisedRows(Request.key, w)
    BY <1>8 DEF Read, ColdRead, Answered
  <2>7. Answerable(Request.key) =>
          /\ WarmRows(Request.key, w) = MatchingRows(Request.key)
          /\ PromisedRows(Request.key, w) = {MatchingRows(Request.key)}
    BY <2>3, <2>4, AnswersRight
  <2> QED
    BY <2>1, <2>2, <2>4, <2>5, <2>6, <2>7
<1> QED
  BY <1>4, <1>5, <1>6, <1>7, <1>8, <1>3, ServicedSteps

(***************************************************************************)
(* A benchmark that only reads gets every answer right: whatever the dataset,  *)
(* the competitor and its scale, the batches, the run before it and the search *)
(* that looks into the window, the rows summed up are those of the key.       *)
(***************************************************************************)
THEOREM ReadsAreExact == Spec => []ReadOnlyExact
<1> DEFINE XInv == Aside /\ InTurn /\ Compared /\ Prepared /\ Complete
<1>1. Init => XInv
  <2>1. Init => pc = "main"
    BY DEF Init
  <2>2. pc = "main" => Complete
    BY DEF Complete, Serviced
  <2> QED
    BY <2>1, <2>2, InitTyped, InitApart, InitPrepared
       DEF Aside, Init, InTurn, Compared, Partitioning, NoAnswer
<1>2. XInv /\ [Next]_vars => XInv'
  BY AsideInvariant, InTurnStep, ComparedStep, PreparedStep, CompleteStep DEF Aside
<1>3. XInv => ReadOnlyExact
  BY DEF Complete, ReadOnlyExact, Measuring, Serviced, Answerable
<1> HIDE DEF XInv
<1> QED
  BY <1>1, <1>2, <1>3, PTL DEF Spec
-----------------------------------------------------------------------------
(* With writes: at scale 1 each row kept is found by its own entry.          *)
Precise ==
  Serviced /\ answer # NoAnswer /\ AllRowsKept /\ Unique /\ write_portion < Percent =>
    answer.rows = MatchingRows(answer.key)

LEMMA HeldRowFound ==
  ASSUME Typed, Sorted, Unique, AllRowsKept, Serviced, Indexed,
         NEW f \in Held, NEW w \in Windows(Competitor, index, data[f])
  PROVE  /\ f \in DOMAIN data
         /\ w.start \in Nat /\ w.stop \in Nat
         /\ w.start <= f /\ f <= w.stop /\ w.stop <= Size
<1> DEFINE es == index.entries
           n == Len(es)
           key == data[f]
           at == AtLeast(es, key)
<1>1. /\ es \in Seq(Entry)
      /\ \A i \in DOMAIN es : es[i].key = data[es[i].val]
      /\ \A i, j \in DOMAIN es : i <= j => es[i].key <= es[j].key
  BY DEF Indexed
<1>2. /\ n \in Nat /\ DOMAIN es = 1 .. n
      /\ \A i \in 1 .. n : es[i].key \in Nat /\ es[i].val \in DOMAIN data
  <2>1. n \in Nat /\ DOMAIN es = 1 .. n /\ \A i \in 1 .. n : es[i] \in Entry
    BY <1>1
  <2>2. \A x \in Entry : x.key \in Nat /\ x.val \in DOMAIN data
    BY DEF Entry, Keys
  <2> QED
    BY <2>1, <2>2
<1>3. PICK k \in 1 .. n : es[k].val = f
  BY <1>2 DEF Held
<1>4. f \in DOMAIN data /\ es[k].key = key /\ key \in Nat
  BY <1>1, <1>2, <1>3
<1>5. /\ at \in 1 .. n + 1
      /\ \A j \in 1 .. at - 1 : es[j].key < key
      /\ at <= n => es[at].key >= key
  <2>1. key \in Int /\ \A i \in 1 .. n : es[i].key \in Int
    BY <1>2, <1>4
  <2> HIDE DEF es, key
  <2> QED
    BY <1>2, <2>1, BoundsThere
<1> HIDE DEF es, n, key, at
<1>6. at <= k
  <2>1. k < at => k \in 1 .. at - 1
    BY <1>2, <1>5
  <2>2. k < at => es[k].key < key
    BY <1>5, <2>1
  <2> QED
    BY <1>2, <1>4, <1>5, <2>2
<1>7. at \in 1 .. n /\ at <= n /\ ~ (at > n)
  BY <1>2, <1>5, <1>6
<1>8. es[at].key = key
  <2>1. es[at].key <= es[k].key
    BY <1>1, <1>2, <1>6, <1>7, Zenon
  <2> QED
    BY <1>2, <1>4, <1>5, <1>7, <2>1
<1>9. es[at].val = f
  <2>1. data[es[at].val] = data[f] /\ es[at].val \in DOMAIN data
    BY <1>1, <1>2, <1>7, <1>8 DEF key
  <2> QED
    BY <1>4, <2>1 DEF Unique
<1>10. Guess(index, key) = f
  BY <1>7, <1>9 DEF Guess, es, n, at
<1>11. /\ Size \in Nat /\ f \in Nat /\ f + 1 <= Size /\ f + 1 \in 0 .. RowRange - 1
       /\ RowRange \in Nat
  <2>1. Size \in 1 .. MaxRows /\ DOMAIN data = 0 .. Size - 1
    BY SizeOfData
  <2> QED
    BY <1>4, <2>1
<1>12. (f + 1) % RowRange = f + 1
  <2>1. \A x, y \in Nat : x < y => x % y = x
    OBVIOUS
  <2> QED
    BY <1>11, <2>1
<1>13. \E error \in {0, 1} : w = Window(Below(f, error), f + 1)
  <2>1. Competitor.scale = 1 /\ Competitor.kind \in {"BTree", "ALEX", "PGM"}
    BY DEF AllRowsKept, Insertable
  <2>2. \A error : Backwards(index, key, error) = Window(Below(f, error), f + 1)
    BY <1>10, <1>12 DEF Backwards
  <2>3. CASE Competitor.kind \in {"BTree", "ALEX"}
    <3>1. w = Backwards(index, key, Competitor.scale - 1)
      BY <2>3 DEF Windows, HashMap, key
    <3>2. Competitor.scale - 1 = 0
      BY <2>1
    <3> QED
      BY <2>2, <3>1, <3>2
  <2>4. CASE Competitor.kind = "PGM"
    <3>1. w = Backwards(index, key, Competitor.scale)
      BY <2>4 DEF Windows, HashMap, key
    <3> QED
      BY <2>1, <2>2, <3>1
  <2> QED
    BY <2>1, <2>3, <2>4
<1>14. PICK error \in {0, 1} : w = Window(Below(f, error), f + 1)
  BY <1>13
<1>15. /\ Below(f, error) \in Nat /\ Below(f, error) <= f
  BY <1>11 DEF Below
<1> QED
  BY <1>4, <1>11, <1>14, <1>15 DEF Window

LEMMA PreciseStep ==
  ASSUME Typed, Compared, Prepared, Indexed, Precise, [Next]_vars
  PROVE  Precise'
<1>1. UNCHANGED <<data, options>>
  BY SameInputs
<1>2. /\ Unique' = Unique
      /\ \A key : MatchingRows(key)' = MatchingRows(key)
  BY <1>1 DEF Unique, MatchingRows
<1>3. SUFFICES ASSUME Serviced', AllRowsKept', Unique, write_portion' < Percent,
                      answer' # NoAnswer
               PROVE  answer'.rows = MatchingRows(answer'.key)
  BY <1>2 DEF Precise, NoAnswer
<1>4. ASSUME Serviced, UNCHANGED <<schedule, write_portion, answer>>
      PROVE  answer'.rows = MatchingRows(answer'.key)
  BY <1>3, <1>4 DEF Precise, AllRowsKept, Competitor, NoAnswer
<1>5. Write => Serviced /\ UNCHANGED <<schedule, write_portion, answer>>
  BY DEF Write, Serving, Serviced, settings, session
<1>6. Build \/ StartLookups => answer' = NoAnswer
  <2>1. Build \/ StartLookups => pc \in {"build", "dispatch"} /\ answer' = answer
    BY DEF Build, StartLookups, measuring
  <2> QED
    BY <2>1 DEF Compared, NoAnswer
<1>7. CASE Read \/ ColdRead
  <2>1. /\ pc = "loop" /\ idx < limit
        /\ UNCHANGED <<schedule, index, write_portion, lookups>>
    BY <1>7 DEF Read, ColdRead, Serving, settings, session
  <2>2. Request.key \in Keys /\ \E j \in DOMAIN lookups : lookups[j].key = Request.key
    <3>1. limit <= Len(lookups) /\ lookups \in Seq(Asked) /\ idx \in Nat /\ limit \in Nat
      BY <2>1 DEF Prepared, Typed
    <3>2. idx + 1 \in 1 .. Len(lookups)
      BY <2>1, <3>1
    <3>3. Request \in Asked
      BY <3>1, <3>2 DEF Request
    <3> QED
      BY <3>1, <3>2, <3>3 DEF Asked, Request
  <2>3. Sorted /\ Serviced /\ AllRowsKept /\ write_portion < Percent
    BY <1>3, <2>1 DEF Prepared, Serviced, AllRowsKept, Competitor
  <2>4. PICK w \in Windows(Competitor, index, Request.key) :
          /\ answer'.key = Request.key
          /\ \/ answer'.rows = WarmRows(Request.key, w)
             \/ answer'.rows \in PromisedRows(Request.key, w)
    BY <1>7 DEF Read, ColdRead, Answered
  <2>5. CASE MatchingRows(Request.key) = {}
    BY <2>4, <2>5, AbsentKey
  <2>6. CASE MatchingRows(Request.key) # {}
    <3>1. PICK f \in DOMAIN data : data[f] = Request.key
      BY <2>6 DEF MatchingRows
    <3>2. f \in Held
      BY <1>3, <2>2, <2>3, <3>1 DEF Indexed, Wanted
    <3>3. w \in Windows(Competitor, index, data[f])
      BY <3>1
    <3>4. /\ w.start \in Nat /\ w.stop \in Nat
          /\ w.start <= f /\ f <= w.stop /\ w.stop <= Size
      BY <1>3, <2>3, <3>2, <3>3, HeldRowFound
    <3>5. \A q \in DOMAIN data : q < f => data[q] # Request.key
      <4>1. DOMAIN data \subseteq Nat
        BY SizeOfData
      <4>2. \A q \in DOMAIN data : data[q] = Request.key => q = f
        BY <1>3, <3>1 DEF Unique
      <4> QED
        BY <4>1, <4>2
    <3>6. /\ WarmRows(Request.key, w) = MatchingRows(Request.key)
          /\ PromisedRows(Request.key, w) = {MatchingRows(Request.key)}
      BY <2>2, <2>3, <3>1, <3>4, <3>5, RightWindow
    <3> QED
      BY <2>4, <3>6
  <2> QED
    BY <2>5, <2>6
<1> QED
  BY <1>3, <1>4, <1>5, <1>6, <1>7, ServicedSteps

(***************************************************************************)
(* A benchmark that also writes gets every answer right with a B+ tree, ALEX   *)
(* or the PGM index at scale 1 if no two rows share a key: the partition puts  *)
(* no row aside that is looked up, in this Run or a later one, and inserting   *)
(* the others moves no entry past a key that is.                             *)
(***************************************************************************)
THEOREM WritesLeaveReadsExact == Spec => []ReadWriteExact
<1> DEFINE WInv == /\ Aside /\ InTurn /\ Compared /\ Prepared
                   /\ Stays /\ Indexed /\ Precise
<1>1. Init => WInv
  <2>1. Init => pc = "main"
    BY DEF Init
  <2>2. pc = "main" => Indexed /\ Precise
    BY DEF Indexed, Precise, Serviced
  <2> QED
    BY <2>1, <2>2, AsideInvariant, InitPrepared, InitStays
       DEF Init, InTurn, Compared, Partitioning, NoAnswer
<1>2. WInv /\ [Next]_vars => WInv'
  BY AsideInvariant, InTurnStep, ComparedStep, PreparedStep, StaysStep, IndexedStep,
     PreciseStep DEF Aside
<1>3. WInv => ReadWriteExact
  BY DEF Precise, ReadWriteExact, Measuring, Serviced
<1> HIDE DEF WInv
<1> QED
  BY <1>1, <1>2, <1>3, PTL DEF Spec
-----------------------------------------------------------------------------
(* A built index holds pairs of rows and keys of the data, and with what is    *)
(* put aside it accounts for no more of them than there are; Wormhole, which   *)
(* writes do not change, has its rows in their order.  Once the repetitions     *)
(* have begun there is a time for each of them.                             *)
Within ==
  Serviced =>
    /\ index.size \in Nat /\ index.size + Len(insertion_data) <= Size
    /\ index.entries \in Seq(Entry)
    /\ Competitor.kind = "Wormhole" =>
         \A i, j \in DOMAIN index.entries :
           i < j => index.entries[i].val < index.entries[j].val

Repeated ==
  /\ options.repeats \in Int
  /\ pc \in {"repeat", "batch", "loop", "timed"} \/ (pc = "print" /\ ~options.build) =>
       options.repeats >= 0 /\ DOMAIN runs = 1 .. options.repeats

(* A sequence without repetitions has as many elements as places.             *)
LEMMA LengthOfSet ==
  ASSUME NEW S, NEW s \in Seq(S), \A i, j \in DOMAIN s : s[i] = s[j] => i = j
  PROVE  IsFiniteSet(ToSet(s)) /\ Cardinality(ToSet(s)) = Len(s)
<1> DEFINE n == Len(s)
           f == [i \in 1 .. n |-> s[i]]
<1>1. n \in Nat /\ DOMAIN s = 1 .. n /\ ToSet(s) = {s[i] : i \in 1 .. n}
  BY DEF ToSet
<1>2. f \in Bijection(1 .. n, ToSet(s))
  <2> HIDE DEF n
  <2>1. f \in [1 .. n -> ToSet(s)]
    BY <1>1
  <2>2. \A i, j \in 1 .. n : f[i] = f[j] => i = j
    BY <1>1
  <2>3. \A t \in ToSet(s) : \E i \in 1 .. n : f[i] = t
    BY <1>1
  <2> QED
    BY <2>1, <2>2, <2>3 DEF Bijection, Injection, Surjection, IsInjective
<1>3. ExistsBijection(1 .. n, ToSet(s))
  BY <1>2 DEF ExistsBijection
<1>4. IsFiniteSet(1 .. n) /\ Cardinality(1 .. n) = n
  <2>1. 1 \in Int /\ n \in Int
    BY <1>1
  <2>2. IsFiniteSet(1 .. n) /\ Cardinality(1 .. n) = IF 1 > n THEN 0 ELSE n - 1 + 1
    BY <2>1, FS_Interval
  <2> HIDE DEF n
  <2> QED
    BY <1>1, <2>2
<1> HIDE DEF n
<1> QED
  BY <1>3, <1>4, FS_Bijection DEF n

LEMMA PartsFit ==
  ASSUME Typed, Apart
  PROVE  /\ Len(index_data) \in Nat /\ Len(insertion_data) \in Nat
         /\ Len(index_data) + Len(insertion_data) <= Size
<1> DEFINE A == ToSet(index_data)
           B == ToSet(insertion_data)
<1>1. /\ index_data \in Seq(DOMAIN data) /\ insertion_data \in Seq(DOMAIN data)
      /\ \A i, j \in DOMAIN index_data : index_data[i] = index_data[j] => i = j
      /\ \A i, j \in DOMAIN insertion_data : insertion_data[i] = insertion_data[j] => i = j
      /\ A \cap B = {}
  BY SamePartition DEF Apart
<1>2. /\ IsFiniteSet(A) /\ Cardinality(A) = Len(index_data)
      /\ IsFiniteSet(B) /\ Cardinality(B) = Len(insertion_data)
  BY <1>1, LengthOfSet
<1>3. A \cup B \subseteq DOMAIN data
  BY <1>1 DEF ToSet
<1>4. IsFiniteSet(DOMAIN data)
  <2>1. Size \in Nat /\ DOMAIN data = 0 .. Size - 1
    BY SizeOfData
  <2>2. 0 \in Int /\ Size - 1 \in Int
    BY <2>1
  <2> QED
    BY <2>1, <2>2, FS_Interval
<1> HIDE DEF A, B
<1>5. Cardinality(A \cup B) <= Size
  BY <1>3, <1>4, FS_Subset DEF Size
<1>6. Cardinality(A \cup B) = Cardinality(A) + Cardinality(B) - Cardinality(A \cap B)
  BY <1>2, FS_Union
<1>7. Cardinality(A \cap B) = 0
  BY <1>1, FS_EmptySet
<1>8. Len(index_data) \in Nat /\ Len(insertion_data) \in Nat
  BY <1>1
<1>9. Cardinality(A \cup B) = Len(index_data) + Len(insertion_data)
  BY <1>2, <1>6, <1>7, <1>8
<1> QED
  BY <1>5, <1>8, <1>9

(* Whatever the wrapper's choice, it keeps pairs of the data.                  *)
LEMMA LoadTyped ==
  ASSUME Typed, Apart, NEW c \in Competitors,
         NEW s, s = [i \in DOMAIN index_data |-> Pair(index_data[i])]
  PROVE  /\ s \in Seq(Entry) /\ Len(s) = Len(index_data)
         /\ Load(c, s).entries \in Seq(Entry) /\ Load(c, s).size = Len(s)
<1> DEFINE n == Len(index_data)
<1>1. /\ index_data \in Seq(DOMAIN data) /\ n \in Nat /\ DOMAIN index_data = 1 .. n
      /\ \A i \in 1 .. n : index_data[i] \in DOMAIN data
      /\ n <= Size /\ Size \in Nat /\ DOMAIN data = 0 .. Size - 1
      /\ data \in [0 .. Size - 1 -> Keys]
  <2>1. n <= Size
    BY PartsFit, SizeOfData
  <2> QED
    BY <2>1, SizeOfData DEF Apart
<1> HIDE DEF n
<1>2. \A f \in [1 .. n -> Entry] : f \in Seq(Entry) /\ Len(f) = n /\ DOMAIN f = 1 .. n
  BY <1>1
<1>3. s \in Seq(Entry) /\ Len(s) = n /\ DOMAIN s = 1 .. n
  <2>1. \A i \in 1 .. n : Pair(index_data[i]) \in Entry
    BY <1>1 DEF Pair, Entry
  <2>2. s \in [1 .. n -> Entry]
    BY <1>1, <2>1
  <2> QED
    BY <1>2, <2>2
<1>4. \A t \in Seq(Entry) : \A P \in SUBSET DOMAIN t : PairsAt(t, P) \in Seq(Entry)
  BY KeptPairs
<1>5. /\ \A sc : ByValue(s, sc) \in Seq(Entry)
      /\ \A t \in Seq(Entry) : \A sc : ByPlace(t, sc) \in Seq(Entry)
      /\ \A sc : WithLast(s, sc) \in Seq(Entry)
      /\ FirstOfKey(s) \in Seq(Entry) /\ LastOfKey(s) \in Seq(Entry)
  BY <1>3, <1>4 DEF ByValue, ByPlace, WithLast, FirstOfKey, LastOfKey
<1>6. \A sc : ArtPairs(s, sc) \in Seq(Entry)
  <2> TAKE sc
  <2> DEFINE placed == [i \in DOMAIN s |-> [key |-> s[i].key, val |-> i - 1]]
             one == ByPlace(placed, sc)
             Before(i) == IF i = 1 THEN KeyRange - 1 ELSE one[i - 1].key
  <2>1. placed \in Seq(Entry)
    <3>1. \A i \in 1 .. n : s[i].key \in Keys
      <4>1. \A i \in 1 .. n : s[i] \in Entry
        BY <1>3
      <4> QED
        BY <4>1 DEF Entry
    <3>2. \A i \in 1 .. n : i - 1 \in DOMAIN data
      BY <1>1
    <3>3. placed \in [1 .. n -> Entry]
      BY <1>3, <3>1, <3>2 DEF Entry
    <3> QED
      BY <1>2, <3>3
  <2> HIDE DEF placed
  <2>2. one \in Seq(Entry)
    BY <1>5, <2>1
  <2> HIDE DEF one
  <2>3. {i \in DOMAIN one : one[i].key # Before(i)} \in SUBSET DOMAIN one
    OBVIOUS
  <2>4. PairsAt(one, {i \in DOMAIN one : one[i].key # Before(i)}) \in Seq(Entry)
    BY <1>4, <2>2, <2>3
  <2> QED
    BY <2>4 DEF ArtPairs, one, placed
<1>7. Load(c, s).entries \in Seq(Entry)
  <2>1. c.kind \in Kinds /\ <<>> \in Seq(Entry)
    BY DEF Competitors
  <2> QED
    BY <1>3, <1>5, <1>6, <2>1 DEF Load, Kinds
<1>8. Load(c, s).size = Len(s)
  BY DEF Load
<1> QED
  BY <1>3, <1>7, <1>8 DEF n

(* Places chosen from a sequence in order are in order.                      *)
LEMMA KeptInOrder ==
  ASSUME NEW S, NEW s \in Seq(S), NEW P, P \subseteq DOMAIN s,
         \A i, j \in DOMAIN s : i < j => s[i].val < s[j].val
  PROVE  \A i, j \in DOMAIN PairsAt(s, P) :
           i < j => PairsAt(s, P)[i].val < PairsAt(s, P)[j].val
<1> DEFINE es == PairsAt(s, P)
           m == Cardinality(P)
<1>1. /\ IsFiniteSet(P) /\ es \in Seq(S) /\ Len(es) = m
      /\ \A k \in 1 .. m : \E i \in P : Rank(P, i) = k /\ es[k] = s[i]
  BY KeptPairs
<1>2. P \subseteq Nat /\ m \in Nat
  BY <1>1, FS_CardinalityType
<1>3. /\ \A i \in P : Rank(P, i) \in 1 .. m
      /\ \A i, j \in P : i < j => Rank(P, i) < Rank(P, j)
  BY <1>1, <1>2, RankedPlaces
<1> HIDE DEF es, m
<1>4. ASSUME NEW k \in 1 .. m, NEW l \in 1 .. m, k < l
      PROVE  es[k].val < es[l].val
  <2>1. PICK i \in P : Rank(P, i) = k /\ es[k] = s[i]
    BY <1>1
  <2>2. PICK j \in P : Rank(P, j) = l /\ es[l] = s[j]
    BY <1>1
  <2>3. i \in DOMAIN s /\ j \in DOMAIN s /\ i \in Nat /\ j \in Nat
    BY <1>2
  <2>4. ~ (j < i) /\ i # j
    BY <1>2, <1>3, <1>4, <2>1, <2>2
  <2>5. i < j
    BY <2>3, <2>4
  <2> QED
    BY <2>1, <2>2, <2>3, <2>5
<1>5. DOMAIN es = 1 .. m
  BY <1>1
<1> QED
  BY <1>4, <1>5 DEF es

LEMMA WormholeInOrder ==
  ASSUME Typed, Apart, Sorted, Unique,
         \A i, j \in DOMAIN index_data : i <= j => data[index_data[i]] <= data[index_data[j]],
         NEW s \in Seq(Entry), DOMAIN s = DOMAIN index_data,
         \A i \in DOMAIN s : s[i].val = index_data[i], NEW sc
  PROVE  \A i, j \in DOMAIN ByPlace(s, sc) :
           i < j => ByPlace(s, sc)[i].val < ByPlace(s, sc)[j].val
<1> DEFINE n == Len(index_data)
<1>1. /\ index_data \in Seq(DOMAIN data) /\ n \in Nat /\ DOMAIN index_data = 1 .. n
      /\ \A i \in 1 .. n : index_data[i] \in DOMAIN data
      /\ \A i, j \in 1 .. n : index_data[i] = index_data[j] => i = j
      /\ Size \in Nat /\ DOMAIN data = 0 .. Size - 1
      /\ \A p \in DOMAIN data : data[p] \in Nat
  <2>1. /\ index_data \in Seq(DOMAIN data)
        /\ \A i, j \in DOMAIN index_data : index_data[i] = index_data[j] => i = j
    BY SamePartition DEF Apart
  <2>2. n \in Nat /\ DOMAIN index_data = 1 .. n
    BY <2>1
  <2>3. \A i \in 1 .. n : index_data[i] \in DOMAIN data
    BY <2>1, <2>2
  <2>4. /\ Size \in Nat /\ DOMAIN data = 0 .. Size - 1
        /\ \A p \in DOMAIN data : data[p] \in Nat
    BY SizeOfData
  <2> HIDE DEF n
  <2> QED
    BY <2>1, <2>2, <2>3, <2>4
<1>2. \A i, j \in 1 .. n : i < j => index_data[i] < index_data[j]
  <2> SUFFICES ASSUME NEW i \in 1 .. n, NEW j \in 1 .. n, i < j,
                      ~ (index_data[i] < index_data[j])
               PROVE  FALSE
    OBVIOUS
  <2>1. /\ index_data[i] \in DOMAIN data /\ index_data[j] \in DOMAIN data
        /\ index_data[j] <= index_data[i] /\ index_data[i] # index_data[j]
    BY <1>1
  <2>2. data[index_data[j]] <= data[index_data[i]]
    BY <2>1 DEF Sorted
  <2>3. data[index_data[i]] <= data[index_data[j]]
    <3>1. i \in DOMAIN index_data /\ j \in DOMAIN index_data /\ i <= j
      BY <1>1
    <3> QED
      BY <3>1, Zenon
  <2>4. data[index_data[i]] = data[index_data[j]]
    BY <1>1, <2>1, <2>2, <2>3
  <2> QED
    BY <2>1, <2>4 DEF Unique
<1>3. \A i, j \in DOMAIN s : i < j => s[i].val < s[j].val
  BY <1>1, <1>2
<1>4. {i \in DOMAIN s : (i - 1) % sc = 0} \subseteq DOMAIN s
  OBVIOUS
<1> QED
  BY <1>3, <1>4, KeptInOrder DEF ByPlace

LEMMA WithinBuild ==
  ASSUME Typed, Apart, Prepared, Stays, Build
  PROVE  Within'
<1> DEFINE s == [i \in DOMAIN index_data |-> Pair(index_data[i])]
<1>1. /\ UNCHANGED <<data, schedule, index_data, insertion_data>>
      /\ pc = "build" /\ index' = Load(Competitor, s)
  BY DEF Build, settings, session, partition
<1>2. /\ Sorted /\ Applicable(Competitor, Unique) /\ Competitor \in Competitors
  <2>1. /\ Sorted /\ schedule # <<>> /\ Applicable(Competitor, Unique)
        /\ schedule \in Seq(Competitors)
    BY <1>1 DEF Prepared, Running
  <2>2. \A q \in Seq(Competitors) : q # <<>> => Head(q) \in Competitors
    OBVIOUS
  <2> QED
    BY <2>1, <2>2 DEF Competitor
<1>3. /\ s \in Seq(Entry) /\ Len(s) = Len(index_data)
      /\ index'.entries \in Seq(Entry) /\ index'.size = Len(s)
  BY <1>1, <1>2, LoadTyped
<1>4. index'.size \in Nat /\ index'.size + Len(insertion_data) <= Size
  BY <1>3, PartsFit
<1>5. ASSUME Competitor.kind = "Wormhole"
      PROVE  \A i, j \in DOMAIN index'.entries :
               i < j => index'.entries[i].val < index'.entries[j].val
  <2>1. Unique
    BY <1>2, <1>5 DEF Applicable
  <2>2. index'.entries = ByPlace(s, Competitor.scale)
    BY <1>1, <1>5 DEF Load
  <2>3. \A i, j \in DOMAIN index_data :
          i <= j => data[index_data[i]] <= data[index_data[j]]
    BY <1>1 DEF Stays
  <2>4. DOMAIN s = DOMAIN index_data /\ \A i \in DOMAIN s : s[i].val = index_data[i]
    BY DEF Pair
  <2> HIDE DEF s
  <2>5. \A sc : \A i, j \in DOMAIN ByPlace(s, sc) :
          i < j => ByPlace(s, sc)[i].val < ByPlace(s, sc)[j].val
    BY <1>2, <1>3, <2>1, <2>3, <2>4, WormholeInOrder
  <2> QED
    BY <2>2, <2>5
<1>6. Size' = Size /\ Entry' = Entry /\ Competitor' = Competitor
  BY <1>1 DEF Size, Entry, Competitor
<1> QED
  BY <1>1, <1>3, <1>4, <1>5, <1>6 DEF Within

LEMMA WithinWrite ==
  ASSUME Typed, Apart, Within, Write
  PROVE  Within'
<1> DEFINE es == index.entries
           n == Len(es)
           last == Last(insertion_data)
           e == Pair(last)
           m == Len(insertion_data)
<1>1. /\ UNCHANGED <<data, schedule>> /\ pc = "loop"
      /\ insertion_data' = Front(insertion_data) /\ insertion_data # <<>>
      /\ index' = InsertPair(Competitor, index, e)
      /\ Competitor.kind \in {"BTree", "ALEX", "PGM"}
  BY DEF Write, Serving, settings, session, Insertable
<1>2. /\ index.size \in Nat /\ index.size + m <= Size /\ es \in Seq(Entry)
  BY <1>1 DEF Within, Serviced
<1>3. /\ insertion_data \in Seq(DOMAIN data) /\ m \in Nat /\ m > 0
      /\ last \in DOMAIN data /\ Len(insertion_data') = m - 1
  <2>1. insertion_data \in Seq(DOMAIN data) /\ m \in Nat /\ m > 0 /\ m \in 1 .. m
    BY <1>1 DEF Apart
  <2>2. last \in DOMAIN data
    BY <2>1 DEF Last
  <2>3. Len(Front(insertion_data)) = m - 1
    <3>1. DOMAIN Front(insertion_data) = 1 .. m - 1
      BY <2>1 DEF Front
    <3>2. Front(insertion_data) \in Seq(DOMAIN data)
      BY <2>1 DEF Front
    <3>3. \A q \in Seq(DOMAIN data) : \A k \in Nat : DOMAIN q = 1 .. k => Len(q) = k
      OBVIOUS
    <3> HIDE DEF m
    <3> QED
      BY <2>1, <3>1, <3>2, <3>3
  <2> QED
    BY <1>1, <2>1, <2>2, <2>3
<1>4. e \in Entry /\ e.key \in Int
  BY <1>3, SizeOfData DEF Pair, Entry, Keys
<1>5. /\ n \in Nat /\ DOMAIN es = 1 .. n /\ \A i \in 1 .. n : es[i].key \in Int
  <2>1. n \in Nat /\ DOMAIN es = 1 .. n /\ \A i \in 1 .. n : es[i] \in Entry
    BY <1>2
  <2>2. \A x \in Entry : x.key \in Int
    BY DEF Entry, Keys
  <2> QED
    BY <2>1, <2>2
<1> HIDE DEF es, e, last, m
<1>6. AtLeast(es, e.key) \in 1 .. n + 1 /\ Above(es, e.key) \in 1 .. n + 1
  BY <1>4, <1>5, BoundsThere
<1>7. index'.entries \in Seq(Entry)
  <2>1. \A i \in 1 .. n + 1 : InsertAt(es, i, e) \in Seq(Entry)
    BY <1>2, <1>4, Inserted
  <2>2. \A i \in 1 .. n : ReplaceAt(es, i, e) \in Seq(Entry)
    <3>1. \A i \in 1 .. n : [es EXCEPT ![i] = e] \in Seq(Entry)
      BY <1>2, <1>4
    <3> QED
      BY <3>1 DEF ReplaceAt
  <2>3. index'.entries = Place(Competitor, index, e)
    BY <1>1 DEF InsertPair
  <2>4. AtLeast(es, e.key) <= n => AtLeast(es, e.key) \in 1 .. n
    BY <1>5, <1>6
  <2>5. Place(Competitor, index, e) \in
          {InsertAt(es, i, e) : i \in 1 .. n + 1} \cup {ReplaceAt(es, i, e) : i \in 1 .. n}
    <3>1. CASE Competitor.kind = "ALEX"
      BY <1>6, <3>1 DEF Place, es
    <3>2. CASE Competitor.kind = "PGM"
      BY <1>6, <2>4, <3>2 DEF Place, es
    <3>3. CASE Competitor.kind = "BTree"
      BY <1>6, <3>3 DEF Place, es
    <3> QED
      BY <1>1, <3>1, <3>2, <3>3
  <2> QED
    BY <2>1, <2>2, <2>3, <2>5
<1>8. index'.size \in {index.size, index.size + 1}
  BY <1>1 DEF InsertPair
<1>9. index'.size \in Nat /\ index'.size + Len(insertion_data') <= Size
  <2>1. Size \in Nat
    BY SizeOfData
  <2> QED
    BY <1>2, <1>3, <1>8, <2>1
<1>10. Size' = Size /\ Entry' = Entry /\ Competitor' = Competitor
  BY <1>1 DEF Size, Entry, Competitor
<1> QED
  BY <1>1, <1>7, <1>9, <1>10 DEF Within

LEMMA WithinStep ==
  ASSUME Typed, Apart, Prepared, Stays, Within, [Next]_vars
  PROVE  Within'
<1>1. CASE ~Serviced'
  BY <1>1 DEF Within
<1>2. ASSUME Serviced, UNCHANGED <<schedule, index, insertion_data>> PROVE Within'
  <2>1. Size' = Size /\ Entry' = Entry /\ Competitor' = Competitor
    BY <1>2, SameInputs DEF Size, Entry, Competitor
  <2> QED
    BY <1>2, <2>1 DEF Within
<1>3. StartLookups \/ Read \/ ColdRead =>
        Serviced /\ UNCHANGED <<schedule, index, insertion_data>>
  BY DEF StartLookups, Read, ColdRead, Serving, Serviced, session, partition
<1>4. ASSUME Serviced', ParseOptions \/ Begin \/ PutAside PROVE FALSE
  BY <1>4 DEF ParseOptions, Begin, PutAside, Part!Step, Part!Draw, Part!EndGather,
     Part!Extract, Part!EndExtract, Part!Sort, Goto, Serviced
<1>5. Idle => UNCHANGED insertion_data
  BY DEF Idle, partition
<1> QED
  BY <1>1, <1>2, <1>3, <1>4, <1>5, ServicedSteps, OtherSteps, WithinBuild, WithinWrite

LEMMA RepeatedStep ==
  ASSUME Repeated, [Next]_vars
  PROVE  Repeated'
<1> DEFINE Counting == \/ pc \in {"repeat", "batch", "loop", "timed"}
                       \/ pc = "print" /\ ~options.build
           Counted == options.repeats >= 0 /\ DOMAIN runs = 1 .. options.repeats
<1>1. options' = options /\ options.repeats \in Int
  BY SameInputs DEF Repeated
<1>2. SUFFICES ASSUME Counting' PROVE Counted'
  BY <1>1 DEF Repeated
<1>3. ASSUME Counting, UNCHANGED runs PROVE Counted'
  BY <1>1, <1>3 DEF Repeated
<1>4. CASE StartLookups
  <2>1. ~options.build /\ ~ (options.repeats < 0)
    BY <1>1, <1>2, <1>4 DEF StartLookups, Goto
  <2>2. DOMAIN runs' = 1 .. options.repeats
    BY <1>4, <2>1 DEF StartLookups
  <2> QED
    BY <1>1, <2>1, <2>2
<1>5. CASE Timed
  <2>1. Counting /\ DOMAIN runs' = DOMAIN runs
    BY <1>5 DEF Timed
  <2> QED
    BY <1>1, <2>1 DEF Repeated
<1>6. ASSUME \/ Repeat \/ Batch \/ EndLoop \/ EndRepeats \/ Read \/ ColdRead \/ Write
             \/ UNCHANGED vars
      PROVE  Counting /\ UNCHANGED runs
  BY <1>1, <1>2, <1>6 DEF Repeat, Batch, EndLoop, EndRepeats, Read, ColdRead, Write,
     Serving, vars, measuring
<1>7. ASSUME \/ ParseOptions \/ Construct \/ NotApplicable \/ Begin \/ PutAside \/ Build
             \/ Refuse \/ StartErrors \/ TrackError \/ EndErrors
      PROVE  ~ Counting'
  BY <1>7 DEF ParseOptions, Construct, NotApplicable, Begin, PutAside, Part!Step,
     Part!Draw, Part!EndGather, Part!Extract, Part!EndExtract, Part!Sort, Build, Refuse,
     StartErrors, TrackError, EndErrors, NextCompetitor, Goto, Fail
<1>8. ASSUME \/ NotFoundInMap \/ ReadStray \/ WriteRefused \/ PrintResult
             \/ PrintNothing \/ Exit
      PROVE  ~ Counting'
  BY <1>8 DEF NotFoundInMap, ReadStray, WriteRefused, PrintResult, PrintNothing, Exit,
     NextCompetitor, Goto, Fail
<1> QED
  BY <1>2, <1>3, <1>4, <1>5, <1>6, <1>7, <1>8 DEF Next, Step, Terminated

-----------------------------------------------------------------------------
(* Where a window may lead astray.  A row of the data starts windows that do   *)
(* not, if they end behind it and with the data.                            *)
LEMMA SmallRemainder == \A x, y \in Nat : x < y => x % y = x
OBVIOUS

LEMMA TreesGuess ==
  ASSUME Typed, NEW ix, ix.entries \in Seq(Entry), ix.size \in 1 .. Size,
         NEW key \in Int, NEW error \in Nat
  PROVE  ~ Stray(Backwards(ix, key, error))
<1> DEFINE es == ix.entries
           n == Len(es)
           at == AtLeast(es, key)
           g == Guess(ix, key)
<1>1. /\ Size \in Nat /\ Size <= MaxRows /\ DOMAIN data = 0 .. Size - 1
      /\ RowRange \in Nat /\ Size < RowRange
  BY SizeOfData
<1>2. /\ n \in Nat /\ \A i \in 1 .. n : es[i].key \in Int /\ es[i].val \in 0 .. Size - 1
  <2>1. n \in Nat /\ \A i \in 1 .. n : es[i] \in Entry
    OBVIOUS
  <2>2. \A x \in Entry : x.key \in Int /\ x.val \in 0 .. Size - 1
    BY <1>1 DEF Entry, Keys
  <2> QED
    BY <2>1, <2>2
<1>3. at \in 1 .. n + 1
  <2> HIDE DEF es
  <2> QED
    BY <1>2, BoundsThere
<1> HIDE DEF es, n, at
<1>4. ASSUME NEW x \in 0 .. Size PROVE x % RowRange = x
  <2>1. x \in Nat /\ RowRange \in Nat /\ x < RowRange
    BY <1>1
  <2> QED
    BY <2>1, SmallRemainder, Zenon
<1>5. g \in 0 .. Size - 1
  <2>1. CASE at > n
    <3>1. g = (ix.size - 1) % RowRange
      BY <2>1 DEF Guess, at, n, es
    <3>2. ix.size - 1 \in 0 .. Size - 1 /\ ix.size - 1 \in 0 .. Size
      BY <1>1
    <3> QED
      BY <1>4, <3>1, <3>2
  <2>2. CASE ~ (at > n)
    <3>1. g = es[at].val
      BY <2>2 DEF Guess, at, n, es
    <3>2. at \in 1 .. n
      BY <1>2, <1>3, <2>2
    <3> QED
      BY <1>2, <3>1, <3>2
  <2> QED
    BY <2>1, <2>2
<1>6. (g + 1) % RowRange = g + 1
  <2>1. g + 1 \in 0 .. Size
    BY <1>1, <1>5
  <2> QED
    BY <1>4, <2>1
<1>7. Backwards(ix, key, error) = Window(Below(g, error), g + 1)
  BY <1>6 DEF Backwards
<1> HIDE DEF g
<1>8. Below(g, error) \in Nat /\ Below(g, error) <= g
  BY <1>5 DEF Below
<1>9. g \in Nat /\ g + 1 <= Size
  BY <1>1, <1>5
<1> DEFINE b == Below(g, error)
<1>10. ~ (b > Size) /\ ~ (g + 1 > Size) /\ ~ (g + 1 < b)
  <2> HIDE DEF b
  <2>1. b \in Nat /\ b <= g
    BY <1>8 DEF b
  <2> QED
    BY <1>1, <1>9, <2>1
<1> QED
  BY <1>7, <1>10 DEF Stray, Window

LEMMA OthersStray ==
  ASSUME Typed, NEW ix, ix.entries \in Seq(Entry), ix.size \in 0 .. Size,
         NEW key \in Keys, NEW scale \in Nat \ {0}
  PROVE  /\ ~ Stray(Window(0, ix.size))
         /\ \A row \in 0 .. Size - 1 : ~ Stray(Window(row, row + 1))
         /\ \A w \in IBTreeWindows(ix, key, scale) :
              Stray(w) => \A i \in DOMAIN ix.entries : ix.entries[i].key < key
         /\ \A w \in FSTWindows(ix, key, scale) :
              Stray(w) =>
                \/ ix.entries = <<>>
                \/ options.cold /\ ix.entries[Len(ix.entries)].val > ix.size
         /\ (\A i, j \in DOMAIN ix.entries :
               i < j => ix.entries[i].val < ix.entries[j].val) =>
              \A w \in WormholeWindows(ix, key) :
                Stray(w) =>
                  \/ Len(ix.entries) < 2
                  \/ /\ options.cold
                     /\ \E i \in DOMAIN ix.entries : ix.entries[i].val > ix.size
<1> DEFINE es == ix.entries
           n == Len(es)
           at == AtLeast(es, key)
           size == ix.size
<1>1. /\ Size \in Nat /\ size \in Nat /\ size <= Size /\ key \in Nat
      /\ DOMAIN data = 0 .. Size - 1
  BY SizeOfData DEF Keys
<1>2. /\ n \in Nat /\ DOMAIN es = 1 .. n
      /\ \A i \in 1 .. n : es[i].key \in Int /\ es[i].val \in 0 .. Size - 1
  <2>1. n \in Nat /\ DOMAIN es = 1 .. n /\ \A i \in 1 .. n : es[i] \in Entry
    OBVIOUS
  <2>2. \A x \in Entry : x.key \in Int /\ x.val \in 0 .. Size - 1
    BY <1>1 DEF Entry, Keys
  <2> QED
    BY <2>1, <2>2
<1>3. at \in 1 .. n + 1 /\ \A j \in 1 .. at - 1 : es[j].key < key
  <2>1. key \in Int /\ \A i \in 1 .. n : es[i].key \in Int
    BY <1>1, <1>2
  <2> HIDE DEF es
  <2> QED
    BY <1>2, <2>1, BoundsThere
<1> HIDE DEF es, n, at, size
<1>4. ASSUME NEW a \in Nat, NEW b \in Nat, a <= Size
      PROVE  Stray(Window(a, b)) <=> options.cold /\ (b > Size \/ b < a)
  BY <1>1, <1>4 DEF Stray, Window
<1>5. ~ Stray(Window(0, size))
  BY <1>1, <1>4
<1>6. \A row \in 0 .. Size - 1 : ~ Stray(Window(row, row + 1))
  BY <1>1, <1>4
<1>7. \A w \in IBTreeWindows(ix, key, scale) :
        Stray(w) => \A i \in DOMAIN es : es[i].key < key
  <2>1. CASE at > n
    <3>1. at - 1 = n
      BY <1>2, <1>3, <2>1
    <3> QED
      BY <1>2, <1>3, <3>1
  <2>2. CASE ~ (at > n)
    <3>1. es[at].val \in 0 .. Size - 1
      BY <1>2, <1>3, <2>2
    <3> DEFINE row == es[at].val
    <3>2. IBTreeWindows(ix, key, scale) = {Window(Below(row, scale), row)}
      BY <2>2 DEF IBTreeWindows, at, n, es
    <3> HIDE DEF row
    <3>3. row \in Nat /\ row <= Size /\ Below(row, scale) \in Nat /\ Below(row, scale) <= row
      BY <1>1, <3>1 DEF row, Below
    <3>4. ~ Stray(Window(Below(row, scale), row))
      <4> DEFINE b == Below(row, scale)
      <4>1. b \in Nat /\ b <= row
        BY <3>3
      <4> HIDE DEF b
      <4>2. b <= Size /\ ~ (row > Size) /\ ~ (row < b)
        BY <1>1, <3>3, <4>1
      <4>3. ~ Stray(Window(b, row))
        BY <1>4, <3>3, <4>1, <4>2
      <4> QED
        BY <4>3 DEF b
    <3> QED
      BY <3>2, <3>4
  <2> QED
    BY <2>1, <2>2
<1>8. \A w \in FSTWindows(ix, key, scale) :
        Stray(w) => es = <<>> \/ (options.cold /\ es[n].val > size)
  <2> SUFFICES ASSUME es # <<>>, Stray(FSTWindow(ix, key, scale))
               PROVE  options.cold /\ es[n].val > size
    BY <1>5 DEF FSTWindows, es, size
  <2>1. n \in 1 .. n
    <3>1. es \in Seq(Entry)
      BY DEF es
    <3>2. Len(es) # 0
      BY <3>1
    <3> QED
      BY <1>2, <3>2 DEF n
  <2>2. es[n].val \in Nat /\ es[n].val <= Size
    BY <1>1, <1>2, <2>1
  <2> DEFINE guess == (at - 1) * scale
             b == Below(guess, scale)
             to == IF guess + scale >= size THEN size ELSE guess + scale + 1
  <2>3. guess \in Nat
    <3>1. at - 1 \in Nat
      BY <1>2, <1>3
    <3>2. \A x, y \in Nat : x * y \in Nat
      OBVIOUS
    <3> QED
      BY <3>1, <3>2
  <2>4. CASE key >= es[n].key
    <3>1. FSTWindow(ix, key, scale) = Window(es[n].val, size)
      BY <2>4 DEF FSTWindow, es, n, size
    <3> QED
      BY <1>1, <1>4, <2>2, <3>1
  <2>5. CASE ~ (key >= es[n].key) /\ b > size
    <3>1. FSTWindow(ix, key, scale) = Window(0, size)
      BY <2>5 DEF FSTWindow, es, n, size, at
    <3> QED
      BY <1>5, <3>1
  <2>6. CASE ~ (key >= es[n].key) /\ ~ (b > size)
    <3>1. FSTWindow(ix, key, scale) = Window(b, to)
      BY <2>6 DEF FSTWindow, es, n, size, at
    <3> HIDE DEF guess
    <3>2. b \in Nat /\ b <= guess
      BY <2>3 DEF Below
    <3> HIDE DEF b
    <3>3. to \in Nat /\ to <= size /\ b <= to /\ b <= size
      BY <1>1, <2>3, <2>6, <3>2
    <3> HIDE DEF to
    <3>4. b <= Size /\ ~ (to > Size) /\ ~ (to < b)
      BY <1>1, <3>2, <3>3
    <3>5. ~ Stray(Window(b, to))
      BY <1>4, <3>2, <3>3, <3>4
    <3> QED
      BY <3>1, <3>5
  <2> QED
    BY <2>4, <2>5, <2>6
<1>9. ASSUME \A i, j \in DOMAIN es : i < j => es[i].val < es[j].val,
             NEW w \in WormholeWindows(ix, key), Stray(w), ~ (n < 2)
      PROVE  options.cold /\ \E i \in DOMAIN es : es[i].val > size
  <2> DEFINE stored == [i \in 1 .. n - 1 |-> es[i + 1]]
             k == AtLeast(stored, Predecessor(key))
             lo == es[k].val
             to == IF k + 1 > Len(stored) THEN lo ELSE es[k + 1].val
  <2>1. /\ Len(stored) = n - 1 /\ n - 1 \in Nat
        /\ \A i \in 1 .. n - 1 : stored[i].key \in Int
    <3>1. n - 1 \in Nat /\ \A i \in 1 .. n - 1 : i + 1 \in 1 .. n
      BY <1>2, <1>9
    <3>2. Len(stored) = n - 1
      BY <3>1
    <3> QED
      BY <1>2, <3>1, <3>2
  <2>2. Predecessor(key) \in Int
    <3>1. key - 1 \in Int /\ KeyRange \in Nat \ {0}
      BY <1>1
    <3>2. \A x \in Int, y \in Nat \ {0} : x % y \in Int
      OBVIOUS
    <3> QED
      BY <3>1, <3>2 DEF Predecessor
  <2>3. k \in 1 .. n
    <3> HIDE DEF stored
    <3>1. k \in 1 .. Len(stored) + 1
      BY <2>1, <2>2, BoundsThere
    <3> HIDE DEF k
    <3> QED
      BY <1>2, <2>1, <3>1
  <2>4. \/ k > Len(stored) /\ w = Window(es[n].val, size)
        \/ ~ (k > Len(stored)) /\ w = Window(lo, (IF to = lo THEN size - 1 ELSE to) + 1)
    BY <1>9 DEF WormholeWindows, es, n, size
  <2> HIDE DEF stored, k
  <2>5. n \in 1 .. n /\ lo \in Nat /\ lo <= Size /\ es[n].val \in Nat /\ es[n].val <= Size
    <3>1. n \in 1 .. n
      BY <1>2, <1>9
    <3> QED
      BY <1>1, <1>2, <2>3, <3>1
  <2>6. CASE w = Window(es[n].val, size)
    <3>1. options.cold /\ es[n].val > size
      BY <1>1, <1>4, <1>9, <2>5, <2>6
    <3> QED
      BY <1>2, <2>5, <3>1
  <2>7. CASE ~ (k > Len(stored)) /\ to = lo /\ w = Window(lo, size - 1 + 1)
    <3>1. size - 1 + 1 = size
      BY <1>1
    <3>2. options.cold /\ lo > size
      BY <1>1, <1>4, <1>9, <2>5, <2>7, <3>1
    <3> QED
      BY <1>2, <2>3, <3>2
  <2>8. CASE to # lo /\ w = Window(lo, to + 1)
    <3>1. ~ (k + 1 > Len(stored)) /\ to = es[k + 1].val
      BY <2>8
    <3>2. k + 1 \in 1 .. n /\ k < k + 1
      BY <1>2, <2>1, <2>3, <3>1
    <3>3. lo < to /\ to \in 0 .. Size - 1
      BY <1>2, <1>9, <2>3, <3>1, <3>2
    <3> HIDE DEF lo, to
    <3>4. to + 1 \in Nat /\ ~ (to + 1 > Size) /\ ~ (to + 1 < lo)
      BY <1>1, <2>5, <3>3
    <3>5. ~ Stray(Window(lo, to + 1))
      BY <1>4, <2>5, <3>4
    <3> QED
      BY <1>9, <2>8, <3>5
  <2> QED
    BY <2>4, <2>6, <2>7, <2>8
<1>10. (\A i, j \in DOMAIN es : i < j => es[i].val < es[j].val) =>
         \A w \in WormholeWindows(ix, key) :
           Stray(w) => n < 2 \/ (options.cold /\ \E i \in DOMAIN es : es[i].val > size)
  BY <1>9
<1> QED
  BY <1>5, <1>6, <1>7, <1>8, <1>10 DEF es, n, size

LEMMA AstrayWhereLacking ==
  ASSUME Typed, Apart, Prepared, Within, Serviced, Request.key \in Keys,
         NEW w \in Windows(Competitor, index, Request.key), Stray(w)
  PROVE  Lacks
<1> DEFINE key == Request.key
           es == index.entries
           sc == Competitor.scale
<1>1. Competitor.kind \in Kinds /\ sc \in Nat \ {0} /\ sc - 1 \in Nat
  <2>1. schedule # <<>> /\ schedule \in Seq(Competitors)
    BY DEF Prepared, Running
  <2>2. \A q \in Seq(Competitors) : q # <<>> => Head(q) \in Competitors
    OBVIOUS
  <2>3. Competitor \in Competitors
    BY <2>1, <2>2 DEF Competitor
  <2> QED
    BY <2>3 DEF Competitors
<1>2. /\ es \in Seq(Entry) /\ index.size \in 0 .. Size
      /\ Competitor.kind = "Wormhole" =>
           \A i, j \in DOMAIN es : i < j => es[i].val < es[j].val
  <2>1. /\ es \in Seq(Entry) /\ index.size \in Nat
        /\ index.size + Len(insertion_data) <= Size
        /\ Competitor.kind = "Wormhole" =>
             \A i, j \in DOMAIN es : i < j => es[i].val < es[j].val
    BY DEF Within
  <2>2. Len(insertion_data) \in Nat /\ Size \in Nat
    BY PartsFit, SizeOfData
  <2> QED
    BY <2>1, <2>2
<1>3. /\ ~ Stray(Window(0, index.size))
      /\ \A row \in 0 .. Size - 1 : ~ Stray(Window(row, row + 1))
      /\ \A v \in IBTreeWindows(index, key, sc) :
           Stray(v) => \A i \in DOMAIN es : es[i].key < key
      /\ \A v \in FSTWindows(index, key, sc) :
           Stray(v) =>
             \/ es = <<>>
             \/ options.cold /\ es[Len(es)].val > index.size
      /\ (\A i, j \in DOMAIN es : i < j => es[i].val < es[j].val) =>
           \A v \in WormholeWindows(index, key) :
             Stray(v) =>
               \/ Len(es) < 2
               \/ /\ options.cold
                  /\ \E i \in DOMAIN es : es[i].val > index.size
  BY <1>1, <1>2, OthersStray
<1>4. ASSUME index.size # 0, NEW error \in Nat
      PROVE  ~ Stray(Backwards(index, key, error))
  <2>1. index.size \in 1 .. Size
    BY <1>2, <1>4, SizeOfData
  <2>2. key \in Int
    BY DEF Keys
  <2> HIDE DEF key
  <2> QED
    BY <1>2, <2>1, <2>2, TreesGuess
<1>5. CASE Competitor.kind = "BS"
  <2>1. w = Window(0, index.size)
    BY <1>5 DEF Windows, HashMap
  <2> QED
    BY <1>3, <2>1
<1>6. CASE Competitor.kind \in {"BTree", "ALEX", "ART", "PGM"}
  <2>1. w = Backwards(index, key, sc - 1) \/ w = Backwards(index, key, sc)
    BY <1>6 DEF Windows, HashMap
  <2>2. index.size = 0
    BY <1>1, <1>4, <2>1
  <2> QED
    BY <1>6, <2>2 DEF Lacks
<1>7. CASE Competitor.kind = "IBTree"
  <2>1. w \in IBTreeWindows(index, key, sc)
    BY <1>7 DEF Windows, HashMap
  <2> QED
    BY <1>3, <1>7, <2>1 DEF Lacks
<1>8. CASE Competitor.kind = "FST"
  <2>1. w \in FSTWindows(index, key, sc)
    BY <1>8 DEF Windows, HashMap
  <2>2. es # <<>> => Len(es) \in DOMAIN es
    BY <1>2
  <2> QED
    BY <1>3, <1>8, <2>1, <2>2 DEF Lacks, Reversed
<1>9. CASE Competitor.kind = "Wormhole"
  <2>1. w \in WormholeWindows(index, key)
    BY <1>9 DEF Windows, HashMap
  <2> QED
    BY <1>2, <1>3, <1>9, <2>1 DEF Lacks, Reversed
<1>10. CASE Competitor.kind \in {"RobinHash", "CuckooMap"}
  <2> DEFINE n == Len(es)
             at == AtLeast(es, key)
  <2>0. w \in HashWindows(Competitor, index, key)
    BY <1>10 DEF Windows, HashMap
  <2> SUFFICES ASSUME Stored(index, key) PROVE Lacks
    BY <1>10, <2>0 DEF HashWindows, Lacks
  <2>1. w = Window(es[at].val, es[at].val + 1)
    BY <2>0 DEF HashWindows
  <2>2. PICK i \in DOMAIN es : es[i].key = key
    BY DEF Stored
  <2>3. /\ n \in Nat /\ DOMAIN es = 1 .. n /\ key \in Int
        /\ \A j \in 1 .. n : es[j].key \in Int /\ es[j].val \in DOMAIN data
    <3>1. n \in Nat /\ DOMAIN es = 1 .. n /\ \A j \in 1 .. n : es[j] \in Entry
      BY <1>2
    <3>2. key \in Int /\ \A x \in Entry : x.key \in Int /\ x.val \in DOMAIN data
      BY DEF Entry, Keys
    <3> QED
      BY <3>1, <3>2
  <2> HIDE DEF es, key
  <2>4. at \in 1 .. n + 1 /\ \A j \in 1 .. at - 1 : es[j].key < key
    BY <2>3, BoundsThere
  <2> HIDE DEF n, at
  <2>5. ~ (i < at)
    <3>1. i < at => i \in 1 .. at - 1
      BY <2>3, <2>4
    <3> QED
      BY <2>2, <2>3, <2>4, <3>1
  <2>6. at \in 1 .. n
    BY <2>2, <2>3, <2>4, <2>5
  <2>7. es[at].val \in 0 .. Size - 1
    BY <2>3, <2>6, SizeOfData
  <2> QED
    BY <1>3, <2>1, <2>7
<1> QED
  BY <1>1, <1>5, <1>6, <1>7, <1>8, <1>9, <1>10 DEF Kinds

(* The branchless search reads behind the last row only if it is asked for the *)
(* last key or a larger one, or sent to the last row.                        *)
LEMMA BehindIsTheEnd ==
  ASSUME Typed, Request.key \in Keys,
         NEW w \in Windows(Competitor, index, Request.key),
         BranchlessBehind(Request.key, w)
  PROVE  SentToTheEnd
<1> DEFINE key == Request.key
<1>1. \/ w.start >= Size - 1 \/ data[Size - 1] <= key
      \/ Size - 1 \in 0 .. Size - 1 /\ data[Size - 1] = key
  BY DEF BranchlessBehind, At!ReadsBehind, At!Matching, At!Rows
<1>2. data[Size - 1] = key => data[Size - 1] <= key
  BY DEF Keys
<1> QED
  BY <1>1, <1>2 DEF BranchlessBehind, SentToTheEnd

LEMMA UndefinedStep ==
  ASSUME Typed, Apart, FirstRun, Prepared, Within, Repeated,
         UndefinedOnlyThere, [Next]_vars
  PROVE  UndefinedOnlyThere'
<1> SUFFICES ASSUME pc' = "undefined" PROVE UndefinedOnlyThere'
  BY DEF UndefinedOnlyThere
<1>1. CASE UNCHANGED vars
  <2>1. UNCHANGED <<data, options, lookups, schedule, coins, index, runs, runNo,
                    index_data, idx, from, limit, pc>>
    BY <1>1 DEF vars, settings, session, partition, measuring
  <2> QED
    BY <2>1 DEF UndefinedOnlyThere, IsWrite, Lacks, Reversed, SentToTheEnd, Size,
                Competitor, Request
<1>2. CASE Begin
  <2>1. /\ index_data' = index_data /\ runNo' = runNo + 1 /\ index_data = <<>>
    BY <1>2 DEF Begin, Goto, partition
  <2>2. runNo # 0
    <3>1. runNo = 0 => ToSet(index_data) = DOMAIN data
      BY DEF FirstRun
    <3>2. ToSet(<<>>) = {}
      BY DEF ToSet
    <3>3. 0 \in DOMAIN data
      BY SizeOfData
    <3> QED
      BY <2>1, <3>1, <3>2, <3>3
  <2>3. runNo' > 1
    BY <2>1, <2>2 DEF Typed
  <2> QED
    BY <2>1, <2>3 DEF UndefinedOnlyThere
<1>3. CASE PrintNothing
  <2>1. /\ pc = "print" /\ ~options.build /\ runs = <<>>
        /\ runs' = runs /\ options' = options
    BY <1>3, SameInputs DEF PrintNothing, ReadsTimes, measuring
  <2>2. options.repeats >= 0 /\ options.repeats \in Int /\ DOMAIN runs = 1 .. options.repeats
    BY <2>1 DEF Repeated
  <2>3. DOMAIN runs = {}
    BY <2>1
  <2>4. options.repeats = 0
    BY <2>2, <2>3
  <2> QED
    BY <2>1, <2>4 DEF UndefinedOnlyThere
<1>4. ASSUME ReadStray \/ WriteRefused
      PROVE  UndefinedOnlyThere'
  <2>1. /\ UNCHANGED <<data, options, lookups, schedule, coins, index, idx, from, limit>>
        /\ pc = "loop" /\ idx < limit
    BY <1>4 DEF ReadStray, WriteRefused, Serving, settings, session, measuring
  <2>2. /\ IsWrite' = IsWrite /\ Lacks' = Lacks /\ Competitor' = Competitor
        /\ SentToTheEnd' = SentToTheEnd
    BY <2>1 DEF IsWrite, Lacks, Reversed, SentToTheEnd, Size, Competitor, Request
  <2>3. CASE WriteRefused
    <3>1. IsWrite /\ InsertCorrupts(Competitor)
      BY <2>3 DEF WriteRefused, Fail, Goto
    <3> QED
      BY <2>1, <2>2, <3>1 DEF UndefinedOnlyThere, InsertCorrupts
  <2>4. CASE ReadStray
    <3>1. Request.key \in Keys
      <4>1. limit <= Len(lookups) /\ lookups \in Seq(Asked) /\ idx \in Nat /\ limit \in Nat
        BY <2>1 DEF Prepared, Typed
      <4>2. idx + 1 \in 1 .. Len(lookups)
        BY <2>1, <4>1
      <4>3. Request \in Asked
        BY <4>1, <4>2 DEF Request
      <4> QED
        BY <4>3 DEF Asked
    <3>2. PICK w \in Windows(Competitor, index, Request.key) :
            Stray(w) \/ BranchlessBehind(Request.key, w)
      BY <2>4 DEF ReadStray
    <3>3. ~ IsWrite
      BY <2>4 DEF ReadStray
    <3>4. Stray(w) => Lacks
      BY <2>1, <3>1, <3>2, AstrayWhereLacking DEF Serviced
    <3>5. BranchlessBehind(Request.key, w) => SentToTheEnd
      BY <3>1, <3>2, BehindIsTheEnd
    <3> QED
      BY <2>1, <2>2, <3>2, <3>3, <3>4, <3>5 DEF UndefinedOnlyThere
  <2> QED
    BY <1>4, <2>3, <2>4
<1>5. ASSUME \/ ParseOptions \/ Construct \/ NotApplicable \/ PutAside \/ Build \/ Refuse
             \/ StartErrors \/ TrackError \/ EndErrors \/ StartLookups \/ Repeat \/ Batch
      PROVE  FALSE
  BY <1>5 DEF ParseOptions, Construct, NotApplicable, PutAside, Part!Step, Part!Draw,
     Part!EndGather, Part!Extract, Part!EndExtract, Part!Sort, Build, Refuse, StartErrors,
     TrackError, EndErrors, StartLookups, Repeat, Batch, CoreLoop, NextCompetitor, Goto,
     Fail
<1>6. ASSUME \/ EndLoop \/ Timed \/ EndRepeats \/ NotFoundInMap \/ Read \/ ColdRead
             \/ Write \/ PrintResult \/ Exit
      PROVE  FALSE
  BY <1>6 DEF EndLoop, Timed, EndRepeats, NotFoundInMap, Read, ColdRead, Write, Serving,
     LeaveLoop, PrintResult, Exit, NextCompetitor, Goto, Fail
<1> QED
  BY <1>1, <1>2, <1>3, <1>4, <1>5, <1>6 DEF Next, Step, Terminated

(***************************************************************************)
(* The behaviour of the program is undefined nowhere but where it times         *)
(* nothing, writes to ART, has nothing left to put aside, asks a competitor     *)
(* for what that lacks (the cuckoo map for its mark of an empty slot, where     *)
(* that is not in it, included), or has the cold path's branchless search look  *)
(* for a key not less than the last.  Everywhere else every window, also of an   *)
(* index that holds part of the data and grows, starts and ends inside the      *)
(* data, and in that order, and no search reads behind the data.             *)
(***************************************************************************)
THEOREM NowhereElseUndefined == Spec => []UndefinedOnlyThere
<1> DEFINE UInv == Aside /\ Prepared /\ Stays /\ Within /\ Repeated /\ UndefinedOnlyThere
<1>1. Init => UInv
  <2>1. Init => pc = "main" /\ options.repeats \in Int
    BY CallAssumption DEF Init
  <2> QED
    BY <2>1, AsideInvariant, InitPrepared, InitStays
       DEF Within, Serviced, Repeated, UndefinedOnlyThere
<1>2. UInv /\ [Next]_vars => UInv'
  BY AsideInvariant, PreparedStep, StaysStep, WithinStep, RepeatedStep, UndefinedStep
     DEF Aside
<1> HIDE DEF UInv
<1>3. UInv => UndefinedOnlyThere
  BY DEF UInv
<1> QED
  BY <1>1, <1>2, <1>3, PTL DEF Spec
-----------------------------------------------------------------------------
(* Counting the writes.  The draws are fixed for the whole program, a failure   *)
(* for want of data ends it, and only a cold run can fail otherwise.          *)
Tossed ==
  /\ pc # "main" => coins \in [1 .. MaxLookups -> BOOLEAN]
  /\ ~options.cold => ~run_failed
  /\ why = "out of data" => pc = "failed"

(* A call of the core loop starts with a batch, and there are no gaps in        *)
(* between.                                                                 *)
Batched ==
  /\ pc = "loop" =>
       /\ from \in Nat /\ from <= idx
       /\ options.threads = 1 => from = 0
       /\ options.threads # 1 =>
            cntr = from + BatchSize /\ \E b \in Nat : from = b * BatchSize
  /\ pc = "batch" => options.threads # 1 /\ \E b \in Nat : cntr = b * BatchSize

(* The writes among the first k requests of a repetition.                    *)
PerBatch == WritesIn(Lesser(BatchSize, MaxLookups))

Written(k) ==
  IF options.threads = 1 THEN WritesIn(k)
  ELSE (k \div BatchSize) * PerBatch + WritesIn(k % BatchSize)

(* In the first Run what is left to insert and what has been written make up    *)
(* what was put aside.                                                      *)
Left(written) == Len(insertion_data) + written = Part!Target

Accounted ==
  runNo = 1 /\ write_portion > 0 /\ ~options.cold =>
    /\ pc = "dispatch" => Left(0)
    /\ pc \in {"repeat", "batch", "loop", "timed"} => rep \in 0 .. options.repeats
    /\ pc \in {"batch", "loop", "timed"} => rep < options.repeats
    /\ pc = "repeat" => Left(rep * WritesPerRepetition)
    /\ pc = "batch" =>
         Left(rep * WritesPerRepetition + Written(Lesser(cntr, Len(lookups))))
    /\ pc = "loop" => Left(rep * WritesPerRepetition + Written(idx))
    /\ pc = "timed" => Left(rep * WritesPerRepetition + WritesPerRepetition)
    /\ pc = "print" /\ ~options.build => Demand <= Part!Target
    /\ why = "out of data" => Demand > Part!Target

LEMMA WritesCount ==
  ASSUME coins \in [1 .. MaxLookups -> BOOLEAN]
  PROVE  /\ \A k \in Nat : WritesIn(k) \in Nat
         /\ WritesIn(0) = 0
         /\ \A j, k \in Nat : j <= k => WritesIn(j) <= WritesIn(k)
         /\ \A k \in Nat :
              k < MaxLookups =>
                WritesIn(k + 1) = IF coins[k + 1] THEN WritesIn(k) + 1 ELSE WritesIn(k)
<1> DEFINE W(k) == {i \in 1 .. k : coins[i]}
<1>1. \A k \in Nat : IsFiniteSet(W(k)) /\ Cardinality(W(k)) \in Nat
  <2> TAKE k \in Nat
  <2>1. IsFiniteSet(1 .. k)
    BY FS_Interval
  <2>2. W(k) \subseteq 1 .. k
    OBVIOUS
  <2> QED
    BY <2>1, <2>2, FS_Subset, FS_CardinalityType
<1>2. W(0) = {}
  OBVIOUS
<1>3. ASSUME NEW j \in Nat, NEW k \in Nat, j <= k
      PROVE  Cardinality(W(j)) <= Cardinality(W(k))
  <2>1. W(j) \subseteq W(k)
    BY <1>3
  <2> QED
    BY <1>1, <2>1, FS_Subset
<1>4. ASSUME NEW k \in Nat, k < MaxLookups
      PROVE  Cardinality(W(k + 1)) =
               IF coins[k + 1] THEN Cardinality(W(k)) + 1 ELSE Cardinality(W(k))
  <2>1. k + 1 \in 1 .. MaxLookups /\ coins[k + 1] \in BOOLEAN
    BY <1>4
  <2>2. \A i : i \in 1 .. k + 1 <=> i \in 1 .. k \/ i = k + 1
    OBVIOUS
  <2>3. CASE coins[k + 1]
    <3>1. W(k + 1) = W(k) \cup {k + 1} /\ k + 1 \notin W(k)
      BY <2>2, <2>3
    <3> HIDE DEF W
    <3>2. Cardinality(W(k) \cup {k + 1}) = Cardinality(W(k)) + 1
      BY <1>1, <3>1, FS_AddElement
    <3> QED
      BY <2>3, <3>1, <3>2
  <2>4. CASE ~ coins[k + 1]
    <3>1. W(k + 1) = W(k)
      BY <2>2, <2>4
    <3> QED
      BY <2>4, <3>1
  <2> QED
    BY <2>3, <2>4
<1>5. \A k : WritesIn(k) = Cardinality(W(k))
  BY DEF WritesIn
<1> HIDE DEF W
<1> QED
  BY <1>1, <1>2, <1>3, <1>4, <1>5, FS_EmptySet

LEMMA Quotient ==
  ASSUME NEW b \in Nat, NEW j \in Nat, NEW d \in Nat \ {0}, j < d
  PROVE  (b * d + j) \div d = b /\ (b * d + j) % d = j
<1> DEFINE x == b * d + j
           q == x \div d
           r == x % d
<1>1. b * d \in Nat /\ x \in Nat
  OBVIOUS
<1>2. q \in Nat /\ r \in Nat /\ r < d /\ x = q * d + r
  <2>1. \A n \in Nat, m \in Nat \ {0} :
          n \div m \in Nat /\ n % m \in Nat /\ n % m < m /\ n = m * (n \div m) + (n % m)
    OBVIOUS
  <2> HIDE DEF x
  <2>2. q \in Nat /\ r \in Nat /\ r < d /\ x = d * q + r
    BY <1>1, <2>1
  <2>3. d * q = q * d
    BY <2>2
  <2> QED
    BY <2>2, <2>3
<1> HIDE DEF q, r
<1>3. x = b * d + j
  OBVIOUS
<1> HIDE DEF x
<1>4. ~ (q < b)
  <2> SUFFICES ASSUME q + 1 <= b PROVE FALSE
    BY <1>2
  <2>1. (q + 1) * d <= b * d
    BY <1>2
  <2>2. (q + 1) * d = q * d + d /\ q * d \in Nat
    BY <1>2
  <2> QED
    BY <1>1, <1>2, <1>3, <2>1, <2>2
<1>5. ~ (b < q)
  <2> SUFFICES ASSUME b + 1 <= q PROVE FALSE
    BY <1>2
  <2>1. (b + 1) * d <= q * d
    BY <1>2
  <2>2. (b + 1) * d = b * d + d /\ q * d \in Nat
    BY <1>2
  <2> QED
    BY <1>1, <1>2, <1>3, <2>1, <2>2
<1>6. q = b
  BY <1>2, <1>4, <1>5
<1>7. r = j
  BY <1>1, <1>2, <1>3, <1>6
<1> QED
  BY <1>6, <1>7 DEF q, r, x

LEMMA WrittenInBatch ==
  ASSUME coins \in [1 .. MaxLookups -> BOOLEAN], options.threads # 1,
         NEW b \in Nat, NEW j \in 0 .. BatchSize, j <= MaxLookups
  PROVE  Written(b * BatchSize + j) = b * PerBatch + WritesIn(j)
<1> DEFINE x == b * BatchSize + j
<1>1. PerBatch \in Nat
  BY WritesCount DEF PerBatch, Lesser
<1>2. CASE j < BatchSize
  <2>1. x \div BatchSize = b /\ x % BatchSize = j
    <3>1. j \in Nat /\ BatchSize \in Nat \ {0}
      OBVIOUS
    <3> QED
      BY <1>2, <3>1, Quotient
  <2> HIDE DEF x
  <2>2. Written(x) = b * PerBatch + WritesIn(j)
    BY <2>1 DEF Written
  <2> QED
    BY <2>2 DEF x
<1>3. CASE j = BatchSize
  <2>1. x = (b + 1) * BatchSize + 0
    BY <1>3
  <2>2. x \div BatchSize = b + 1 /\ x % BatchSize = 0
    <3>1. b + 1 \in Nat /\ 0 \in Nat /\ 0 < BatchSize
      OBVIOUS
    <3> HIDE DEF x
    <3> QED
      BY <2>1, <3>1, Quotient
  <2> HIDE DEF x
  <2>3. Written(x) = (b + 1) * PerBatch + WritesIn(0)
    BY <2>2 DEF Written
  <2>4. PerBatch = WritesIn(j)
    BY <1>3 DEF PerBatch, Lesser
  <2>5. WritesIn(0) = 0 /\ (b + 1) * PerBatch = b * PerBatch + PerBatch
    BY <1>1, WritesCount
  <2>6. b * PerBatch \in Nat
    BY <1>1
  <2>7. Written(x) = b * PerBatch + WritesIn(j)
    BY <1>1, <2>3, <2>4, <2>5, <2>6
  <2> QED
    BY <2>7 DEF x
<1> QED
  BY <1>2, <1>3

(* The next request counts if the draw of its place in the batch says so.     *)
LEMMA WrittenNext ==
  ASSUME coins \in [1 .. MaxLookups -> BOOLEAN],
         idx \in Nat, from \in Nat, from <= idx, idx < MaxLookups,
         \/ options.threads = 1 /\ from = 0
         \/ /\ options.threads # 1 /\ idx < from + BatchSize
            /\ \E b \in Nat : from = b * BatchSize
  PROVE  /\ Written(idx) \in Nat
         /\ Written(idx + 1) =
              IF coins[idx - from + 1] THEN Written(idx) + 1 ELSE Written(idx)
<1>1. CASE options.threads = 1 /\ from = 0
  <2>1. idx - from + 1 = idx + 1
    BY <1>1
  <2> QED
    BY <1>1, <2>1, WritesCount DEF Written
<1>2. CASE options.threads # 1 /\ idx < from + BatchSize
  <2>1. PICK b \in Nat : from = b * BatchSize
    BY <1>2
  <2> DEFINE j == idx - from
  <2>2. /\ j \in Nat /\ j < BatchSize /\ j < MaxLookups /\ j + 1 \in Nat
        /\ idx = from + j /\ idx + 1 = from + (j + 1)
    BY <1>2
  <2> HIDE DEF j
  <2>3. Written(idx) = b * PerBatch + WritesIn(j)
    <3>1. j \in 0 .. BatchSize /\ j <= MaxLookups
      BY <2>2
    <3> QED
      BY <1>2, <2>1, <2>2, <3>1, WrittenInBatch
  <2>4. Written(idx + 1) = b * PerBatch + WritesIn(j + 1)
    <3>1. j + 1 \in 0 .. BatchSize /\ j + 1 <= MaxLookups
      BY <2>2
    <3> QED
      BY <1>2, <2>1, <2>2, <3>1, WrittenInBatch
  <2>5. /\ WritesIn(j) \in Nat
        /\ WritesIn(j + 1) = IF coins[j + 1] THEN WritesIn(j) + 1 ELSE WritesIn(j)
    BY <2>2, WritesCount
  <2>6. b * PerBatch \in Nat
    <3>1. PerBatch \in Nat
      BY WritesCount DEF PerBatch, Lesser
    <3> QED
      BY <3>1
  <2>7. coins[idx - from + 1] = coins[j + 1]
    BY DEF j
  <2> QED
    BY <2>3, <2>4, <2>5, <2>6, <2>7
<1> QED
  BY <1>1, <1>2

LEMMA WrittenGrows ==
  ASSUME coins \in [1 .. MaxLookups -> BOOLEAN],
         NEW j \in Nat, NEW k \in Nat, j <= k, k <= MaxLookups
  PROVE  Written(j) \in Nat /\ Written(k) \in Nat /\ Written(j) <= Written(k)
<1>1. CASE options.threads = 1
  BY <1>1, WritesCount DEF Written
<1>2. CASE options.threads # 1
  <2> DEFINE B == BatchSize
             P == PerBatch
             qj == j \div B
             rj == j % B
             qk == k \div B
             rk == k % B
  <2>1. \A n \in Nat, m \in Nat \ {0} :
          /\ n \div m \in Nat /\ n % m \in Nat /\ n % m < m /\ n % m <= n
          /\ n = (n \div m) * m + (n % m)
    <3> TAKE n \in Nat, m \in Nat \ {0}
    <3>1. n \div m \in Nat /\ n % m \in Nat /\ n % m < m /\ n = m * (n \div m) + (n % m)
      OBVIOUS
    <3>2. m * (n \div m) \in Nat /\ m * (n \div m) = (n \div m) * m
      BY <3>1
    <3> QED
      BY <3>1, <3>2
  <2>2. /\ qj \in Nat /\ rj \in Nat /\ rj < B /\ rj <= j /\ j = qj * B + rj
        /\ qk \in Nat /\ rk \in Nat /\ rk < B /\ rk <= k /\ k = qk * B + rk
        /\ B \in Nat
    BY <2>1
  <2>3. /\ Written(j) = qj * P + WritesIn(rj)
        /\ Written(k) = qk * P + WritesIn(rk)
    BY <1>2 DEF Written
  <2> HIDE DEF qj, rj, qk, rk
  <2>4. P \in Nat /\ WritesIn(rj) \in Nat /\ WritesIn(rk) \in Nat
    BY <2>2, WritesCount DEF PerBatch, Lesser
  <2>5. WritesIn(rj) <= P
    <3>1. Lesser(B, MaxLookups) \in Nat /\ rj <= Lesser(B, MaxLookups)
      BY <2>2 DEF Lesser
    <3> QED
      BY <2>2, <3>1, WritesCount DEF PerBatch
  <2> HIDE DEF P
  <2>6. qj * P \in Nat /\ qk * P \in Nat
    BY <2>2, <2>4
  <2>7. ~ (qk < qj)
    <3> SUFFICES ASSUME qk + 1 <= qj PROVE FALSE
      BY <2>2
    <3>1. (qk + 1) * B <= qj * B /\ (qk + 1) * B = qk * B + B
      BY <2>2
    <3>2. qk * B \in Nat /\ qj * B \in Nat
      BY <2>2
    <3> HIDE DEF B
    <3> QED
      BY <2>2, <3>1, <3>2
  <2>8. CASE qj = qk
    <3>1. rj <= rk
      <4>1. qk * B \in Nat
        BY <2>2
      <4> HIDE DEF B
      <4> QED
        BY <2>2, <2>8, <4>1
    <3>2. WritesIn(rj) <= WritesIn(rk)
      BY <2>2, <3>1, WritesCount
    <3> QED
      BY <2>3, <2>4, <2>6, <2>8, <3>2
  <2>9. CASE qj < qk
    <3>1. (qj + 1) * P <= qk * P /\ (qj + 1) * P = qj * P + P
      BY <2>2, <2>4, <2>9
    <3> QED
      BY <2>3, <2>4, <2>5, <2>6, <3>1
  <2> QED
    BY <2>2, <2>7, <2>8, <2>9
<1> QED
  BY <1>1, <1>2

LEMMA CoinsStay ==
  ASSUME [Next]_vars, ~ ParseOptions
  PROVE  coins' = coins
<1>1. ASSUME \/ Construct \/ NotApplicable \/ Begin \/ PutAside \/ Build \/ Refuse
             \/ StartErrors \/ TrackError \/ EndErrors \/ StartLookups \/ Repeat \/ Batch
      PROVE  coins' = coins
  BY <1>1 DEF Construct, NotApplicable, Begin, PutAside, Build, Refuse, StartErrors,
     TrackError, EndErrors, StartLookups, Repeat, Batch, settings
<1>2. ASSUME \/ EndLoop \/ Timed \/ EndRepeats \/ NotFoundInMap \/ ReadStray \/ Read
             \/ ColdRead \/ WriteRefused \/ Write \/ PrintResult \/ PrintNothing \/ Exit
             \/ UNCHANGED vars
      PROVE  coins' = coins
  BY <1>2 DEF EndLoop, Timed, EndRepeats, NotFoundInMap, ReadStray, Read, ColdRead,
     WriteRefused, Write, PrintResult, PrintNothing, Exit, vars, settings
<1> QED
  BY <1>1, <1>2 DEF Next, Step, Terminated

LEMMA FailureStays ==
  ASSUME [Next]_vars, ~ StartLookups, ~ ColdRead
  PROVE  run_failed' = run_failed
<1>1. ASSUME \/ ParseOptions \/ Construct \/ NotApplicable \/ Begin \/ PutAside
             \/ Build \/ Refuse \/ StartErrors \/ TrackError \/ EndErrors \/ Repeat
      PROVE  run_failed' = run_failed
  BY <1>1 DEF ParseOptions, Construct, NotApplicable, Begin, PutAside, Build, Refuse,
     StartErrors, TrackError, EndErrors, Repeat, measuring
<1>2. ASSUME \/ Batch \/ EndLoop \/ Timed \/ EndRepeats \/ NotFoundInMap \/ ReadStray
             \/ Read \/ WriteRefused \/ Write \/ PrintResult \/ PrintNothing \/ Exit
             \/ UNCHANGED vars
      PROVE  run_failed' = run_failed
  BY <1>2 DEF Batch, EndLoop, Timed, EndRepeats, NotFoundInMap, ReadStray, Read,
     WriteRefused, Write, PrintResult, PrintNothing, Exit, vars, measuring
<1> QED
  BY <1>1, <1>2 DEF Next, Step, Terminated

(* Reasons to fail, and who gives them.                                      *)
LEMMA Reasons ==
  ASSUME [Next]_vars
  PROVE  \/ UNCHANGED vars
         \/ /\ pc # "failed"
            /\ \/ why' = why
               \/ pc' = "failed" /\ why' # "out of data"
               \/ WriteRefused /\ insertion_data = <<>> /\ pc' = "failed"
<1> DEFINE Otherwise == pc # "failed" /\ (why' = why \/ (pc' = "failed" /\ why' # "out of data"))
<1>1. ASSUME \/ ParseOptions \/ Construct \/ NotApplicable \/ Begin \/ Build \/ Refuse
             \/ StartErrors \/ TrackError \/ EndErrors \/ StartLookups
      PROVE  Otherwise
  BY <1>1 DEF ParseOptions, Construct, NotApplicable, Begin, Build, Refuse, Refusal,
     StartErrors, TrackError, EndErrors, StartLookups, NextCompetitor, Goto, Fail
<1>2. ASSUME \/ Repeat \/ Batch \/ EndLoop \/ Timed \/ EndRepeats \/ NotFoundInMap
             \/ ReadStray \/ Read \/ ColdRead \/ Write \/ PrintResult \/ PrintNothing
             \/ Exit
      PROVE  Otherwise
  BY <1>2 DEF Repeat, Batch, EndLoop, Timed, EndRepeats, NotFoundInMap, ReadStray, Read,
     ColdRead, Write, PrintResult, PrintNothing, Exit, CoreLoop, LeaveLoop, Serving,
     NextCompetitor, Goto, Fail
<1>3. ASSUME PutAside PROVE Otherwise
  BY <1>3 DEF PutAside, Part!Step, Part!Draw, Part!EndGather, Part!Extract,
     Part!EndExtract, Part!Sort
<1>4. ASSUME WriteRefused
      PROVE  Otherwise \/ (pc # "failed" /\ insertion_data = <<>> /\ pc' = "failed")
  BY <1>4 DEF WriteRefused, Serving, Goto, Fail
<1> QED
  BY <1>1, <1>2, <1>3, <1>4 DEF Next, Step, Terminated

LEMMA TossedStep ==
  ASSUME Tossed, [Next]_vars
  PROVE  Tossed'
<1>1. (pc # "main" => coins \in [1 .. MaxLookups -> BOOLEAN])'
  <2>1. CASE UNCHANGED vars
    BY <2>1 DEF vars, settings, Tossed
  <2>2. CASE ParseOptions
    BY <2>2 DEF ParseOptions, Draws
  <2>3. CASE ~ ParseOptions /\ ~ UNCHANGED vars
    <3>1. pc # "main"
      BY <2>3, RunSteps DEF Construct, Exit, Begin, Running, Partitioning, Serviced
    <3>2. coins' = coins
      BY <2>3, CoinsStay
    <3> QED
      BY <3>1, <3>2 DEF Tossed
  <2> QED
    BY <2>1, <2>2, <2>3
<1>2. (~options.cold => ~run_failed)'
  <2>1. options' = options
    BY SameInputs
  <2>2. CASE StartLookups
    BY <2>1, <2>2 DEF StartLookups, Tossed
  <2>3. CASE ColdRead
    BY <2>1, <2>3 DEF ColdRead
  <2>4. CASE ~ StartLookups /\ ~ ColdRead
    BY <2>1, <2>4, FailureStays DEF Tossed
  <2> QED
    BY <2>2, <2>3, <2>4
<1>3. (why = "out of data" => pc = "failed")'
  BY Reasons DEF Tossed, vars
<1> QED
  BY <1>1, <1>2, <1>3 DEF Tossed

LEMMA BatchedStep ==
  ASSUME Typed, Batched, [Next]_vars
  PROVE  Batched'
<1>1. options' = options /\ idx \in Nat /\ cntr \in Nat
  BY SameInputs DEF Typed
<1>2. CASE ~ (pc' \in {"loop", "batch"})
  BY <1>2 DEF Batched
<1>3. CASE UNCHANGED vars
  BY <1>3 DEF Batched, vars, settings, measuring
<1>4. CASE Repeat
  <2>1. CASE options.threads = 1
    BY <1>1, <1>4, <2>1 DEF Repeat, CoreLoop, Goto, Batched
  <2>2. CASE options.threads # 1
    <3>1. pc' = "batch" /\ cntr' = 0 /\ 0 = 0 * BatchSize /\ 0 \in Nat
      BY <1>4, <2>2 DEF Repeat, Goto
    <3> QED
      BY <1>1, <2>2, <3>1 DEF Batched
  <2> QED
    BY <2>1, <2>2
<1>5. CASE Batch
  <2>1. PICK b \in Nat : cntr = b * BatchSize
    BY <1>5 DEF Batch, Batched
  <2>2. CASE cntr >= Len(lookups)
    BY <1>5, <2>2 DEF Batch, Goto, Batched
  <2>3. CASE ~ (cntr >= Len(lookups))
    <3>1. /\ pc' = "loop" /\ from' = cntr /\ idx' = cntr /\ cntr' = cntr + BatchSize
      BY <1>5, <2>3 DEF Batch, CoreLoop, NextBatch, Goto
    <3>2. options.threads # 1
      BY <1>5 DEF Batch, Batched
    <3> QED
      BY <1>1, <2>1, <3>1, <3>2 DEF Batched
  <2> QED
    BY <2>2, <2>3
<1>6. CASE EndLoop \/ (ColdRead /\ pc' # "loop")
  <2>1. /\ pc = "loop" /\ cntr' = cntr
        /\ pc' = IF options.threads = 1 THEN "timed" ELSE "batch"
    BY <1>6 DEF EndLoop, ColdRead, Serving, LeaveLoop, Goto, measuring
  <2>2. CASE options.threads = 1
    BY <2>1, <2>2 DEF Batched
  <2>3. CASE options.threads # 1
    <3>1. PICK b \in Nat : cntr = b * BatchSize + BatchSize
      BY <2>1, <2>3 DEF Batched
    <3>2. b + 1 \in Nat /\ cntr = (b + 1) * BatchSize
      BY <3>1
    <3> QED
      BY <1>1, <2>1, <2>3, <3>2 DEF Batched
  <2> QED
    BY <2>2, <2>3
<1>7. CASE Read \/ Write \/ (ColdRead /\ pc' = "loop")
  <2>1. /\ pc = "loop" /\ pc' = "loop" /\ UNCHANGED <<from, cntr>>
        /\ idx' = idx \/ idx' = idx + 1
    BY <1>7 DEF Read, Write, ColdRead, Serving, Served
  <2>2. from' <= idx'
    BY <1>1, <2>1 DEF Batched
  <2> QED
    BY <1>1, <2>1, <2>2 DEF Batched
<1>8. ASSUME \/ ParseOptions \/ Construct \/ NotApplicable \/ Begin \/ Build \/ Refuse
             \/ StartErrors \/ TrackError \/ EndErrors \/ StartLookups
      PROVE  ~ (pc' \in {"loop", "batch"})
  BY <1>8 DEF ParseOptions, Construct, NotApplicable, Begin, Build, Refuse,
     StartErrors, TrackError, EndErrors, StartLookups, NextCompetitor, Goto, Fail
<1>9. ASSUME \/ Timed \/ EndRepeats \/ NotFoundInMap \/ ReadStray \/ WriteRefused
             \/ PrintResult \/ PrintNothing \/ Exit
      PROVE  ~ (pc' \in {"loop", "batch"})
  BY <1>9 DEF Timed, EndRepeats, NotFoundInMap, ReadStray, WriteRefused, PrintResult,
     PrintNothing, Exit, NextCompetitor, Goto, Fail
<1>10. ASSUME PutAside PROVE ~ (pc' \in {"loop", "batch"})
  BY <1>10 DEF PutAside, Part!Step, Part!Draw, Part!EndGather, Part!Extract,
     Part!EndExtract, Part!Sort
<1> QED
  BY <1>2, <1>3, <1>4, <1>5, <1>6, <1>7, <1>8, <1>9, <1>10 DEF Next, Step, Terminated

(* Where no account is to be given.                                          *)
LEMMA Unaccounted ==
  ASSUME [Next]_vars, ~ UNCHANGED vars, ~ Build, ~ StartLookups, ~ Repeat, ~ Batch,
         ~ EndLoop, ~ Timed, ~ EndRepeats, ~ Read, ~ Write, ~ ColdRead
  PROVE  pc' \notin {"dispatch", "repeat", "batch", "loop", "timed", "print"}
<1>1. ASSUME \/ ParseOptions \/ Construct \/ NotApplicable \/ Begin \/ Refuse
             \/ StartErrors \/ TrackError \/ EndErrors
      PROVE  pc' \notin {"dispatch", "repeat", "batch", "loop", "timed", "print"}
  BY <1>1 DEF ParseOptions, Construct, NotApplicable, Begin, Refuse, StartErrors,
     TrackError, EndErrors, NextCompetitor, Goto, Fail
<1>2. ASSUME \/ NotFoundInMap \/ ReadStray \/ WriteRefused \/ PrintResult
             \/ PrintNothing \/ Exit
      PROVE  pc' \notin {"dispatch", "repeat", "batch", "loop", "timed", "print"}
  BY <1>2 DEF NotFoundInMap, ReadStray, WriteRefused, PrintResult, PrintNothing, Exit,
     NextCompetitor, Goto, Fail
<1>3. ASSUME PutAside
      PROVE  pc' \notin {"dispatch", "repeat", "batch", "loop", "timed", "print"}
  BY <1>3 DEF PutAside, Part!Step, Part!Draw, Part!EndGather, Part!Extract,
     Part!EndExtract, Part!Sort
<1> QED
  BY <1>1, <1>2, <1>3 DEF Next, Step, Terminated

(* What a Run measures its writes with stays as it is while it measures.      *)
LEMMA SameMeasures ==
  ASSUME UNCHANGED <<options, lookups, write_portion, coins>>
  PROVE  /\ Part!Target' = Part!Target /\ Demand' = Demand
         /\ WritesPerRepetition' = WritesPerRepetition
         /\ Written(Len(lookups)) = WritesPerRepetition
<1>1. /\ Part!Target' = Part!Target
      /\ WritesPerRepetition' = WritesPerRepetition
  BY DEF Part!Target, WritesPerRepetition, WritesIn
<1>2. Demand' = Demand
  BY <1>1 DEF Demand
<1>3. Written(Len(lookups)) = WritesPerRepetition
  BY DEF Written, WritesPerRepetition, PerBatch
<1> QED
  BY <1>1, <1>2, <1>3

LEMMA MeasuringSteps ==
  ASSUME \/ Build \/ StartLookups \/ Repeat \/ Batch \/ EndLoop \/ Timed \/ EndRepeats
         \/ Read \/ Write \/ WriteRefused
  PROVE  UNCHANGED <<options, lookups, write_portion, coins, runNo>>
<1>1. CASE Build \/ StartLookups \/ Repeat \/ Batch \/ EndLoop
  BY <1>1 DEF Build, StartLookups, Repeat, Batch, EndLoop, settings, session
<1>2. CASE Timed \/ EndRepeats \/ Read \/ Write \/ WriteRefused
  BY <1>2 DEF Timed, EndRepeats, Read, Write, WriteRefused, settings, session
<1> QED
  BY <1>1, <1>2

(* Where a request is, in its batch and among all.                           *)
LEMMA PlaceInBatch ==
  ASSUME Typed, InTurn, Batched, ~run_failed, pc = "loop", idx < limit
  PROVE  /\ idx \in Nat /\ from \in Nat /\ from <= idx /\ idx < Len(lookups)
         /\ Len(lookups) \in Nat /\ Len(lookups) <= MaxLookups
         /\ \/ options.threads = 1 /\ from = 0
            \/ /\ options.threads # 1 /\ idx < from + BatchSize
               /\ \E b \in Nat : from = b * BatchSize
<1>1. /\ idx \in Nat /\ limit \in Nat /\ cntr \in Nat /\ Len(lookups) \in Nat
      /\ Len(lookups) <= MaxLookups
  BY DEF Typed
<1>2. limit = IF options.threads = 1 THEN Len(lookups) ELSE Lesser(cntr, Len(lookups))
  BY DEF InTurn
<1>3. limit <= Len(lookups) /\ (options.threads # 1 => limit <= cntr)
  BY <1>1, <1>2 DEF Lesser
<1>4. /\ from \in Nat /\ from <= idx /\ (options.threads = 1 => from = 0)
      /\ options.threads # 1 =>
           cntr = from + BatchSize /\ \E b \in Nat : from = b * BatchSize
  BY DEF Batched
<1>5. idx < Len(lookups) /\ (options.threads # 1 => idx < from + BatchSize)
  BY <1>1, <1>3, <1>4
<1> QED
  BY <1>1, <1>4, <1>5

LEMMA AccountedStep ==
  ASSUME Aside, InTurn, Repeated, Tossed, Batched, Accounted, [Next]_vars
  PROVE  Accounted'
<1> SUFFICES ASSUME runNo' = 1, write_portion' > 0, ~ options'.cold
             PROVE  Accounted'
  BY DEF Accounted
<1> DEFINE W == WritesPerRepetition
           T == Part!Target
           n == Len(lookups)
           left == Len(insertion_data)
<1>1. /\ ~options.cold /\ ~run_failed /\ options.repeats \in Int
      /\ options' = options
  BY SameInputs DEF Tossed, Repeated
<1>2. /\ n \in Nat /\ n <= MaxLookups /\ cntr \in Nat /\ idx \in Nat
      /\ left \in Nat /\ T \in Nat
  BY TargetIsNat DEF Aside, Typed, Apart
<1>3. CASE UNCHANGED vars
  <2>1. /\ UNCHANGED <<options, lookups, write_portion, coins, runNo, pc, why, rep, idx,
                       cntr, insertion_data>>
    BY <1>3 DEF vars, settings, session, partition, measuring
  <2>2. /\ Written(idx)' = Written(idx)
        /\ Written(Lesser(cntr, n))' = Written(Lesser(cntr, n))
    BY <2>1 DEF Written, PerBatch, WritesIn, Lesser
  <2>3. T' = T /\ W' = W /\ Demand' = Demand
    BY <2>1, SameMeasures
  <2> QED
    BY <2>1, <2>2, <2>3 DEF Accounted, Left
<1>4. CASE ColdRead
  BY <1>1, <1>4 DEF ColdRead
<1>5. ASSUME ~ UNCHANGED vars, why' = "out of data"
      PROVE  WriteRefused /\ insertion_data = <<>> /\ pc' = "failed"
  BY <1>5, Reasons DEF Tossed
<1>6. CASE WriteRefused /\ insertion_data = <<>> /\ pc' = "failed"
  <2>1. /\ UNCHANGED <<options, lookups, write_portion, coins, runNo>>
        /\ pc = "loop" /\ idx < limit /\ coins[idx - from + 1]
    BY <1>6, MeasuringSteps DEF WriteRefused, Serving, IsWrite
  <2>2. /\ rep \in 0 .. options.repeats /\ rep < options.repeats
        /\ left + (rep * W + Written(idx)) = T
    BY <2>1 DEF Accounted, Left
  <2>3. coins \in [1 .. MaxLookups -> BOOLEAN]
    BY <2>1 DEF Tossed
  <2>4. Written(idx) \in Nat /\ Written(idx + 1) = Written(idx) + 1
    <3>1. idx < MaxLookups
      BY <1>1, <1>2, <2>1, PlaceInBatch DEF Aside
    <3> QED
      BY <1>1, <2>1, <2>3, <3>1, PlaceInBatch, WrittenNext DEF Aside
  <2>5. W \in Nat /\ Written(idx + 1) <= W
    <3>1. idx + 1 \in Nat /\ idx + 1 <= n
      BY <1>1, <1>2, <2>1, PlaceInBatch DEF Aside
    <3> QED
      BY <1>2, <2>1, <2>3, <3>1, WrittenGrows, SameMeasures
  <2>6. left = 0
    BY <1>6
  <2>7. Demand > T
    <3>1. Demand = options.repeats * W
      BY DEF Demand
    <3> HIDE DEF W, T, left
    <3>2. rep \in Nat /\ options.repeats \in Nat /\ rep + 1 <= options.repeats
      BY <1>1, <2>2
    <3>3. (rep + 1) * W <= options.repeats * W /\ (rep + 1) * W = rep * W + W
      BY <2>5, <3>2
    <3>4. rep * W \in Nat /\ options.repeats * W \in Nat
      BY <2>5, <3>2
    <3> QED
      BY <1>2, <2>2, <2>4, <2>5, <2>6, <3>1, <3>3, <3>4
  <2>8. T' = T /\ Demand' = Demand
    BY <2>1, SameMeasures
  <2> QED
    BY <1>6, <2>7, <2>8 DEF Accounted
<1>7. ASSUME ~ UNCHANGED vars, ~ (WriteRefused /\ insertion_data = <<>> /\ pc' = "failed"),
             ~ Build, ~ StartLookups, ~ Repeat, ~ Batch, ~ EndLoop, ~ Timed,
             ~ EndRepeats, ~ Read, ~ Write, ~ ColdRead
      PROVE  Accounted'
  <2>1. pc' \notin {"dispatch", "repeat", "batch", "loop", "timed", "print"}
    BY <1>7, Unaccounted
  <2>2. why' # "out of data"
    BY <1>5, <1>7
  <2> QED
    BY <2>1, <2>2 DEF Accounted
<1>8. CASE \/ Build \/ StartLookups \/ Repeat \/ Batch \/ EndLoop \/ Timed
           \/ EndRepeats \/ Read \/ Write
  <2>1. /\ UNCHANGED <<options, lookups, write_portion, coins, runNo>>
        /\ runNo = 1 /\ write_portion > 0
    BY <1>8, MeasuringSteps
  <2>2. /\ T' = T /\ W' = W /\ Demand' = Demand /\ Written(n) = W
    BY <2>1, SameMeasures
  <2>3. pc # "main" /\ why' # "out of data"
    <3>1. pc # "main"
      BY <1>8 DEF Build, StartLookups, Repeat, Batch, EndLoop, Timed, EndRepeats, Read,
         Write, Serving
    <3>2. UNCHANGED why /\ pc # "failed"
      BY <1>8 DEF Build, StartLookups, Repeat, Batch, EndLoop, Timed, EndRepeats, Read,
         Write, Serving, CoreLoop, LeaveLoop, Goto
    <3> QED
      BY <3>1, <3>2 DEF Tossed
  <2>4. coins \in [1 .. MaxLookups -> BOOLEAN]
    BY <2>3 DEF Tossed
  <2>5. W \in Nat
    BY <1>2, <2>2, <2>4, WrittenGrows
  <2>6. Written(0) = 0
    <3>1. WritesIn(0) = 0 /\ PerBatch \in Nat
      BY <2>4, WritesCount DEF PerBatch, Lesser
    <3>2. 0 \div BatchSize = 0 /\ 0 % BatchSize = 0
      OBVIOUS
    <3> QED
      BY <3>1, <3>2 DEF Written
  <2>7. CASE Build
    <3>1. pc = "build" /\ pc' = "dispatch" /\ insertion_data' = insertion_data
      BY <2>7 DEF Build, Goto, partition
    <3>2. left = T
      BY <2>1, <3>1 DEF Aside, FirstRun
    <3>3. Left(0)'
      BY <1>2, <2>2, <3>1, <3>2 DEF Left
    <3> QED
      BY <2>3, <3>1, <3>3 DEF Accounted
  <2>8. CASE StartLookups
    <3>1. /\ pc = "dispatch" /\ insertion_data' = insertion_data
          /\ \/ pc' = "print" /\ options.build
             \/ pc' = "crashed"
             \/ pc' = "repeat" /\ rep' = 0 /\ ~ (options.repeats < 0)
      BY <2>8 DEF StartLookups, Goto, partition
    <3>2. left + 0 = T
      BY <1>1, <2>1, <3>1 DEF Accounted, Left
    <3>3. 0 * W = 0
      BY <2>5
    <3>4. pc' = "repeat" => rep' \in 0 .. options.repeats /\ Left(rep * W)'
      BY <1>1, <2>2, <3>1, <3>2, <3>3 DEF Left
    <3> QED
      BY <1>1, <2>3, <3>1, <3>4 DEF Accounted
  <2>9. CASE Repeat
    <3>1. /\ pc = "repeat" /\ rep < options.repeats /\ rep' = rep
          /\ insertion_data' = insertion_data
          /\ \/ pc' = "loop" /\ idx' = 0
             \/ pc' = "batch" /\ cntr' = 0
      BY <2>9 DEF Repeat, CoreLoop, Goto, partition
    <3>2. rep \in 0 .. options.repeats /\ left + rep * W = T
      BY <1>1, <2>1, <3>1 DEF Accounted, Left
    <3>3. rep * W + 0 = rep * W
      BY <2>5, <3>2
    <3>4. pc' = "loop" => Written(idx)' = 0
      BY <2>1, <2>6, <3>1 DEF Written, PerBatch, WritesIn, Lesser
    <3>5. pc' = "batch" => Written(Lesser(cntr, n))' = 0
      <4>1. Lesser(0, n) = 0
        BY <1>2 DEF Lesser
      <4>2. pc' = "batch" => Lesser(cntr, n)' = 0
        BY <2>1, <3>1, <4>1 DEF Lesser
      <4> QED
        BY <2>1, <2>6, <4>2 DEF Written, PerBatch, WritesIn, Lesser
    <3>6. /\ pc' = "loop" => Left(rep * W + Written(idx))'
          /\ pc' = "batch" => Left(rep * W + Written(Lesser(cntr, n)))'
      BY <2>2, <3>1, <3>2, <3>3, <3>4, <3>5 DEF Left
    <3> QED
      BY <1>1, <2>3, <3>1, <3>2, <3>6 DEF Accounted
  <2>10. CASE Batch
    <3>1. /\ pc = "batch" /\ UNCHANGED <<rep, insertion_data>>
          /\ \/ cntr >= n /\ pc' = "timed"
             \/ ~ (cntr >= n) /\ pc' = "loop" /\ idx' = cntr
      BY <2>10 DEF Batch, CoreLoop, Goto, partition
    <3>2. /\ rep \in 0 .. options.repeats /\ rep < options.repeats
          /\ left + (rep * W + Written(Lesser(cntr, n))) = T
      BY <1>1, <2>1, <3>1 DEF Accounted, Left
    <3>3. pc' = "timed" => Left(rep * W + W)'
      <4>1. cntr >= n => Lesser(cntr, n) = n
        BY <1>2 DEF Lesser
      <4> QED
        BY <2>2, <3>1, <3>2, <4>1 DEF Left
    <3>4. pc' = "loop" => Left(rep * W + Written(idx))'
      <4>1. ~ (cntr >= n) => Lesser(cntr, n) = cntr
        BY <1>2 DEF Lesser
      <4>2. pc' = "loop" => Written(idx)' = Written(cntr)
        BY <2>1, <3>1 DEF Written, PerBatch, WritesIn, Lesser
      <4> QED
        BY <2>2, <3>1, <3>2, <4>1, <4>2 DEF Left
    <3> QED
      BY <1>1, <2>3, <3>1, <3>2, <3>3, <3>4 DEF Accounted
  <2>11. CASE EndLoop
    <3>1. /\ pc = "loop" /\ idx >= limit /\ UNCHANGED <<rep, cntr, insertion_data>>
          /\ pc' = IF options.threads = 1 THEN "timed" ELSE "batch"
      BY <2>11 DEF EndLoop, LeaveLoop, Goto, measuring, partition
    <3>2. /\ rep \in 0 .. options.repeats /\ rep < options.repeats
          /\ left + (rep * W + Written(idx)) = T
      BY <1>1, <2>1, <3>1 DEF Accounted, Left
    <3>3. idx = IF options.threads = 1 THEN n ELSE Lesser(cntr, n)
      <4>1. /\ idx <= limit
            /\ limit = IF options.threads = 1 THEN n ELSE Lesser(cntr, n)
        BY <1>1, <3>1 DEF InTurn
      <4>2. limit \in Nat
        BY DEF Aside, Typed
      <4> QED
        BY <1>2, <3>1, <4>1, <4>2
    <3>4. pc' = "timed" => Left(rep * W + W)'
      BY <2>2, <3>1, <3>2, <3>3 DEF Left
    <3>5. pc' = "batch" => Left(rep * W + Written(Lesser(cntr, n)))'
      <4>1. Written(Lesser(cntr, n))' = Written(Lesser(cntr, n))
        BY <2>1, <3>1 DEF Written, PerBatch, WritesIn, Lesser
      <4> QED
        BY <2>2, <3>1, <3>2, <3>3, <4>1 DEF Left
    <3> QED
      BY <1>1, <2>3, <3>1, <3>2, <3>4, <3>5 DEF Accounted
  <2>12. CASE Timed
    <3>1. /\ pc = "timed" /\ pc' = "repeat" /\ rep' = rep + 1
          /\ insertion_data' = insertion_data
      BY <1>1, <2>12 DEF Timed, Goto, partition
    <3>2. /\ rep \in 0 .. options.repeats /\ rep < options.repeats
          /\ left + (rep * W + W) = T
      BY <1>1, <2>1, <3>1 DEF Accounted, Left
    <3>3. rep' \in 0 .. options.repeats /\ rep' * W = rep * W + W
      <4>1. rep \in Nat /\ rep + 1 \in 0 .. options.repeats
        BY <1>1, <3>2
      <4>2. (rep + 1) * W = rep * W + W
        BY <2>5, <4>1
      <4> QED
        BY <3>1, <4>1, <4>2
    <3>4. Left(rep * W)'
      BY <2>2, <3>1, <3>2, <3>3 DEF Left
    <3> QED
      BY <1>1, <2>3, <3>1, <3>3, <3>4 DEF Accounted
  <2>13. CASE EndRepeats
    <3>1. pc = "repeat" /\ rep >= options.repeats /\ pc' = "print"
      BY <2>13 DEF EndRepeats, Goto
    <3>2. rep \in 0 .. options.repeats /\ left + rep * W = T
      BY <1>1, <2>1, <3>1 DEF Accounted, Left
    <3>3. rep = options.repeats /\ rep \in Nat
      BY <1>1, <3>1, <3>2
    <3>4. Demand = rep * W /\ rep * W \in Nat
      BY <2>5, <3>3 DEF Demand
    <3>5. Demand <= T
      BY <1>2, <3>2, <3>4
    <3> QED
      BY <2>2, <2>3, <3>1, <3>5 DEF Accounted
  <2>14. CASE Read \/ Write
    <3>1. /\ pc = "loop" /\ pc' = "loop" /\ idx < limit /\ idx' = idx + 1 /\ rep' = rep
      BY <2>14 DEF Read, Write, Serving, Served
    <3>2. /\ rep \in 0 .. options.repeats /\ rep < options.repeats
          /\ left + (rep * W + Written(idx)) = T
      BY <1>1, <2>1, <3>1 DEF Accounted, Left
    <3>3. /\ Written(idx) \in Nat
          /\ Written(idx + 1) =
               IF coins[idx - from + 1] THEN Written(idx) + 1 ELSE Written(idx)
      <4>1. idx < MaxLookups
        BY <1>1, <1>2, <3>1, PlaceInBatch DEF Aside
      <4> QED
        BY <1>1, <2>4, <3>1, <4>1, PlaceInBatch, WrittenNext DEF Aside
    <3>4. Written(idx)' = Written(idx + 1)
      BY <2>1, <3>1 DEF Written, PerBatch, WritesIn, Lesser
    <3>5. CASE Read
      <4>1. ~ coins[idx - from + 1] /\ insertion_data' = insertion_data
        BY <1>1, <3>5 DEF Read, IsWrite, partition
      <4>2. Left(rep * W + Written(idx))'
        BY <2>2, <3>1, <3>2, <3>3, <3>4, <4>1 DEF Left
      <4> QED
        BY <1>1, <2>3, <3>1, <3>2, <4>2 DEF Accounted
    <3>6. CASE Write
      <4>1. /\ coins[idx - from + 1] /\ insertion_data # <<>>
            /\ insertion_data' = Front(insertion_data)
        BY <3>6 DEF Write, IsWrite
      <4>2. Len(insertion_data') = left - 1
        <5>1. insertion_data \in Seq(DOMAIN data) /\ left \in Nat
          BY DEF Aside, Apart
        <5>2. left # 0 /\ left - 1 \in Nat
          BY <4>1, <5>1
        <5>3. Front(insertion_data) = [i \in 1 .. left - 1 |-> insertion_data[i]]
          BY <5>1, <5>2 DEF Front
        <5> QED
          BY <4>1, <5>2, <5>3
      <4>3. rep * W \in Nat
        BY <1>1, <2>5, <3>2
      <4>4. left - 1 + (rep * W + Written(idx + 1)) = T
        BY <1>2, <3>2, <3>3, <4>1, <4>3
      <4>5. Left(rep * W + Written(idx))'
        BY <2>2, <3>1, <3>4, <4>2, <4>4 DEF Left
      <4> QED
        BY <1>1, <2>3, <3>1, <3>2, <4>5 DEF Accounted
    <3> QED
      BY <2>14, <3>5, <3>6
  <2> QED
    BY <1>8, <2>7, <2>8, <2>9, <2>10, <2>11, <2>12, <2>13, <2>14
<1> QED
  BY <1>3, <1>4, <1>6, <1>7, <1>8

(***************************************************************************)
(* Whether the first Run fails for want of data to insert is decided by the     *)
(* draws of one batch: it fails only if all repetitions together write more    *)
(* than was put aside, and it ends only if they do not, for every number of    *)
(* requests, threads and repetitions, every batch size and every seed.        *)
(***************************************************************************)
THEOREM ShortageForetold == Spec => []RunsOutAsForetold
<1> DEFINE RInv == Aside /\ InTurn /\ Repeated /\ Tossed /\ Batched /\ Accounted
<1>1. Init => RInv
  <2>1. Init => /\ pc = "main" /\ options.repeats \in Int /\ ~ run_failed
                /\ why = "none" /\ runNo = 0
    BY CallAssumption DEF Init
  <2> QED
    BY <2>1, AsideInvariant DEF InTurn, Repeated, Tossed, Batched, Accounted
<1>2. RInv /\ [Next]_vars => RInv'
  BY AsideInvariant, InTurnStep, RepeatedStep, TossedStep, BatchedStep, AccountedStep
     DEF Aside
<1>3. RInv => RunsOutAsForetold
  BY DEF Accounted, RunsOutAsForetold
<1> HIDE DEF RInv
<1> QED
  BY <1>1, <1>2, <1>3, PTL DEF Spec
-----------------------------------------------------------------------------
(* The simple session.  Repetitions are counted up to the number asked for.    *)
InRound ==
  /\ options.repeats \in Int
  /\ InService => rep \in 0 .. options.repeats
  /\ pc \in {"batch", "loop", "timed"} => rep < options.repeats

LEMMA InRoundStep ==
  ASSUME InRound, [Next]_vars
  PROVE  InRound'
<1>1. options' = options /\ options.repeats \in Int
  BY SameInputs DEF InRound
<1>2. SUFFICES ASSUME InService'
               PROVE  /\ rep' \in 0 .. options.repeats
                      /\ pc' \in {"batch", "loop", "timed"} => rep' < options.repeats
  BY <1>1 DEF InRound, InService
<1>3. CASE StartLookups
  BY <1>1, <1>2, <1>3 DEF StartLookups, Goto, InService
<1>4. CASE Repeat
  BY <1>1, <1>4 DEF Repeat, InRound, InService
<1>5. CASE Timed
  <2>1. /\ rep \in 0 .. options.repeats /\ rep < options.repeats
        /\ rep' = rep + 1 /\ pc' \in {"repeat", "print"}
    BY <1>5 DEF Timed, Goto, InRound, InService
  <2> QED
    BY <1>1, <2>1
<1>6. ASSUME Batch \/ EndLoop \/ Read \/ ColdRead \/ Write \/ UNCHANGED vars
      PROVE  /\ rep' \in 0 .. options.repeats
             /\ pc' \in {"batch", "loop", "timed"} => rep' < options.repeats
  <2>1. UNCHANGED <<pc, rep>> \/ (pc \in {"batch", "loop", "timed"} /\ rep' = rep)
    BY <1>6 DEF Batch, EndLoop, Read, ColdRead, Write, Serving, vars, measuring
  <2> QED
    BY <1>2, <2>1 DEF InRound, InService
<1>7. ASSUME \/ ParseOptions \/ Construct \/ NotApplicable \/ Begin \/ PutAside \/ Build
             \/ Refuse \/ StartErrors \/ TrackError \/ EndErrors
      PROVE  ~ InService'
  BY <1>7 DEF ParseOptions, Construct, NotApplicable, Begin, PutAside, Part!Step,
     Part!Draw, Part!EndGather, Part!Extract, Part!EndExtract, Part!Sort, Build, Refuse,
     StartErrors, TrackError, EndErrors, NextCompetitor, Goto, Fail, InService
<1>8. ASSUME \/ EndRepeats \/ NotFoundInMap \/ ReadStray \/ WriteRefused \/ PrintResult
             \/ PrintNothing \/ Exit
      PROVE  ~ InService'
  BY <1>8 DEF EndRepeats, NotFoundInMap, ReadStray, WriteRefused, PrintResult,
     PrintNothing, Exit, NextCompetitor, Goto, Fail, InService
<1> QED
  BY <1>2, <1>3, <1>4, <1>5, <1>6, <1>7, <1>8 DEF Next, Step, Terminated

(* What a step leaves alone, and steps that the session does not see.         *)
SameStock == UNCHANGED <<data, options, lookups, runNo, insertion_data>>

LEMMA Unserved ==
  /\ ~InService => Session!OutOfService
  /\ ~InService' => (Session!OutOfService)'
BY DEF Session!OutOfService, Findable, Certain, Rounds, Progress

LEMMA SameSession ==
  SameStock /\ answer' = answer =>
    UNCHANGED <<data, options.repeats, AskedFor, runNo, Withheld, Given>>
BY DEF SameStock, AskedFor, Withheld, Given, ToSet

LEMMA Phases ==
  /\ Phase = "over" <=> Over
  /\ Phase = "idle" <=> ~Over /\ ~InService
  /\ Phase = "spoilt" <=> InService /\ run_failed
  /\ Phase = "serving" <=> InService /\ ~run_failed
BY DEF Phase, Over, InService

LEMMA PhasesNext ==
  /\ Phase' = "over" <=> Over'
  /\ Phase' = "idle" <=> ~Over' /\ ~InService'
  /\ Phase' = "spoilt" <=> InService' /\ run_failed'
  /\ Phase' = "serving" <=> InService' /\ ~run_failed'
BY DEF Phase, Over, InService

(* Out of service the session sees who comes and goes, and the end.           *)
LEMMA OutsideStep ==
  ASSUME SameStock, answer' = answer, ~InService, ~InService', ~Over
  PROVE  UNCHANGED Session!vars \/ Session!End
<1>1. UNCHANGED <<data, options.repeats, AskedFor, runNo, Withheld, Given>>
  BY SameSession
<1>2. Session!OutOfService /\ (Session!OutOfService)'
  BY Unserved
<1>3. CASE Over'
  BY <1>1, <1>2, <1>3, Phases, PhasesNext DEF Session!End, Session!Leave, Session!input
<1>4. CASE ~Over'
  <2>1. Phase' = Phase
    BY <1>4 DEF Phase
  <2> QED
    BY <1>1, <1>2, <2>1 DEF Session!vars, Session!input, Session!service,
       Session!progress, Session!OutOfService
<1> QED
  BY <1>3, <1>4

LEMMA FailingStep ==
  ASSUME SameStock, answer' = answer, ~Over, Over'
  PROVE  Session!End
<1>1. UNCHANGED <<data, options.repeats, AskedFor, runNo, Withheld, Given>>
  BY SameSession
<1>2. ~InService'
  BY DEF Over, InService
<1>3. (Session!OutOfService)'
  BY <1>2, Unserved
<1> QED
  BY <1>1, <1>3, Phases, PhasesNext DEF Session!End, Session!Leave, Session!input

(* While in service it is the same rows that are found, and the same keys that  *)
(* the index is sure about.                                                *)
SameIndex == UNCHANGED <<schedule, index, write_portion>>

LEMMA SameFindable ==
  ASSUME SameStock, SameIndex, InService, InService'
  PROVE  UNCHANGED <<Findable, Certain>>
<1>1. Held' = Held /\ Competitor' = Competitor /\ Unique' = Unique
  BY DEF SameStock, SameIndex, Held, Competitor, Unique
<1>2. KeptApart' = KeptApart /\ \A key : Answerable(key)' = Answerable(key)
  BY <1>1 DEF SameIndex, KeptApart, AllRowsKept, Answerable
<1> QED
  BY <1>1, <1>2 DEF SameStock, SameIndex, Findable, Certain

LEMMA InsideStep ==
  ASSUME SameStock, SameIndex, InService, InService',
         UNCHANGED <<answer, run_failed, rep, Progress>>
  PROVE  UNCHANGED Session!vars
<1>1. UNCHANGED <<data, options.repeats, AskedFor, runNo, Withheld, Given>>
  BY SameSession
<1>2. UNCHANGED <<Findable, Certain, Rounds, Phase>>
  BY SameFindable DEF Rounds, Phase, Over, InService
<1> QED
  BY <1>1, <1>2 DEF Session!vars, Session!input, Session!service, Session!progress

(* The rows of a key that the index is sure about are in it.                  *)
LEMMA RowsFound ==
  ASSUME Indexed, InService, NEW key \in Certain, key \in ToSet(AskedFor)
  PROVE  MatchingRows(key) \subseteq Findable
<1>1. CASE write_portion = 0
  BY <1>1 DEF Findable, MatchingRows
<1>2. CASE write_portion # 0
  <2>1. KeptApart
    BY <1>2 DEF Certain
  <2>2. Serviced
    BY DEF InService, Serviced
  <2>3. Wanted \subseteq Held
    BY <2>1, <2>2 DEF Indexed, KeptApart
  <2>4. PICK i \in DOMAIN AskedFor : AskedFor[i] = key
    BY DEF ToSet
  <2>5. i \in DOMAIN lookups /\ lookups[i].key = key
    BY <2>4 DEF AskedFor
  <2>6. MatchingRows(key) \subseteq Wanted
    BY <2>5 DEF MatchingRows, Wanted
  <2> QED
    BY <1>2, <2>3, <2>6 DEF Findable
<1> QED
  BY <1>1, <1>2

(* A request is the one that the session comes to.                            *)
LEMMA RequestIsNext ==
  ASSUME Typed, Prepared, pc = "loop", idx < limit
  PROVE  /\ idx \in Nat /\ idx < Len(AskedFor) /\ idx + 1 \in DOMAIN AskedFor
         /\ Request \in Asked /\ Request.key \in Keys
         /\ AskedFor[idx + 1] = Request.key
         /\ Request.key \in ToSet(AskedFor)
<1>1. /\ limit <= Len(lookups) /\ lookups \in Seq(Asked) /\ idx \in Nat /\ limit \in Nat
  BY DEF Prepared, Typed
<1>2. idx < Len(lookups) /\ idx + 1 \in 1 .. Len(lookups)
  BY <1>1
<1>3. /\ DOMAIN AskedFor = DOMAIN lookups /\ DOMAIN lookups = 1 .. Len(lookups)
      /\ Len(AskedFor) = Len(lookups) /\ AskedFor[idx + 1] = Request.key
  <2>1. DOMAIN AskedFor = 1 .. Len(lookups) /\ Len(lookups) \in Nat
    BY <1>1 DEF AskedFor
  <2> QED
    BY <1>1, <1>2, <2>1 DEF AskedFor, Request
<1>4. Request \in Asked
  BY <1>1, <1>2 DEF Request
<1> QED
  BY <1>1, <1>2, <1>3, <1>4 DEF Asked, ToSet

(* Whatever is returned are rows of the key: all of them if the index is sure.  *)
LEMMA AnswerGiven ==
  ASSUME Typed, Prepared, Indexed, Read \/ ColdRead, Complete', Precise'
  PROVE  /\ Session!Answer(Request.key)
         /\ Request.key \in Certain => answer'.rows = MatchingRows(Request.key)
<1>1. /\ pc = "loop" /\ idx < limit /\ pc' \in {"loop", "batch", "timed"}
      /\ UNCHANGED <<data, schedule, index, write_portion, lookups>>
  BY DEF Read, ColdRead, Serving, LeaveLoop, Goto, settings, session
<1>2. Request.key \in Keys /\ Request.key \in ToSet(AskedFor)
  BY <1>1, RequestIsNext
<1>3. PICK w, rows :
        /\ answer' = [key |-> Request.key, window |-> w, rows |-> rows]
        /\ \/ rows = WarmRows(Request.key, w)
           \/ rows \in PromisedRows(Request.key, w)
  BY DEF Read, ColdRead
<1>4. rows \subseteq MatchingRows(Request.key)
  BY <1>3 DEF WarmRows, PromisedRows
<1>5. answer' # NoAnswer
  BY <1>2, <1>3 DEF NoAnswer, Keys
<1>6. Competitor' = Competitor /\ Unique' = Unique
  BY <1>1 DEF Competitor, Unique
<1>7. ASSUME Request.key \in Certain
      PROVE  rows = MatchingRows(Request.key)
  <2>1. Serviced' /\ answer'.key = Request.key /\ answer'.rows = rows
    BY <1>1, <1>3 DEF Serviced
  <2>2. MatchingRows(answer.key)' = MatchingRows(Request.key)
    BY <1>1, <2>1 DEF MatchingRows
  <2>3. CASE KeptApart
    BY <1>1, <1>5, <1>6, <2>1, <2>2, <2>3 DEF Precise, KeptApart, AllRowsKept, NoAnswer
  <2>4. CASE write_portion = 0 /\ Answerable(Request.key)
    <3>1. Answerable(answer.key)'
      BY <1>1, <1>6, <2>1, <2>4 DEF Answerable
    <3> QED
      BY <1>1, <1>5, <2>1, <2>2, <2>4, <3>1 DEF Complete, NoAnswer
  <2> QED
    BY <1>7, <2>3, <2>4 DEF Certain
<1>8. Session!RowsOf(Request.key) = MatchingRows(Request.key)
  BY DEF Session!RowsOf, MatchingRows
<1>9. rows \in Session!Answers(Request.key)
  <2>1. CASE Request.key \in Certain
    <3>1. InService
      BY <1>1 DEF InService
    <3>2. MatchingRows(Request.key) \subseteq Findable
      BY <1>2, <2>1, <3>1, RowsFound
    <3> QED
      BY <1>7, <1>8, <2>1, <3>2 DEF Session!Answers
  <2>2. CASE Request.key \notin Certain
    BY <1>4, <1>8, <2>2 DEF Session!Answers
  <2> QED
    BY <2>1, <2>2
<1>10. Given' = [key |-> Request.key, rows |-> rows]
  BY <1>3 DEF Given
<1> QED
  BY <1>3, <1>7, <1>9, <1>10 DEF Session!Answer

LEMMA InTurnProgress ==
  ASSUME Typed, InTurn, pc = "loop", ~run_failed
  PROVE  /\ Progress = idx /\ seen \in Seq(Nat)
         /\ Len(Append(seen, idx)) = idx + 1
<1>1. idx \in Nat /\ seen = FirstOnes(idx)
  BY DEF Typed, InTurn
<1>2. seen \in Seq(Nat) /\ Len(seen) = idx
  <2>1. \A k \in Nat : /\ [i \in 1 .. k |-> i - 1] \in Seq(Nat)
                       /\ Len([i \in 1 .. k |-> i - 1]) = k
    OBVIOUS
  <2> QED
    BY <1>1, <2>1 DEF FirstOnes
<1>3. Progress = Len(seen)
  BY DEF Progress, InService
<1> QED
  BY <1>1, <1>2, <1>3

(* A lookup is a read of the session; one whose check fails spoils it.         *)
LEMMA ReadStep ==
  ASSUME Typed, InTurn, Prepared, Indexed, Read \/ ColdRead, Complete', Precise'
  PROVE  Session!Next
<1>1. /\ pc = "loop" /\ idx < limit /\ InService /\ InService'
      /\ SameStock /\ SameIndex /\ rep' = rep
  BY DEF Read, ColdRead, Serving, LeaveLoop, Goto, settings, session, partition,
     InService, SameStock, SameIndex
<1>2. /\ UNCHANGED <<data, options.repeats, AskedFor, runNo, Withheld>>
      /\ UNCHANGED <<Findable, Certain, Rounds>>
  BY <1>1, SameFindable DEF SameStock, AskedFor, Withheld, ToSet, Rounds
<1>3. /\ idx \in Nat /\ idx < Len(AskedFor)
      /\ AskedFor[idx + 1] = Request.key /\ Request.key \in ToSet(AskedFor)
      /\ Request \in Asked /\ Request.key \in Keys
  BY <1>1, RequestIsNext
<1>4. /\ Session!Answer(Request.key)
      /\ Request.key \in Certain => answer'.rows = MatchingRows(Request.key)
  BY AnswerGiven
<1>5. CASE ~run_failed /\ ~run_failed'
  <2>1. pc' = "loop" /\ seen' = Append(seen, idx)
    BY <1>1, <1>5 DEF Read, ColdRead, Served
  <2>2. Progress = idx /\ Progress' = Progress + 1
    BY <1>1, <1>5, <2>1, InTurnProgress DEF Progress, InService
  <2>3. Session!Answer(Session!Request)
    BY <1>3, <1>4, <2>2 DEF Session!Request
  <2>4. Phase = "serving" /\ Phase' = "serving"
    BY <1>1, <1>5, Phases, PhasesNext
  <2> QED
    BY <1>2, <1>3, <2>2, <2>3, <2>4 DEF Session!Read, Session!Next, Session!input
<1>6. CASE run_failed
  <2>1. run_failed'
    BY <1>6 DEF Read, ColdRead
  <2>2. Phase = "spoilt" /\ Phase' = "spoilt" /\ Progress = 0 /\ Progress' = 0
    BY <1>1, <1>6, <2>1, Phases, PhasesNext DEF Progress
  <2> QED
    BY <1>2, <1>3, <1>4, <2>2 DEF Session!ReadSpoilt, Session!Next, Session!input,
       Session!service, Session!progress, Session!ToSet, ToSet
<1>7. CASE ~run_failed /\ run_failed'
  <2>1. Progress = idx /\ Progress' = 0
    BY <1>1, <1>7, InTurnProgress DEF Progress
  <2>2. Session!Request = Request.key
    BY <1>3, <2>1 DEF Session!Request
  <2>3. Phase = "serving" /\ Phase' = "spoilt"
    BY <1>1, <1>7, Phases, PhasesNext
  <2>4. Session!RowsOf(Request.key) = MatchingRows(Request.key)
    BY DEF Session!RowsOf, MatchingRows
  <2>5. ASSUME Request.key \in Certain, MatchingRows(Request.key) # {}
        PROVE  FALSE
    <3>1. SumOf(answer'.rows) # Request.result
      <4>1. CASE Read
        BY <1>7, <4>1 DEF Read
      <4>2. CASE ColdRead
        <5>1. PICK w, rows :
                /\ answer' = [key |-> Request.key, window |-> w, rows |-> rows]
                /\ CheckResults(rows, Request) => UNCHANGED run_failed
          BY <4>2 DEF ColdRead
        <5>2. answer'.rows = rows /\ ~ CheckResults(rows, Request)
          BY <1>7, <5>1
        <5> QED
          BY <5>2 DEF CheckResults
      <4> QED
        BY <4>1, <4>2
    <3>2. Request.result = Expected(data, Request.key)
      BY <1>3 DEF Asked
    <3>3. Expected(data, Request.key) = SumOf(MatchingRows(Request.key))
      BY <2>5 DEF Expected, MatchingRows
    <3> QED
      BY <1>4, <2>5, <3>1, <3>2, <3>3
  <2> QED
    BY <1>2, <1>3, <1>4, <2>1, <2>2, <2>3, <2>4, <2>5
       DEF Session!Spoil, Session!Next, Session!input
<1> QED
  BY <1>5, <1>6, <1>7

(* A write brings in the row at the end of those put aside.                   *)
LEMMA WriteStep ==
  ASSUME Typed, Portioned, Apart, InTurn, Prepared, Indexed, Tossed, Write
  PROVE  Session!Next
<1>1. /\ pc = "loop" /\ pc' = "loop" /\ idx < limit /\ InService /\ InService'
      /\ UNCHANGED <<data, options, lookups, runNo, schedule, write_portion>>
      /\ UNCHANGED <<rep, answer, run_failed>> /\ ~options.cold /\ insertion_data # <<>>
      /\ seen' = Append(seen, idx)
  BY DEF Write, IsWrite, Serving, Served, settings, session, InService
<1>2. /\ UNCHANGED <<data, options.repeats, AskedFor, runNo, Rounds, Given>>
      /\ ~run_failed /\ ~run_failed'
  BY <1>1 DEF AskedFor, Rounds, Given, Tossed
<1>3. idx \in Nat /\ idx < Len(AskedFor)
  BY <1>1, RequestIsNext
<1>4. Progress = idx /\ Progress' = Progress + 1
  BY <1>1, <1>2, InTurnProgress DEF Progress
<1>5. Phase = "serving" /\ Phase' = "serving"
  BY <1>1, <1>2, Phases, PhasesNext
<1>6. write_portion # 0
  BY <1>1 DEF Portioned
<1>7. Certain' = Certain
  <2>1. KeptApart' = KeptApart
    BY <1>1 DEF KeptApart, AllRowsKept, Unique, Competitor
  <2> QED
    BY <1>1, <1>6, <2>1 DEF Certain
<1> DEFINE last == Last(insertion_data)
<1>8. last \in Withheld /\ Withheld' = Withheld \ {last}
  BY LastTaken DEF Withheld, ToSet
<1>9. Certain # {} => Findable' = Findable \cup {last}
  <2> SUFFICES ASSUME Certain # {} PROVE Findable' = Findable \cup {last}
    OBVIOUS
  <2>1. KeptApart
    BY <1>6 DEF Certain
  <2>2. Held' = Held \cup {last}
    BY <2>1, IndexedWrite DEF KeptApart
  <2> QED
    BY <1>1, <1>6, <2>2 DEF Findable
<1> HIDE DEF last
<1> QED
  BY <1>2, <1>3, <1>4, <1>5, <1>7, <1>8, <1>9 DEF Session!Write, Session!Next, Session!input

(* A repetition is over once all requests are served, and failed ones end all.  *)
LEMMA TimedStep ==
  ASSUME Typed, InTurn, InRound, Timed
  PROVE  Session!Next
<1>1. /\ pc = "timed" /\ InService /\ SameStock /\ SameIndex
      /\ UNCHANGED <<answer, run_failed>> /\ rep' = rep + 1
      /\ pc' = IF run_failed THEN "print" ELSE "repeat"
  BY DEF Timed, Goto, InService, SameStock, SameIndex, settings, session, partition
<1>2. UNCHANGED <<data, options.repeats, AskedFor, runNo, Withheld, Given>>
  BY <1>1, SameSession
<1>3. CASE run_failed
  <2>1. ~InService' /\ ~Over'
    BY <1>1, <1>3 DEF InService, Over
  <2>2. (Session!OutOfService)' /\ Phase = "spoilt" /\ Phase' = "idle"
    BY <1>1, <1>3, <2>1, Unserved, Phases, PhasesNext
  <2> QED
    BY <1>2, <2>2 DEF Session!GiveUp, Session!Leave, Session!Next, Session!input
<1>4. CASE ~run_failed
  <2>1. InService' /\ Phase = "serving" /\ Phase' = "serving"
    <3>1. InService'
      BY <1>1, <1>4 DEF InService
    <3> QED
      BY <1>1, <1>4, <3>1, Phases, PhasesNext
  <2>2. Progress = Len(AskedFor) /\ Progress' = 0
    <3>1. seen = FirstOnes(Len(lookups)) /\ lookups \in Seq(Asked)
      BY <1>1, <1>4 DEF InTurn, Typed
    <3>2. Len(seen) = Len(lookups) /\ Len(AskedFor) = Len(lookups)
      <4>1. \A k \in Nat : Len([i \in 1 .. k |-> i - 1]) = k
        OBVIOUS
      <4> QED
        BY <3>1, <4>1 DEF FirstOnes, AskedFor
    <3> QED
      BY <1>1, <1>4, <3>2 DEF Progress, InService
  <2>3. Rounds = rep /\ Rounds' = rep + 1 /\ rep < options.repeats
    BY <1>1, <2>1 DEF Rounds, InRound
  <2>4. UNCHANGED <<Findable, Certain>>
    BY <1>1, <2>1, SameFindable
  <2> QED
    BY <1>2, <2>1, <2>2, <2>3, <2>4 DEF Session!NextRepetition, Session!Next, Session!input
<1> QED
  BY <1>3, <1>4

(* Nothing that the session sees but the rows put aside changes before.        *)
LEMMA PutAsideStep ==
  ASSUME Typed, Apart, PutAside
  PROVE  UNCHANGED Session!vars \/ Session!Next
<1>1. /\ UNCHANGED <<data, options, lookups, runNo, answer, run_failed>>
      /\ Partitioning /\ pc' \in {"gather", "extract", "sort", "build", "crashed"}
  BY DEF PutAside, Part!Step, Part!Draw, Part!EndGather, Part!Extract, Part!EndExtract,
     Part!Sort, Partitioning, settings, session, measuring
<1>2. ~InService /\ ~InService' /\ ~Over
  BY <1>1 DEF Partitioning, InService, Over
<1>3. CASE insertion_data' = insertion_data
  <2>1. SameStock
    BY <1>1, <1>3 DEF SameStock
  <2> QED
    BY <1>1, <1>2, <2>1, OutsideStep DEF Session!Next
<1>4. CASE insertion_data' # insertion_data
  <2>1. Part!Extract
    BY <1>4 DEF PutAside, Part!Step, Part!Draw, Part!EndGather, Part!EndExtract, Part!Sort
  <2>2. pc = "extract" /\ pc' = "extract"
    BY <2>1 DEF Part!Extract
  <2>3. /\ insertion_data \in Seq(DOMAIN data) /\ insertion_data' \in Seq(DOMAIN data)
    <3>1. Theory!IInv /\ Theory!IInv'
      BY PartitionStep
    <3> QED
      BY <1>1, <3>1 DEF Theory!IInv, Theory!TypeOK, Theory!Positions
  <2>4. Withheld \subseteq Withheld' /\ Withheld' \subseteq DOMAIN data
    <3>1. PICK row : insertion_data' = Append(insertion_data, row)
      BY <2>1 DEF Part!Extract
    <3>2. \A i \in DOMAIN insertion_data :
            i \in DOMAIN insertion_data' /\ insertion_data'[i] = insertion_data[i]
      BY <2>3, <3>1
    <3> QED
      BY <2>3, <3>2 DEF Withheld, ToSet
  <2>5. UNCHANGED <<data, options.repeats, AskedFor, runNo, Given>>
    BY <1>1 DEF AskedFor, Given
  <2>6. Session!OutOfService /\ (Session!OutOfService)' /\ Phase = "idle" /\ Phase' = "idle"
    BY <1>2, <2>2, Unserved, Phases, PhasesNext DEF Over
  <2> QED
    BY <2>4, <2>5, <2>6 DEF Session!PutAside, Session!Next, Session!input,
       Session!service, Session!progress, Session!OutOfService
<1> QED
  BY <1>3, <1>4

LEMMA BeginStep ==
  ASSUME Typed, Begin
  PROVE  Session!Next
<1>1. /\ pc = "next" /\ pc' \in {"build", "gather", "undefined"}
      /\ UNCHANGED <<data, options, insertion_data, run_failed>>
      /\ runNo' = runNo + 1 /\ answer' = NoAnswer
  BY DEF Begin, Goto, settings, partition
<1>2. ~InService /\ ~InService' /\ ~Over
  BY <1>1 DEF InService, Over
<1>3. Phase = "idle" /\ Phase' \in {"idle", "over"}
  BY <1>2, Phases, PhasesNext
<1>4. Session!OutOfService /\ (Session!OutOfService)'
  BY <1>2, Unserved
<1>5. /\ Len(AskedFor') <= Len(AskedFor)
      /\ ToSet(AskedFor') \subseteq ToSet(AskedFor)
  <2>1. /\ lookups \in Seq(Asked) /\ lookups' \in Seq(Asked)
        /\ Len(lookups') \in 0 .. Len(lookups)
        /\ \A i \in DOMAIN lookups' : \E j \in DOMAIN lookups : lookups'[i] = lookups[j]
    BY LookupsShrink DEF Typed
  <2>2. Len(AskedFor) = Len(lookups) /\ Len(AskedFor') = Len(lookups')
    BY <2>1 DEF AskedFor
  <2> QED
    BY <2>1, <2>2 DEF AskedFor, ToSet
<1>6. Given' = Session!NoAnswer
  BY <1>1 DEF Given, NoAnswer, Session!NoAnswer
<1>7. UNCHANGED <<data, options.repeats, Withheld>>
  BY <1>1 DEF Withheld, ToSet
<1> QED
  BY <1>1, <1>3, <1>4, <1>5, <1>6, <1>7 DEF Session!Begin, Session!Next, Session!input,
     Session!service, Session!progress, Session!OutOfService, Session!ToSet, ToSet

(* The index that requests are served from is built of what it needs.          *)
LEMMA StartStep ==
  ASSUME Portioned, Indexed, StartLookups
  PROVE  UNCHANGED Session!vars \/ Session!Next
<1>1. /\ pc = "dispatch" /\ pc' \in {"print", "crashed", "repeat"}
      /\ SameStock /\ SameIndex /\ answer' = answer
      /\ pc' = "repeat" => rep' = 0 /\ run_failed' = FALSE
  BY DEF StartLookups, Goto, SameStock, SameIndex, settings, session, partition
<1>2. ~InService /\ ~Over
  BY <1>1 DEF InService, Over
<1>3. CASE pc' # "repeat"
  <2>1. ~InService'
    BY <1>1, <1>3 DEF InService
  <2> QED
    BY <1>1, <1>2, <2>1, OutsideStep DEF Session!Next
<1>4. CASE pc' = "repeat"
  <2>1. InService' /\ ~run_failed'
    BY <1>1, <1>4 DEF InService
  <2>2. Phase = "idle" /\ Phase' = "serving"
    BY <1>2, <2>1, Phases, PhasesNext
  <2>3. UNCHANGED <<data, options.repeats, AskedFor, runNo, Withheld, Given>>
    BY <1>1, SameSession
  <2>4. UNCHANGED Session!progress
    <3>1. Session!OutOfService /\ Rounds' = 0 /\ Progress' = 0
      BY <1>1, <1>2, <1>4, <2>1, Unserved DEF Rounds, Progress
    <3> QED
      BY <3>1 DEF Session!OutOfService, Session!progress
  <2>5. /\ Held' = Held /\ KeptApart' = KeptApart
        /\ Findable' = IF write_portion = 0 THEN DOMAIN data ELSE Held
        /\ Certain' # {} => write_portion = 0 \/ KeptApart
    <3>1. Held' = Held /\ KeptApart' = KeptApart
      BY <1>1 DEF SameStock, SameIndex, Held, KeptApart, AllRowsKept, Unique, Competitor
    <3> QED
      BY <1>1, <2>1, <3>1 DEF SameStock, SameIndex, Findable, Certain
  <2>6. ASSUME Certain' # {}
        PROVE  /\ Findable' \cap Withheld = {}
               /\ runNo = 1 => Findable' \cup Withheld = DOMAIN data
    <3>1. CASE write_portion = 0
      <4>1. Withheld = {}
        BY <3>1 DEF Portioned, Withheld, ToSet
      <4> QED
        BY <2>5, <3>1, <4>1
    <3>2. CASE write_portion # 0
      <4>1. /\ Held \cap Withheld = {}
            /\ runNo = 1 => Held \cup Withheld = DOMAIN data
        BY <1>1, <2>5, <2>6, <3>2 DEF Indexed, Serviced, KeptApart, Withheld
      <4> QED
        BY <2>5, <3>2, <4>1
    <3> QED
      BY <3>1, <3>2
  <2>7. ASSUME NEW key \in Certain', key \in ToSet(AskedFor)
        PROVE  MatchingRows(key) \subseteq Findable'
    <3>1. CASE write_portion = 0
      BY <2>5, <3>1 DEF MatchingRows
    <3>2. CASE write_portion # 0
      <4>1. PICK i \in DOMAIN AskedFor : AskedFor[i] = key
        BY <2>7 DEF ToSet
      <4>2. i \in DOMAIN lookups /\ lookups[i].key = key
        BY <4>1 DEF AskedFor
      <4>3. Wanted \subseteq Held
        BY <1>1, <2>5, <2>7, <3>2 DEF Indexed, Serviced, KeptApart
      <4> QED
        BY <2>5, <3>2, <4>2, <4>3 DEF MatchingRows, Wanted
    <3> QED
      BY <3>1, <3>2
  <2>8. \A key \in Certain' \cap Session!ToSet(AskedFor) : Session!RowsOf(key) \subseteq Findable'
    BY <2>7 DEF Session!ToSet, ToSet, Session!RowsOf, MatchingRows
  <2> QED
    BY <2>2, <2>3, <2>4, <2>6, <2>8 DEF Session!StartServing, Session!Next, Session!input
<1> QED
  BY <1>3, <1>4

LEMMA EndStep ==
  ASSUME InRound, EndRepeats
  PROVE  Session!Next
<1>1. /\ pc = "repeat" /\ pc' = "print" /\ SameStock /\ rep >= options.repeats
      /\ UNCHANGED <<answer, run_failed>>
  BY DEF EndRepeats, Goto, SameStock, settings, session, partition, measuring
<1>2. InService /\ ~InService' /\ ~Over'
  BY <1>1 DEF InService, Over
<1>3. UNCHANGED <<data, options.repeats, AskedFor, runNo, Withheld, Given>>
  BY <1>1, SameSession
<1>4. (Session!OutOfService)' /\ Phase' = "idle"
  BY <1>2, Unserved, PhasesNext
<1>5. CASE run_failed
  <2>1. Phase = "spoilt"
    BY <1>2, <1>5, Phases
  <2> QED
    BY <1>3, <1>4, <2>1 DEF Session!GiveUp, Session!Leave, Session!Next, Session!input
<1>6. CASE ~run_failed
  <2>1. rep \in 0 .. options.repeats /\ options.repeats \in Int
    BY <1>2 DEF InRound
  <2>2. Rounds = options.repeats /\ Progress = 0
    BY <1>1, <1>2, <2>1 DEF Rounds, Progress
  <2>3. Phase = "serving"
    BY <1>2, <1>6, Phases
  <2> QED
    BY <1>3, <1>4, <2>2, <2>3 DEF Session!Complete, Session!Leave, Session!Next, Session!input
<1> QED
  BY <1>5, <1>6

(* The batches are not seen in the session.                                   *)
LEMMA BatchSteps ==
  ASSUME Repeat \/ Batch \/ EndLoop
  PROVE  UNCHANGED Session!vars
<1>1. /\ SameStock /\ SameIndex /\ UNCHANGED <<answer, run_failed, rep>>
      /\ InService /\ InService'
  BY DEF Repeat, Batch, EndLoop, CoreLoop, LeaveLoop, Goto, SameStock, SameIndex,
     settings, session, partition, measuring, InService
<1>2. Progress' = Progress
  <2>1. CASE Repeat
    <3>1. pc = "repeat" /\ seen' = <<>>
      BY <2>1 DEF Repeat
    <3> QED
      BY <1>1, <3>1 DEF Progress
  <2>2. CASE Batch \/ EndLoop
    <3>1. seen' = seen /\ pc # "repeat" /\ pc' # "repeat"
      BY <2>2 DEF Batch, EndLoop, CoreLoop, LeaveLoop, Goto, measuring
    <3> QED
      BY <1>1, <3>1 DEF Progress
  <2> QED
    BY <2>1, <2>2
<1> QED
  BY <1>1, <1>2, InsideStep

LEMMA SessionStep ==
  ASSUME Typed, Portioned, Apart, InTurn, Prepared, Indexed, Tossed, InRound,
         Complete', Precise', [Next]_vars
  PROVE  [Session!Next]_(Session!vars)
<1>1. CASE UNCHANGED vars
  <2>1. /\ SameStock /\ UNCHANGED <<answer, pc, run_failed, rep, seen, index,
                                    schedule, write_portion>>
    BY <1>1 DEF vars, SameStock, settings, session, partition, measuring
  <2>2. UNCHANGED <<data, options.repeats, AskedFor, runNo, Withheld, Given>>
    BY <2>1, SameSession
  <2>3. UNCHANGED <<Phase, Rounds, Progress>> /\ InService' = InService
    BY <2>1 DEF Phase, Rounds, Progress, InService, Over
  <2>4. UNCHANGED <<Findable, Certain>>
    <3>1. CASE InService
      BY <2>1, <2>3, <3>1, SameFindable DEF SameIndex
    <3>2. CASE ~InService
      BY <2>3, <3>2 DEF Findable, Certain
    <3> QED
      BY <3>1, <3>2
  <2> QED
    BY <2>2, <2>3, <2>4 DEF Session!vars, Session!input, Session!service, Session!progress
<1>2. ASSUME \/ ParseOptions \/ Construct \/ NotApplicable \/ Build \/ Refuse
             \/ StartErrors \/ TrackError \/ EndErrors
      PROVE  SameStock /\ answer' = answer /\ ~InService /\ ~InService' /\ ~Over
  BY <1>2 DEF ParseOptions, Construct, NotApplicable, Build, Refuse, StartErrors,
     TrackError, EndErrors, NextCompetitor, Goto, Fail, SameStock, settings, session,
     partition, measuring, InService, Over
<1>3. ASSUME PrintResult \/ PrintNothing \/ Exit
      PROVE  SameStock /\ answer' = answer /\ ~InService /\ ~InService' /\ ~Over
  BY <1>3 DEF PrintResult, PrintNothing, Exit, NextCompetitor, Goto, SameStock, settings,
     session, partition, measuring, InService, Over
<1>4. ASSUME NotFoundInMap \/ ReadStray \/ WriteRefused
      PROVE  SameStock /\ answer' = answer /\ ~Over /\ Over'
  BY <1>4 DEF NotFoundInMap, ReadStray, WriteRefused, Serving, Goto, Fail, SameStock,
     settings, session, partition, measuring, Over
<1>5. ASSUME \/ ParseOptions \/ Construct \/ NotApplicable \/ Build \/ Refuse
             \/ StartErrors \/ TrackError \/ EndErrors \/ PrintResult \/ PrintNothing
             \/ Exit \/ NotFoundInMap \/ ReadStray \/ WriteRefused
      PROVE  UNCHANGED Session!vars \/ Session!Next
  BY <1>2, <1>3, <1>4, <1>5, OutsideStep, FailingStep DEF Session!Next
<1> QED
  BY <1>1, <1>5, PutAsideStep, BeginStep, StartStep, ReadStep, WriteStep, TimedStep,
     EndStep, BatchSteps DEF Next, Step, Terminated

(***************************************************************************)
(* The program implements the simple session: with every dataset, command line *)
(* and schedule, each index is served all the requests, in order, in every     *)
(* repetition and for as many as asked for, and where it is sure it answers     *)
(* like the set of the rows it was given and those written since.             *)
(***************************************************************************)
THEOREM SessionServed == Spec => ServesAsPromised
<1> DEFINE SInv == /\ Aside /\ InTurn /\ Compared /\ Prepared /\ Stays /\ Indexed
                   /\ Complete /\ Precise /\ Tossed /\ InRound
<1>1. Init => SInv
  <2> SUFFICES ASSUME Init PROVE SInv
    OBVIOUS
  <2>1. pc = "main" /\ answer = NoAnswer /\ run_failed = FALSE /\ why = "none"
    BY DEF Init
  <2>2. Indexed /\ Complete /\ Precise /\ Compared /\ InTurn
    BY <2>1 DEF Indexed, Complete, Precise, Serviced, Compared, InTurn, Partitioning
  <2>3. Tossed
    BY <2>1 DEF Tossed
  <2>4. options.repeats \in Int
    BY CallAssumption DEF Init
  <2>5. InRound
    BY <2>1, <2>4 DEF InRound, InService
  <2> QED
    BY <2>2, <2>3, <2>5, AsideInvariant, InitPrepared, InitStays
<1>2. SInv /\ [Next]_vars => SInv'
  BY AsideInvariant, InTurnStep, ComparedStep, PreparedStep, StaysStep, IndexedStep,
     CompleteStep, PreciseStep, TossedStep, InRoundStep DEF Aside
<1>3. Init => Session!Init
  <2> SUFFICES ASSUME Init PROVE Session!Init
    OBVIOUS
  <2>1. /\ pc = "main" /\ insertion_data = <<>> /\ answer = NoAnswer /\ runNo = 0
    BY DEF Init
  <2>2. Phase = "idle" /\ Session!OutOfService
    BY <2>1, Unserved DEF Phase, Over, InService
  <2>3. Withheld = {} /\ Given = Session!NoAnswer
    BY <2>1 DEF Withheld, ToSet, Given, NoAnswer, Session!NoAnswer
  <2> QED
    BY <2>1, <2>2, <2>3 DEF Session!Init
<1>4. SInv /\ SInv' /\ [Next]_vars => [Session!Next]_(Session!vars)
  BY SessionStep DEF Aside
<1> HIDE DEF SInv
<1> QED
  BY <1>1, <1>2, <1>3, <1>4, PTL DEF Spec, ServesAsPromised, Session!Spec
=============================================================================
