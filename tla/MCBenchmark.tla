----------------------------- MODULE MCBenchmark -----------------------------
EXTENDS Benchmark

One(kind, scale) == [kind |-> kind, scale |-> scale]

CommandLines(repeats, threads, writes, flags) ==
  {[repeats |-> r, threads |-> t, write |-> w,
    perf |-> "perf" \in on, build |-> "build" \in on, fence |-> "fence" \in on,
    cold |-> "cold" \in on, fast |-> "fast" \in on, errors |-> "errors" \in on, csv |-> "csv" \in on,
    branchless |-> "branchless" \in on] :
     r \in repeats, t \in threads, w \in writes, on \in flags}

AllFlags == SUBSET {"perf", "build", "fence", "cold", "errors", "csv", "fast"}

CallsOf(files, keys, commands, schedules) ==
  [data : files, lookups : keys, options : commands, schedule : schedules]

(* Reading only: all flags and kinds of competitors.  Key 5 is that of the     *)
(* empty slots of the cuckoo map: in some of the data, and asked for in all.   *)
ReadData == {<<0, 2, 2, 5>>, <<0, 2, 4>>, <<0, 2, 4, 5>>, <<3, 2>>}
ReadLookups == {<<2, 5, 2>>, <<0, 4>>, <<4, 1, 5>>, <<>>}
ReadOptions ==
  CommandLines({2}, 0 .. 2, {0}, AllFlags)
    \cup CommandLines({2}, {1, 2}, {0}, {{"cold", "branchless"}, {"branchless"}})
    \cup CommandLines({-1, 0}, {1, 2}, {0}, {{}, {"perf"}, {"build"}, {"cold"}, {"fence", "csv"}})
ReadSchedules ==
  {<<One("BS", 1), One("BTree", 2)>>, <<One("PGM", 1), One("ALEX", 2)>>,
   <<One("ART", 2), One("RobinHash", 1)>>, <<One("CuckooMap", 1), One("Wormhole", 4)>>,
   <<One("IBTree", 2), One("FST", 2), One("Wormhole", 1)>>}

(* Writing: the partition, the draws of the engine, later Runs.             *)
WriteData == {<<0, 1, 2, 3, 5>>, <<0, 1, 1, 3, 5>>, <<1, 3>>}
WriteLookups == {<<1, 3, 1>>, <<5>>, <<3, 3>>}
WriteOptions ==
  CommandLines({1, 2}, {1, 2}, {1, 2, 4}, {{}})
    \cup CommandLines({2}, {1}, {1, 4}, {{"cold"}, {"cold", "branchless"}})
    \cup CommandLines({1}, {1}, {-7, 5, 7, 8, 9}, {{}})
WriteSchedules ==
  {<<One("BTree", 1), One("ALEX", 1)>>, <<One("PGM", 1), One("BTree", 1)>>,
   <<One("BTree", 2)>>, <<One("BS", 1)>>, <<One("ART", 1)>>,
   <<One("FST", 1)>>, <<One("Wormhole", 1)>>, <<One("IBTree", 2)>>}

ReadAndWrite ==
  CallsOf(ReadData, ReadLookups, ReadOptions, ReadSchedules)
    \cup CallsOf(WriteData, WriteLookups, WriteOptions, WriteSchedules)
=============================================================================
