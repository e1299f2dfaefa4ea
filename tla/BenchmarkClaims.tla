--------------------------- MODULE BenchmarkClaims ---------------------------
(***************************************************************************)
(* What comments, option texts and messages of the program say of it, each   *)
(* of them as an invariant.  The runs named after them show where the code    *)
(* disagrees.                                                               *)
(***************************************************************************)
EXTENDS Benchmark

ResultOf(run) ==
  \E i \in DOMAIN output : output[i] = [run |-> run, kind |-> "result"]

(***************************************************************************)
(* benchmark.cc:122, --errors: "Tracks index errors, and report those        *)
(* instead of lookup times".  Each Run that came to its end reported.        *)
(***************************************************************************)
ErrorsReported ==
  pc = "exit" /\ options.errors => \A run \in 1 .. runNo : ResultOf(run)

(***************************************************************************)
(* benchmark.cc:127, --write: default_value("0").                            *)
(***************************************************************************)
PortionDefaultsTo0 ==
  pc # "main" /\ options.write = Absent => write_portion = 0

(***************************************************************************)
(* art_primary_lb.h:21: ART "stores <key, offset> pairs.  At lookup time, we  *)
(* retrieve a key's offset from ART and lookup its value in the data array." *)
(***************************************************************************)
ArtStoresOffsets ==
  pc = "dispatch" /\ Competitor.kind = "ART" =>
    \A i \in DOMAIN index.entries :
      data[index.entries[i].val] = index.entries[i].key

(***************************************************************************)
(* benchmark.h:266: "equality lookup returned wrong result".  What fails a    *)
(* run is a wrong result.                                                   *)
(***************************************************************************)
FailedOnWrongRows ==
  run_failed => answer.rows # MatchingRows(answer.key)
=============================================================================
