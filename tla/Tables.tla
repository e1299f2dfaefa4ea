-------------------------------- MODULE Tables --------------------------------
(***************************************************************************)
(* The structures of the competitors CuckooMap and RBS: a run of the          *)
(* benchmark fills one of them, the other stays as it begins.                *)
(***************************************************************************)
EXTENDS Integers, Sequences

CONSTANTS
  Kinds,                   \* of the structures a run may keep
  CuckooKeys, INVALID_KEY, BUCKET_SIZE, num_buckets_, HashPairs, Datasets,
  num_radix_bits, KeyBits, MaxRows

VARIABLES
  kind, data, pc,
  hashes, row, buckets_, size_, call,
  n, radix_hint, i, prev_prefix, lookup_key, start, stop

cuckoo == <<hashes, row, buckets_, size_, call>>
radix == <<n, radix_hint, i, prev_prefix, lookup_key, start, stop>>
tables == <<kind, data, pc, cuckoo, radix>>

Cuckoo == INSTANCE CuckooHashMap WITH Keys <- CuckooKeys
Radix == INSTANCE RadixBinarySearch

ASSUME TablesAssumption == Cuckoo!CuckooConstants /\ Radix!RadixConstants

NoCuckoo ==
  /\ hashes = <<>> /\ row = 0 /\ size_ = 0 /\ call = Cuckoo!NoCall
  /\ buckets_ = [b \in Cuckoo!Buckets |-> [s \in Cuckoo!Slots |-> Cuckoo!Vacant]]

NoRadix ==
  /\ n = 0 /\ radix_hint = [j \in Radix!Prefixes |-> 0]
  /\ i = 0 /\ prev_prefix = 0 /\ lookup_key = 0 /\ start = 0 /\ stop = 0

NoData == data = <<>> /\ pc = "build"

TablesInit ==
  /\ kind \in Kinds
  /\ IF kind = "CuckooMap" THEN Cuckoo!Init ELSE NoCuckoo
  /\ IF kind = "RBS" THEN Radix!Init ELSE NoRadix
  /\ kind \in {"CuckooMap", "RBS"} \/ NoData

CuckooStep == kind = "CuckooMap" /\ Cuckoo!Next /\ UNCHANGED <<kind, radix>>

RadixStep == kind = "RBS" /\ Radix!Next /\ UNCHANGED <<kind, cuckoo>>

TablesNext == CuckooStep \/ RadixStep

TablesSpec == TablesInit /\ [][TablesNext]_tables
-----------------------------------------------------------------------------
(* CuckooMap: between two rows get finds each key with the last of its rows;  *)
(* in the middle of an insertion no key is lost; an insertion ends if the     *)
(* keys fit into their buckets at all.                                      *)
FindsLastRow == kind = "CuckooMap" => Cuckoo!FindsLastRow
NoneLost == kind = "CuckooMap" => Cuckoo!NoneLost
InsertionEnds == Cuckoo!InsertionEnds

(* RBS: the window for a key, in the data or not, holds its place.           *)
HoldsPlace == kind = "RBS" => Radix!HoldsPlace
=============================================================================
