SPECIFICATION StructuresSpec
CONSTANTS
  Kinds = {"CuckooMap", "RBS", "BTree", "RobinHash"}
  CuckooKeys <- MCCuckooKeys
  INVALID_KEY = 6
  BUCKET_SIZE = 2
  num_buckets_ = 3
  HashPairs <- MCHashPairs
  Datasets <- MCDatasets
  num_radix_bits = 2
  KeyBits = 4
  MaxRows = 3
  TreeKeys = {0, 1, 2}
  leafslotmax = 4
  innerslotmax = 2
  MaxItems = 10
  Loads <- MCLoads
  Keys = {3, 4, 5, 7, 11}
  Values = {0, 1}
  DIST_FROM_IDEAL_BUCKET_LIMIT = 1
  MaxLoads <- MCMaxLoads
  MinLoads <- MCMinLoads
  MaxBuckets = 8
  Ranges <- MCRanges
INVARIANTS
  FindsLastRow
  NoneLost
  HoldsPlace
  WellFormed
  WalksInOrder
  LookupsExact
  ChainsUnbroken
  AlwaysRoom
  HoldsWhatWasPut
PROPERTIES
  InsertionEnds
  Implements
