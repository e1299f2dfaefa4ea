SPECIFICATION Spec
CONSTANTS
  Keys = {3, 4, 7}
  Values = {0}
  DIST_FROM_IDEAL_BUCKET_LIMIT = 4096
  MaxLoads <- MCLoads
  MinLoads <- MCMinLoads
  MaxBuckets = 4
  Ranges = {}
INVARIANTS
  IteratedAreFound
