CONSTANTS
  Keys <- MCKeys
  MaxRows = 4
  MaxLookups = 3
  max_num_qualifying = 2
  max_num_retries = 2
  Grain = 2
SPECIFICATION Spec
INVARIANTS
  LookupsTrue
  FailsOnlyIfCrowded
  TraceRightIffReached
PROPERTIES
  EndsUnlessDense
