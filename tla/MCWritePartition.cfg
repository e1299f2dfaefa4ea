CONSTANTS
  Keys <- MCKeys
  MaxRows = 4
  MaxLookups = 4
  Percent = 4
  PortionRange = 8
  SlackDivisor = 3
SPECIFICATION Spec
INVARIANTS
  Partitioned
  WithheldAsDrawn
  LookupsServed
PROPERTIES
  GatheringEnds
