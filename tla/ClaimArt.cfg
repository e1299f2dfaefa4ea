CONSTANTS
  KeyRange = 6
  RowRange = 16
  MaxRows = 6
  MaxLookups = 3
  Percent = 4
  PortionRange = 8
  SlackDivisor = 2
  BatchSize = 2
  Absent = Absent
  Forbidden = {5}
  Calls <- WritingToArt
SPECIFICATION Spec
INVARIANTS
  ArtStoresOffsets
