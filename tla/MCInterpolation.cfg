CONSTANTS
  KeyRange = 10
  Keys <- MCKeys
  MaxRows = 4
  MinDistance = 2
  Mantissa = 8
SPECIFICATION Spec
INVARIANTS
  NarrowingKeeps
  AstrayOnlyThere
PROPERTIES
  ReturnsOrSticks
