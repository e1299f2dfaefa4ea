CONSTANTS
  KeyRange = 125
  RowRange = 16
  KeyBytes = 3
  ByteRange = 5
  Node4Size = 2
  Node16Size = 3
  Node48Size = 4
  LeafEntries = 2
  InnerEntries = 3
  Trials <- SmallAndSpread
SPECIFICATION Spec
INVARIANTS
  CoversFirst
  Narrow
  AnswersAsListed
