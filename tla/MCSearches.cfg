CONSTANTS
  Keys <- MCKeys
  MaxRows = 5
SPECIFICATION Spec
INVARIANTS
  AnswerExact
  ReadsInside
  ExactIffCovered
PROPERTIES
  KeepsPromise
