\* Texts of up to five lines, with both chunkers.
CONSTANTS
  Texts <- AllTexts
  Strategies <- BothStrategies
  ChunkSize = 2
  Overlap = 1
  LeastCut = 3
  MinTokens = 2
SPECIFICATION Spec
INVARIANTS NothingLost InOrder SizeBounded InPlace RecursionEnds
CHECK_DEADLOCK FALSE
