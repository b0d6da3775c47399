\* Concurrent Add calls, a deletion and the compressions they start; no searches.
\* A started compression ends, when the LLM and the stores answer or fail.
CONSTANTS
  i1 = i1
  i2 = i2
  i3 = i3
  i4 = i4
  s1 = s1
  s2 = s2
  Items <- ThreeItems
  Searchers <- NoItems
  Relevant <- NoItems
  MaxCapacity = 2
  MaxAge = 0
  Limit = 0
  StrictClock = TRUE
  MaxNow = 0
  Free = Free
  SnapshotSize = 2
  HasCompressor = TRUE
  Deletable <- FirstItem
SPECIFICATION FairSpec
INVARIANTS TypeOK OneCompression ToldOnce EpisodeComplete
PROPERTIES LeavesSafely RefinesTier CompressionEnds
CHECK_DEADLOCK FALSE
