\* Two searches among Add calls and deletions; items expire.
CONSTANTS
  i1 = i1
  i2 = i2
  i3 = i3
  i4 = i4
  s1 = s1
  s2 = s2
  Items <- ThreeItems
  Searchers <- TwoSearchers
  Relevant <- RelevantPair
  MaxCapacity = 2
  MaxAge = 1
  Limit = 1
  StrictClock = TRUE
  MaxNow = 2
  Free = Free
  SnapshotSize = 1
  HasCompressor = FALSE
  Deletable <- FirstItem
SPECIFICATION Spec
SYMMETRY SearcherSymmetry
INVARIANTS IndexFresh
PROPERTIES UndisturbedSearchExact
CHECK_DEADLOCK FALSE
