\* Two calls, deletions and a search; every store fails and the process crashes.
CONSTANTS
  c1 = c1
  c2 = c2
  t1 = t1
  Calls <- TwoCalls
  Texts <- OneText
  None = None
  N = 2
  Batch = 1
  MaxAttempts = 3
  Faults = TRUE
  Crashes = TRUE
  Enforced <- Pooled
  TopK = 4
  Collection = docs
SYMMETRY CallSymmetry
SPECIFICATION Spec
INVARIANTS TypeOK StatusTells NothingHalfDone DeletedNotFound ReadyIsFound
CHECK_DEADLOCK FALSE
