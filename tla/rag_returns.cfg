\* One document of three chunks in batches of two, under fair scheduling.
CONSTANTS
  c1 = c1
  c2 = c2
  t1 = t1
  Calls <- OneCall
  Texts <- OneText
  None = None
  N = 3
  Batch = 2
  MaxAttempts = 3
  Faults = TRUE
  Crashes = TRUE
  Enforced <- Pooled
  TopK = 2
  Collection = docs
SPECIFICATION FairSpec
PROPERTIES IngestReturns
CHECK_DEADLOCK FALSE
