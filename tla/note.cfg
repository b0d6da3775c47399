\* One instance; writes fail, the tool crashes and restarts.
CONSTANTS
  a1 = a1
  a2 = a2
  general = general
  blocker = blocker
  b1 = b1
  b2 = b2
  Instances <- OneInstance
  Types <- OneType
  DefaultType = general
  Bodies <- OneBody
  Limit = 1
  WritesFail = TRUE
  Crashes = TRUE
  MaxNow = 2
  MaxSeq = 2
  MaxFiles = 2
  None = None
SPECIFICATION Spec
INVARIANTS DamageContained DiskConsistent
PROPERTIES CreateIsFresh
CHECK_DEADLOCK FALSE
