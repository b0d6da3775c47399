\* The first cut.
CONSTANTS
  p = p
  q = q
  x = x
  sid = sid
  tool = tool
  ghost = ghost
  session = session
  None = None
  Malformed = Malformed
  Names <- TwoNames
  SystemNames <- OneSystem
  SessionName = sid
  Tools <- OneTool
  Registry <- SmallRegistry
  Arguments <- FewArguments
  Sessions <- NoSession
  MaxSteps = 2
  MaxCalls = 1
  MaxRuns = 3
  Cap = 4
  Keep = 2
SPECIFICATION Spec
PROPERTIES KeepsLatest
CHECK_DEADLOCK FALSE
