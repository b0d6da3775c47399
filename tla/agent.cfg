\* Runs that outgrow a history cut from above five messages to three, with every kind of argument.
CONSTANTS
  p = p
  q = q
  x = x
  sid = sid
  tool = tool
  ghost = ghost
  session = session
  None = None
  Malformed = Malformed
  Names <- TwoNames
  SystemNames <- OneSystem
  SessionName = sid
  Tools <- TwoTools
  Registry <- SmallRegistry
  Arguments <- ManyArguments
  Sessions <- AnySession
  MaxSteps = 2
  MaxCalls = 2
  MaxRuns = 3
  Cap = 5
  Keep = 3
SPECIFICATION FairSpec
INVARIANTS HistoryBounded ResultsFollow ToolsServed
PROPERTIES RunReturns
CHECK_DEADLOCK FALSE
