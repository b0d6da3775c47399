\* Two agents, two calls of either tool, one operation of the application.
CONSTANTS
  Sessions = {s1, s2}
  NoSession = NoSession
  Calls = {c1, c2}
  DefaultID = base
  Dirs <- Tree
  WorkSpace <- Work
  InitDir <- Sub
  Getwd <- Home
  Targets <- CdTargets
  Absolute <- FromRoot
  Agents = {a1, a2}
  MaxOperations = 1
SYMMETRY Symmetry
SPECIFICATION Spec
INVARIANTS OwnMemories AddedIsRecalled CwdInside
PROPERTIES EstablishedKept
CHECK_DEADLOCK FALSE
