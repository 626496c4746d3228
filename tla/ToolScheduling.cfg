SPECIFICATION FairSched
CONSTANTS
  x = x
  p = p
  c1 = c1
  c2 = c2
  w = w
  r = r
  child = child
  parent = parent
  tool = tool
  None = None
  Assignments = {p}
  Calls = {c1, c2, w, r}
  Parent <- CallsOfP
  Ancestors <- NoAncestors
  Identities = {x}
  Overlaps <- Same
  Requests <- FileRequests
  RunOf <- RunGates
  ToolOf <- ToolGates
  Limit <- Limits
INVARIANTS OperationsExclude PermitsBalance NoIdlePermit NoCircularWait
PROPERTIES CallsEnd EveryAssignmentServed
