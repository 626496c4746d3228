SPECIFICATION Spec
CONSTANTS
  dir = dir
  x = x
  y = y
  p = p
  q = q
  c1 = c1
  c2 = c2
  w = w
  r = r
  None = None
  Assignments = {p}
  Calls = {c1, c2, w}
  Parent <- CallsOfP
  Ancestors <- NoAncestors
  Identities = {dir, x, y}
  Overlaps <- Tree
  Requests <- FileRequests
INVARIANT ReentryUnblocked
