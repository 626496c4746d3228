SPECIFICATION Spec
CONSTANTS
  a = a
  b = b
  h = h
  None = None
  Inputs = {a, b, h}
  Host = {b, h}
  Quiet = {b}
  TurnScoped = {h}
  FollowUps = {}
  MaxFailures = 0
  MaxCommitFailures = 0
  MaxRestarts = 1
INVARIANTS OneLiveRun HostPolicy SupplementOnce
PROPERTY SteersInOrder
CHECK_DEADLOCK FALSE
