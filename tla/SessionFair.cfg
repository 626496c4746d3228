SPECIFICATION FairSpec
CONSTANTS
  a = a
  b = b
  h = h
  None = None
  Inputs = {a, b}
  Host = {}
  Quiet = {}
  TurnScoped = {}
  FollowUps = {}
  MaxFailures = 0
  MaxCommitFailures = 0
  MaxRestarts = 0
PROPERTIES QueueDrains CancellationFinishes
CHECK_DEADLOCK FALSE
