SPECIFICATION Spec
CONSTANTS
  a = a
  b = b
  h = h
  None = None
  Inputs = {a, h}
  Host = {h}
  Quiet = {}
  TurnScoped = {}
  FollowUps = {h}
  MaxFailures = 1
  MaxCommitFailures = 1
  MaxRestarts = 2
INVARIANTS StartedOnce HonestReceipts RunningIsLive
PROPERTIES OutcomeMatchesTurn ShutdownKeepsUnconsumed UnreadNeverFails
CHECK_DEADLOCK FALSE
