SPECIFICATION FairSpec
CONSTANTS
  proc = proc
  child = child
  readProc = readProc
  readChild = readChild
  None = None
  Completions = {child}
  Processes = {proc}
  Calls = {readChild}
  Of <- JobOf
  Kills = {}
  MaxAttempts = 2
  LateJoins = 0
  MaxRestarts = 1
  LiveRecoveries = FALSE
  MaxFailures = 1
INVARIANTS  SilencedWasRead NoticeKept
  
