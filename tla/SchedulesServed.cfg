SPECIFICATION FairSpec
CONSTANTS
  once = once
  weekly = weekly
  later = later
  early = early
  late = late
  k1 = k1
  k2 = k2
  k3 = k3
  None = None
  OneTime = {once}
  Recurring = {}
  Deferred = {later}
  Prompts = {early, late}
  Claims = {k1, k2, k3}
  MaxRuns <- OneRun
  MaxFaults = 1
  MaxEdits = 1
  LateResumes = 0
INVARIANTS OneExecution DoneWasSent
PROPERTIES SettledStays EveryOccurrenceServed
CHECK_DEADLOCK FALSE
