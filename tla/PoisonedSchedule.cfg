SPECIFICATION FairSpec
CONSTANTS
  once = once
  weekly = weekly
  later = later
  early = early
  late = late
  k1 = k1
  k2 = k2
  k3 = k3
  None = None
  OneTime = {once}
  Recurring = {weekly}
  Deferred = {}
  Prompts = {early}
  Claims = {k1, k2}
  MaxRuns <- TwoRuns
  MaxFaults = 0
  MaxEdits = 0
  LateResumes = 1
PROPERTY EveryOccurrenceServed
CHECK_DEADLOCK FALSE
