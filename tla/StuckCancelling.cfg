SPECIFICATION Spec
CONSTANTS
  p = p
  q = q
  Runs = {p, q}
  Claiming = {p}
  Writers = {p}
  MaxActivePerTree = 1
  MaxConcurrentRuns = 1
  MaxConcurrentWriters = 1
  MaxActivations <- TwiceP
INVARIANT CancellingIsActive
