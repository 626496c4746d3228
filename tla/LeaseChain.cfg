SPECIFICATION FairSpec
CONSTANTS
  a = a
  b = b
  c = c
  d = d
  j = j
  k = k
  None = None
  Callers = {a, b, c, d}
  Keys = {j, k}
  Wants <- Pairs
  Order <- Sorted
  Abortable = {c, d}
INVARIANTS OneHolder FirstComeFirstServed TailsForgotten
CHECK_DEADLOCK FALSE
PROPERTIES ImplementsLocks EveryCallerServed
