----------------------------- MODULE MCSchedules -----------------------------
(***************************************************************************)
(* A one-time and a recurring schedule and a deferred task for Schedules.  *)
(***************************************************************************)
EXTENDS Schedules

CONSTANTS once, weekly, later, early, late, k1, k2, k3

OneRun == [t \in Tasks |-> 1]
TwoRuns == [t \in Tasks |-> 2]
=============================================================================
