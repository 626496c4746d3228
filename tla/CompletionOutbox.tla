--------------------------- MODULE CompletionOutbox ---------------------------
(***************************************************************************)
(* AgentDelegationCompletionDelivery: the durable outbox that hands the    *)
(* completions of detached child runs to one bound port.  A pump claims    *)
(* the due rows one by one; a failed delivery waits for its retry, a claim *)
(* whose process died for the end of its lease, and one timer for the      *)
(* earliest of them.                                                       *)
(***************************************************************************)
EXTENDS Naturals, FiniteSets

CONSTANTS
  Completions,   \* (child run, child request) pairs, each with one row
  MaxAttempts,   \* maxAttempts
  LateJoins,     \* bound: completions enqueued while an ended pump is still listed
  MaxRestarts    \* bound: ends of the process

ASSUME OutboxAssumption ==
  /\ IsFiniteSet(Completions)
  /\ MaxAttempts \in Nat \ {0} /\ LateJoins \in Nat /\ MaxRestarts \in Nat

VARIABLES
  finished,   \* child runs that are deliverable, as child_runs records
  row,        \* delivery_status, with what the clock makes of it
  attempt,    \* attempts so far
  pump,       \* pumps.get(portId); "ended": drain returned, the entry is still there
  timer,      \* retryTimers.get(portId)
  late,       \* completions that joined an ended pump
  restarts    \* ends of the process so far

outbox == <<finished, row, attempt, pump, timer, late, restarts>>

\* "due" is pending and available, or claimed with an expired lease;
\* "waiting" is pending and available later; "orphaned" is claimed by a
\* process that died.
RowStates == {"none", "due", "waiting", "claimed", "orphaned", "delivered", "dropped"}
Later == {"waiting", "orphaned"}
Closed == {"delivered", "dropped"}

Rows(states) == {c \in Completions : row[c] \in states}

\* The run is over and its record says so.
Finish(c) ==
  /\ c \notin finished
  /\ finished' = finished \cup {c}
  /\ UNCHANGED <<row, attempt, pump, timer, late, restarts>>

\* completed and enqueue: the row is inserted and the pump started, or joined
\* when there is one, even when its drain has already returned.
Enqueue(c) ==
  /\ c \in finished /\ row[c] = "none"
  /\ pump = "ended" => late < LateJoins
  /\ row' = [row EXCEPT ![c] = "due"]
  /\ late' = IF pump = "ended" THEN late + 1 ELSE late
  /\ IF pump = "off" THEN pump' = "drain" /\ timer' = FALSE ELSE UNCHANGED <<pump, timer>>
  /\ UNCHANGED <<finished, attempt, restarts>>

\* claimOne; port.completed is called.
Claim(c) ==
  /\ pump = "drain" /\ row[c] = "due"
  /\ row' = [row EXCEPT ![c] = "claimed"]
  /\ attempt' = [attempt EXCEPT ![c] = @ + 1]
  /\ pump' = "hand"
  /\ UNCHANGED <<finished, timer, late, restarts>>

\* scheduleNext: the timer for the earliest row that will be due.
NeverSchedules == FALSE  \* fault
Schedules == Rows(Later) # {}

NothingDue ==
  /\ pump = "drain" /\ Rows({"due"}) = {}
  /\ pump' = "ended" /\ timer' = Schedules
  /\ UNCHANGED <<finished, row, attempt, late, restarts>>

\* The promise's finally removes the pump.
PumpEnds ==
  /\ pump = "ended" /\ pump' = "off"
  /\ UNCHANGED <<finished, row, attempt, timer, late, restarts>>

Handed(c) ==
  /\ pump = "hand" /\ row[c] = "claimed"
  /\ row' = [row EXCEPT ![c] = "delivered"]
  /\ pump' = "drain"
  /\ UNCHANGED <<finished, attempt, timer, late, restarts>>

\* releaseAfterFailure
HandFails(c) ==
  /\ pump = "hand" /\ row[c] = "claimed"
  /\ row' = [row EXCEPT ![c] = IF attempt[c] >= MaxAttempts THEN "dropped" ELSE "waiting"]
  /\ pump' = "drain"
  /\ UNCHANGED <<finished, attempt, timer, late, restarts>>

\* available_at or claim_until is over.
FallDue(c) ==
  /\ row[c] \in Later
  /\ row' = [row EXCEPT ![c] = "due"]
  /\ UNCHANGED <<finished, attempt, pump, timer, late, restarts>>

\* A timer runs after the promise callbacks that are ready.
TimerFires ==
  /\ timer /\ Rows({"due"}) # {} /\ pump = "off"
  /\ timer' = FALSE /\ pump' = "drain"
  /\ UNCHANGED <<finished, row, attempt, late, restarts>>

\* The process ends and starts again: the port is bound, which starts a pump,
\* and every deliverable record is enqueued unless it has its row.
RestartOutbox ==
  /\ restarts < MaxRestarts /\ restarts' = restarts + 1
  /\ row' = [c \in Completions |-> IF row[c] = "claimed" THEN "orphaned"
                                   ELSE IF c \in finished /\ row[c] = "none" THEN "due"
                                   ELSE row[c]]
  /\ pump' = "drain" /\ timer' = FALSE
  /\ UNCHANGED <<finished, attempt, late>>

InitOutbox ==
  /\ finished = {}
  /\ row = [c \in Completions |-> "none"]
  /\ attempt = [c \in Completions |-> 0]
  /\ pump = "drain" /\ timer = FALSE
  /\ late = 0 /\ restarts = 0

-----------------------------------------------------------------------------
(* Properties *)

\* Type correctness of the outbox.
OutboxTypeOK ==
  /\ finished \subseteq Completions
  /\ row \in [Completions -> RowStates]
  /\ attempt \in [Completions -> Nat]
  /\ pump \in {"off", "drain", "hand", "ended"}
  /\ timer \in BOOLEAN /\ late \in Nat /\ restarts \in Nat

\* No wake-up is lost: whatever the port is still owed has a pump that will
\* look at it or a timer that will start one.  When drain has returned, only
\* rows it found not yet due are left to the timer.
OwedIsWatched ==
  Rows({"due", "waiting", "claimed", "orphaned"}) # {} =>
    \/ pump \in {"drain", "hand"}
    \/ timer
=============================================================================
