---------------------------- MODULE SessionInbox ----------------------------
(***************************************************************************)
(* The durable input queue of one ordinary session and the runs that       *)
(* consume it: AgentSessionManager, AgentSessionMessageCoordinator,        *)
(* AgentSessionRunCoordinator, AgentSessionActiveRunController and         *)
(* AgentSessionInputDelivery.  The program is single-threaded JavaScript:  *)
(* an action is the code between two awaits.  An input and the turn it may *)
(* own share one request id, so runs are named by elements of Inputs too.  *)
(*                                                                         *)
(* Definitions marked `fault' are seeded faults: each replaces the         *)
(* definition that follows it to show that a property notices.             *)
(***************************************************************************)
EXTENDS Naturals, FiniteSets, Sequences

CONSTANTS
  Inputs,             \* request ids a client or the host may submit
  Host,               \* those submitted by the host (notices, schedules)
  Quiet,              \* host notices with wake = false
  TurnScoped,         \* host inputs with executionScope = "turn"
  FollowUps,          \* inputs whose queueMode is follow_up; the rest steer
  None,
  MaxFailures,        \* bound: failing turns and failing input projections
  MaxCommitFailures,  \* bound: terminal commits SQLite refuses
  MaxRestarts         \* bound: exits and crashes of the process

ASSUME KindAssumption ==
  /\ Host \subseteq Inputs /\ FollowUps \subseteq Inputs
  /\ Quiet \subseteq Host /\ TurnScoped \subseteq Host
  /\ IsFiniteSet(Inputs) /\ None \notin Inputs

ASSUME BoundAssumption ==
  MaxFailures \in Nat /\ MaxCommitFailures \in Nat /\ MaxRestarts \in Nat

VARIABLES
  \* SQLite: session_inputs rows and run_snapshots
  state, parent, wire, rank, snapshot,
  \* the Pi transcript: committed wire inputs; copies of each input in it
  transcript, copies,
  \* history: turns started per request, inputs that ever were model input
  starts, consumed,
  \* process memory: the manager and the two run maps
  up, stopping, active, cancelling,
  \* process memory: every run of this process lifetime; aborted, durable,
  \* direct and cancel are sets of runs
  pc, aborted, terminal, durable, direct, cancel, settles,
  \* process memory: the Pi session of the active run
  prompted, piQueue, scheduled, capture,
  \* process memory: the recovery pump and its trigger
  pump, pumpOn, pumpRead, wakeup,
  \* budgets
  failures, commitFailures, restarts

rows == <<state, parent, wire, rank>>
store == <<rows, snapshot, starts>>
model == <<transcript, copies, consumed>>
process == <<up, stopping>>
maps == <<active, cancelling>>
settlement == <<terminal, durable, direct, settles>>
runs == <<pc, aborted, cancel, settlement>>
pi == <<prompted, piQueue, scheduled, capture>>
pumping == <<pump, pumpOn, pumpRead>>
budgets == <<failures, commitFailures, restarts>>
vars == <<store, model, process, maps, runs, pi, pumping, wakeup, budgets>>

InputStates == {"absent", "pending", "delivered", "completed", "failed", "cancelled"}
Outcomes == {"completed", "failed", "cancelled"}
BoundaryPhases == {"start", "turn_end", "before_settle"}
LeasedPhases == BoundaryPhases \cup {"input", "observe", "model", "draining"}
LivePhases == LeasedPhases \cup {"preparing", "returning"}
EndedPhases == {"committed", "uncommitted", "settling", "done"}
RunPhases == LivePhases \cup EndedPhases \cup {"none"}

-----------------------------------------------------------------------------
(* Rows *)

Listed == {i \in Inputs : state[i] \in {"pending", "delivered"}}
Fresh(i) == rank[i] = 0 /\ snapshot[i] = "none"
NextRank == Cardinality({i \in Inputs : rank[i] # 0}) + 1
Earliest(S) == {i \in S : \A j \in S : rank[i] <= rank[j]}
AnyBatch(S) == SUBSET S  \* fault: a later message may overtake an earlier one
Prefixes(S) == {B \in SUBSET S : \A i \in B, j \in S : rank[j] < rank[i] => j \in B}

NeverFound(i) == FALSE  \* fault: the transcript is not read
InTranscript(i) == wire[i] # {} /\ wire[i] \in transcript

\* fault: a queued wire input counts as committed
ReceiptsOfQueued(r, own) == {i \in Inputs : state[i] = "pending" /\ (wire[i] # {} \/ (own /\ i = r))}

\* Inputs a boundary of run r acknowledges: those Pi committed and, once the
\* turn's own prompt is model input, the input that owns the turn.
Receipts(r, own) ==
  {i \in Inputs : state[i] = "pending" /\ (InTranscript(i) \/ (own /\ i = r))}

Acknowledge(r, own) ==
  /\ state' = [i \in Inputs |-> IF i \in Receipts(r, own) THEN "delivered" ELSE state[i]]
  /\ parent' = [i \in Inputs |-> IF i \in Receipts(r, own) THEN r ELSE parent[i]]

Enqueue(i, owner) ==
  /\ state' = [state EXCEPT ![i] = "pending"]
  /\ parent' = [parent EXCEPT ![i] = owner]
  /\ rank' = [rank EXCEPT ![i] = NextRank]
  /\ UNCHANGED wire

Save(i, outcome) == state' = [state EXCEPT ![i] = outcome]

-----------------------------------------------------------------------------
(* Admission.  The pump holds the session's admission lease while it reads *)
(* the transcript; every other admitted operation is one step.             *)

NoAdmissionLease == TRUE  \* fault
AdmissionFree == pump # "inspect"
RunInFlight == active # None \/ cancelling # None
AcceptsSupplement(r) == r # None /\ r \notin aborted /\ terminal[r] = "none"

StartTurn(i, byClient) ==
  /\ active' = i
  /\ pc' = [pc EXCEPT ![i] = "preparing"]
  /\ direct' = IF byClient THEN direct \cup {i} ELSE direct \ {i}
  /\ snapshot' = [snapshot EXCEPT ![i] = "running"]
  /\ starts' = [starts EXCEPT ![i] = @ + 1]
  /\ prompted' = FALSE /\ piQueue' = <<>> /\ scheduled' = {} /\ capture' = {}

AcceptTurn(i) ==
  /\ up /\ ~stopping /\ AdmissionFree
  /\ i \notin Host /\ Fresh(i) /\ ~RunInFlight
  /\ StartTurn(i, TRUE)
  /\ UNCHANGED <<rows, model, process, cancelling, aborted, cancel, terminal, durable,
                 settles, pumping, wakeup, budgets>>

\* A message for the running turn.  Admitted messages schedule the pump;
\* steerActiveRun, which skips admission, does not.
AcceptSupplement(i) ==
  /\ up /\ i \notin Host /\ Fresh(i)
  /\ AcceptsSupplement(active)
  /\ Enqueue(i, active)
  /\ wakeup' \in {wakeup, TRUE}
  /\ UNCHANGED <<snapshot, starts, model, process, maps, runs, pi, pumping, budgets>>

\* A message that meets a run which no longer takes input owns itself.
AcceptDeferred(i) ==
  /\ up /\ ~stopping /\ AdmissionFree
  /\ i \notin Host /\ Fresh(i)
  /\ RunInFlight /\ ~AcceptsSupplement(active)
  /\ Enqueue(i, i)
  /\ wakeup' = TRUE
  /\ UNCHANGED <<snapshot, starts, model, process, maps, runs, pi, pumping, budgets>>

AcceptHostInput(i) ==
  /\ up /\ ~stopping /\ AdmissionFree
  /\ i \in Host /\ Fresh(i)
  /\ Enqueue(i, i)
  /\ wakeup' = TRUE
  /\ UNCHANGED <<snapshot, starts, model, process, maps, runs, pi, pumping, budgets>>

WithdrawHostInput(i) ==
  /\ up /\ AdmissionFree
  /\ i \in Host /\ state[i] = "pending" /\ wire[i] = {}
  /\ Save(i, "cancelled")
  /\ UNCHANGED <<parent, wire, rank, snapshot, starts, model, process, maps, runs, pi,
                 pumping, wakeup, budgets>>

-----------------------------------------------------------------------------
(* The turn, as Pi's events drive it: a start boundary, then rounds of     *)
(* committed input, receipt, model call and turn-end boundary, a last      *)
(* boundary before the agent settles, and the drain of its events.         *)

Lease(r) ==
  /\ pc[r] = "preparing" /\ r \notin aborted
  /\ pc' = [pc EXCEPT ![r] = "start"]
  /\ UNCHANGED <<store, model, process, maps, aborted, cancel, settlement, pi, pumping,
                 wakeup, budgets>>

Eligible(r) ==
  {i \in Inputs :
     /\ state'[i] = "pending"
     /\ i \notin TurnScoped \cup scheduled \cup {r}
     /\ i \notin FollowUps \/ pc[r] = "before_settle"}

AfterBoundary(phase, queue) ==
  CASE phase = "start" -> {"input"}
    [] queue # <<>> -> {"input"}
    [] phase = "turn_end" -> {"input", "before_settle"}
    [] OTHER -> {"draining"}

\* Receipts first, then the pending inputs this boundary may add are read;
\* their attachments are resolved across awaits.
OpenBoundary(r) ==
  /\ pc[r] \in BoundaryPhases /\ capture = {}
  /\ Acknowledge(r, FALSE)
  /\ IF r \in aborted \/ Eligible(r) = {}
       THEN /\ \E next \in AfterBoundary(pc[r], piQueue) : pc' = [pc EXCEPT ![r] = next]
            /\ UNCHANGED capture
       ELSE capture' = Eligible(r) /\ UNCHANGED pc
  /\ UNCHANGED <<wire, rank, snapshot, starts, model, process, maps, aborted, cancel,
                 settlement, prompted, piQueue, scheduled, pumping, wakeup, budgets>>

\* The rows are written from the copies OpenBoundary read.  A budgeted prefix
\* of them becomes one wire input in Pi's queue; none fits, none is sent.
CloseBoundary(r) ==
  /\ pc[r] \in BoundaryPhases /\ capture # {}
  /\ \E batch \in (IF r \in aborted THEN {{}} ELSE Prefixes(capture)) :
       /\ state' = [i \in Inputs |-> IF i \in batch THEN "pending" ELSE state[i]]
       /\ parent' = [i \in Inputs |-> IF i \in batch THEN r ELSE parent[i]]
       /\ wire' = [i \in Inputs |-> IF i \in batch THEN batch ELSE wire[i]]
       /\ scheduled' = scheduled \cup batch
       /\ piQueue' = IF batch = {} THEN piQueue ELSE Append(piQueue, batch)
       /\ \E next \in AfterBoundary(pc[r], piQueue') : pc' = [pc EXCEPT ![r] = next]
  /\ capture' = {}
  /\ UNCHANGED <<rank, snapshot, starts, model, process, maps, aborted, cancel, settlement,
                 prompted, pumping, wakeup, budgets>>

\* An attachment that cannot be projected fails its input, not the turn.
RejectCaptured(r) ==
  /\ pc[r] \in BoundaryPhases /\ capture # {} /\ r \notin aborted
  /\ failures < MaxFailures
  /\ \E i \in capture : Save(i, "failed") /\ capture' = capture \ {i}
  /\ IF capture' # {} THEN UNCHANGED pc
     ELSE \E next \in AfterBoundary(pc[r], piQueue) : pc' = [pc EXCEPT ![r] = next]
  /\ failures' = failures + 1
  /\ UNCHANGED <<parent, wire, rank, snapshot, starts, model, process, maps, aborted, cancel,
                 settlement, prompted, piQueue, scheduled, pumping, wakeup, commitFailures,
                 restarts>>

\* Pi appends user input to its transcript: the turn's prompt once, with or
\* without a queued wire input, later one wire input or only tool results.
CommitInput(r) ==
  /\ pc[r] = "input" /\ r \notin aborted
  /\ \E take \in IF piQueue = <<>> THEN {FALSE} ELSE IF prompted THEN {TRUE} ELSE BOOLEAN :
       LET batch == IF take THEN Head(piQueue) ELSE {}
           added == batch \cup (IF prompted THEN {} ELSE {r})
       IN /\ transcript' = IF take THEN transcript \cup {batch} ELSE transcript
          /\ piQueue' = IF take THEN Tail(piQueue) ELSE piQueue
          /\ copies' = [i \in Inputs |-> IF i \in added THEN copies[i] + 1 ELSE copies[i]]
          /\ consumed' = consumed \cup added
  /\ prompted' = TRUE
  /\ pc' = [pc EXCEPT ![r] = "observe"]
  /\ UNCHANGED <<store, process, maps, aborted, cancel, settlement, scheduled, capture,
                 pumping, wakeup, budgets>>

\* prepareModelInput: receipts are saved before the model sees the context.
Observe(r) ==
  /\ pc[r] = "observe"
  /\ Acknowledge(r, TRUE)
  /\ pc' = [pc EXCEPT ![r] = "model"]
  /\ UNCHANGED <<wire, rank, snapshot, starts, model, process, maps, aborted, cancel,
                 settlement, pi, pumping, wakeup, budgets>>

ModelTurn(r) ==
  /\ pc[r] = "model" /\ r \notin aborted
  /\ pc' = [pc EXCEPT ![r] = "turn_end"]
  /\ UNCHANGED <<store, model, process, maps, aborted, cancel, settlement, pi, pumping,
                 wakeup, budgets>>

\* The executor's last throwIfAborted.
Return(r) ==
  /\ pc[r] = "draining" /\ r \notin aborted
  /\ pc' = [pc EXCEPT ![r] = "returning"]
  /\ UNCHANGED <<store, model, process, maps, aborted, cancel, settlement, pi, pumping,
                 wakeup, budgets>>

-----------------------------------------------------------------------------
(* The end of a run *)

\* persistTurnCommit, then detachTerminalRun: the session admits new work
\* before the settlement of this run's inputs starts.
CommitTerminal(r, outcome, kept) ==
  /\ terminal' = [terminal EXCEPT ![r] = outcome]
  /\ snapshot' = [snapshot EXCEPT ![r] = outcome]
  /\ durable' = IF kept THEN durable \cup {r} ELSE durable \ {r}
  /\ pc' = [pc EXCEPT ![r] = "committed"]
  /\ active' = None
  /\ cancelling' = IF cancelling = r THEN None ELSE cancelling
  /\ prompted' = FALSE /\ piQueue' = <<>> /\ capture' = {} /\ UNCHANGED scheduled
  /\ UNCHANGED <<rows, starts, model, process, aborted, cancel, direct, settles, pumping,
                 wakeup, restarts>>

\* The loop has passed its last abort check: it completes even if aborted.
RunCompletes(r) ==
  /\ pc[r] = "returning"
  /\ CommitTerminal(r, "completed", TRUE)
  /\ UNCHANGED <<failures, commitFailures>>

BoundariesOnly == BoundaryPhases  \* fault: only boundaries look at the abort signal
AbortablePhases == LivePhases \ {"returning"}

RunCancelled(r) ==
  /\ pc[r] \in AbortablePhases /\ r \in aborted
  /\ CommitTerminal(r, "cancelled", TRUE)
  /\ UNCHANGED <<failures, commitFailures>>

RunFails(r) ==
  /\ pc[r] \in LivePhases /\ failures < MaxFailures
  /\ CommitTerminal(r, "failed", TRUE)
  /\ failures' = failures + 1
  /\ UNCHANGED commitFailures

\* The completed commit throws and the failed commit that follows succeeds.
CompletionRefused(r) ==
  /\ pc[r] = "returning" /\ commitFailures < MaxCommitFailures
  /\ CommitTerminal(r, "failed", FALSE)
  /\ commitFailures' = commitFailures + 1
  /\ UNCHANGED failures

\* No terminal commit succeeds: the run stays in activeRuns until Finalize.
CommitLost(r) ==
  /\ pc[r] \in LivePhases /\ commitFailures < MaxCommitFailures
  /\ \/ terminal' = [terminal EXCEPT ![r] = "failed"]
     \/ r \in aborted /\ pc[r] # "returning" /\ terminal' = [terminal EXCEPT ![r] = "cancelled"]
  /\ commitFailures' = commitFailures + 1
  /\ pc' = [pc EXCEPT ![r] = "uncommitted"]
  /\ prompted' = FALSE /\ piQueue' = <<>> /\ capture' = {} /\ UNCHANGED scheduled
  /\ UNCHANGED <<store, model, process, maps, aborted, cancel, durable, direct, settles,
                 pumping, wakeup, failures, restarts>>

\* settleQueuedInputs: the rows are listed once, one copy is saved per await.
UnsettledAtShutdown(r) ==  \* fault: shutdown cancels what it should preserve
  {i \in Listed :
     r \in durable /\ parent[i] = r /\ (state[i] = "delivered" \/ terminal[r] = "cancelled")}
Unsettled(r) ==
  {i \in Listed :
     /\ r \in durable /\ parent[i] = r
     /\ state[i] = "delivered" \/ (terminal[r] = "cancelled" /\ ~stopping)}

Copies(S) == {<<i, wire[i]>> : i \in S}
FirstCopies(listed) == {row \in listed : \A other \in listed : rank[row[1]] <= rank[other[1]]}

SettleFirst(r, listed) ==
  \/ /\ listed = {}
     /\ settles' = [settles EXCEPT ![r] = {}] /\ UNCHANGED <<state, parent, wire>>
  \/ \E row \in FirstCopies(listed) :
       /\ Save(row[1], terminal[r])
       /\ parent' = [parent EXCEPT ![row[1]] = r]
       /\ wire' = [wire EXCEPT ![row[1]] = row[2]]
       /\ settles' = [settles EXCEPT ![r] = listed \ {row}]

OpenSettlement(r) ==
  /\ pc[r] \in {"committed", "uncommitted"}
  /\ SettleFirst(r, Copies(Unsettled(r)))
  /\ pc' = [pc EXCEPT ![r] = "settling"]
  /\ UNCHANGED <<rank, snapshot, starts, model, process, maps, aborted, cancel,
                 terminal, durable, direct, pi, pumping, wakeup, budgets>>

SettleNext(r) ==
  /\ pc[r] = "settling" /\ settles[r] # {}
  /\ SettleFirst(r, settles[r])
  /\ UNCHANGED <<rank, snapshot, starts, model, process, maps, pc, aborted, cancel,
                 terminal, durable, direct, pi, pumping, wakeup, budgets>>

NeverWakes(r) == wakeup  \* fault: the end of an accepted run is no trigger
WakesPump(r) == wakeup \/ r \in direct

\* finalize resolves run.settled; a stopped run then writes its cancelled
\* snapshot once more, and acceptMessage schedules the pump.  The run object
\* is dead from here on: its fields are cleared.
Finalize(r) ==
  /\ pc[r] = "settling" /\ settles[r] = {}
  /\ pc' = [pc EXCEPT ![r] = "done"]
  /\ active' = IF active = r THEN None ELSE active
  /\ snapshot' = IF r \in aborted THEN [snapshot EXCEPT ![r] = "cancelled"] ELSE snapshot
  /\ wakeup' = WakesPump(r)
  /\ aborted' = aborted \ {r}
  /\ terminal' = [terminal EXCEPT ![r] = "none"]
  /\ durable' = durable \ {r}
  /\ direct' = direct \ {r}
  /\ UNCHANGED <<rows, starts, model, process, cancelling, cancel, settles, pi, pumping,
                 budgets>>

-----------------------------------------------------------------------------
(* Stopping a run *)

\* beginStopActiveRun, idempotent through stopPromise.
Stop(r) ==
  /\ aborted' = aborted \cup {r}
  /\ snapshot' = IF r \in aborted THEN snapshot ELSE [snapshot EXCEPT ![r] = "cancelled"]

UserCancel ==
  /\ up /\ active # None /\ active \notin cancel
  /\ cancel' = cancel \cup {active}
  /\ cancelling' = active
  /\ Stop(active)
  /\ UNCHANGED <<rows, starts, model, process, active, pc, settlement, pi, pumping, wakeup,
                 budgets>>

\* The settlement window elapses first: the control request returns.
CancelTimeout ==
  /\ cancelling # None /\ pc[cancelling] # "done"
  /\ cancelling' = None
  /\ UNCHANGED <<store, model, process, active, runs, pi, pumping, wakeup, budgets>>

\* finishUserCancellation discards the Pi session behind the session's lease,
\* unless Pi was never initialised for it or the reset fails.
LeaseHeld == active # None /\ pc[active] \in LeasedPhases

FinishCancel(r) ==
  /\ r \in cancel /\ pc[r] = "done"
  /\ cancel' = cancel \ {r}
  /\ cancelling' = IF cancelling = r THEN None ELSE cancelling
  /\ \/ /\ ~LeaseHeld
        /\ transcript' = {} /\ copies' = [i \in Inputs |-> 0]
     \/ UNCHANGED <<transcript, copies>>
  /\ UNCHANGED <<store, consumed, process, active, pc, aborted, settlement, pi, pumping,
                 wakeup, budgets>>

-----------------------------------------------------------------------------
(* The recovery pump: resumeQueuedMessages and resumeQueuedSession *)

InFlight == IF active # None THEN active ELSE cancelling

Resume ==
  /\ up /\ wakeup
  /\ wakeup' = FALSE
  /\ IF stopping \/ pump # "off" \/ Listed = {}
       THEN UNCHANGED pumping
       ELSE pump' = "wait" /\ pumpOn' = InFlight /\ UNCHANGED pumpRead
  /\ UNCHANGED <<store, model, process, maps, runs, pi, budgets>>

PumpRest == pump' = "off" /\ pumpOn' = None /\ pumpRead' = {}

WiredInputs == {i \in Listed : wire[i] # {}}  \* fault: the transcript is not consulted
FoundConsumed == {i \in Listed : state[i] = "delivered" \/ InTranscript(i)}

\* The awaited run settled; under admission the queue and the transcript are
\* read.
PumpInspect ==
  /\ pump = "wait" /\ (pumpOn # None => pc[pumpOn] = "done")
  /\ IF stopping \/ (active = None /\ Listed = {}) THEN PumpRest
     ELSE IF active # None THEN pumpOn' = active /\ UNCHANGED <<pump, pumpRead>>
     ELSE /\ pump' = "inspect" /\ pumpOn' = None
          /\ pumpRead' = FoundConsumed
  /\ UNCHANGED <<store, model, process, maps, runs, pi, wakeup, budgets>>

CompletedUnlessCancelled(i) ==  \* fault
  IF snapshot[parent[i]] = "cancelled" THEN "cancelled" ELSE "completed"
Inherited(i) == IF snapshot[parent[i]] \in {"completed", "cancelled"}
                  THEN snapshot[parent[i]] ELSE "failed"
Reconciled == [i \in Inputs |-> IF i \in pumpRead THEN Inherited(i) ELSE state[i]]
AnyPending == {i \in Inputs : Reconciled[i] = "pending"}  \* fault: quiet notices wake
Wakeable == {i \in Inputs \ Quiet : Reconciled[i] = "pending"}

ReplaysRunning(i) == snapshot[i] = "running"  \* fault: only a live run counts as started
Replays(i) == snapshot[i] # "none"

\* What the inspection found is settled with its parent's outcome, then the
\* first input that may wake the session starts its own turn.  A turn that was
\* started before is only replayed, which leaves its input pending: it fails.
PumpActivate ==
  /\ pump = "inspect" /\ ~stopping
  /\ \/ /\ Wakeable = {} \/ cancelling # None
        /\ PumpRest /\ state' = Reconciled
        /\ UNCHANGED <<parent, wire, rank, snapshot, starts, active, pc, direct, pi>>
     \/ /\ cancelling = None
        /\ \E next \in Earliest(Wakeable) :
             /\ parent' = [parent EXCEPT ![next] = next] /\ UNCHANGED <<wire, rank>>
             /\ IF Replays(next)
                  THEN /\ PumpRest
                       /\ state' = [Reconciled EXCEPT ![next] = "failed"]
                       /\ UNCHANGED <<snapshot, starts, active, pc, direct, pi>>
                  ELSE /\ pump' = "run" /\ pumpOn' = next /\ pumpRead' = {}
                       /\ state' = Reconciled
                       /\ StartTurn(next, FALSE)
  /\ UNCHANGED <<model, process, cancelling, aborted, cancel, terminal, durable, settles,
                 wakeup, budgets>>

PumpStops ==
  /\ pump = "inspect" /\ stopping
  /\ PumpRest
  /\ UNCHANGED <<store, model, process, maps, runs, pi, wakeup, budgets>>

\* Starting that turn throws: its input fails, and the pump with it.
PumpRefused ==
  /\ pump = "inspect" /\ ~stopping /\ cancelling = None
  /\ failures < MaxFailures
  /\ \E next \in Earliest(Wakeable) : state' = [Reconciled EXCEPT ![next] = "failed"]
  /\ PumpRest
  /\ failures' = failures + 1
  /\ UNCHANGED <<parent, wire, rank, snapshot, starts, model, process, maps, runs, pi, wakeup,
                 commitFailures, restarts>>

\* The turn the pump started ended; its input must have left the queue.
PumpContinue ==
  /\ pump = "run" /\ pc[pumpOn] = "done"
  /\ IF state[pumpOn] = "pending"
       THEN /\ PumpRest
            /\ IF stopping THEN UNCHANGED state ELSE Save(pumpOn, "failed")
       ELSE /\ UNCHANGED state
            /\ IF stopping THEN PumpRest
               ELSE pump' = "wait" /\ pumpOn' = InFlight /\ UNCHANGED pumpRead
  /\ UNCHANGED <<parent, wire, rank, snapshot, starts, model, process, maps, runs, pi, wakeup,
                 budgets>>

-----------------------------------------------------------------------------
(* The process *)

BeginShutdown ==
  /\ up /\ ~stopping
  /\ stopping' = TRUE
  /\ UNCHANGED <<store, model, up, maps, runs, pi, pumping, wakeup, budgets>>

\* settleAllActiveRuns
StopRuns ==
  /\ up /\ stopping /\ active # None /\ active \notin aborted
  /\ Stop(active)
  /\ UNCHANGED <<rows, starts, model, process, maps, pc, cancel, settlement, pi, pumping,
                 wakeup, budgets>>

ForgetMemory ==
  /\ up' = FALSE /\ stopping' = FALSE /\ active' = None /\ cancelling' = None
  /\ pc' = [r \in Inputs |-> "none"] /\ aborted' = {}
  /\ terminal' = [r \in Inputs |-> "none"] /\ durable' = {}
  /\ direct' = {} /\ cancel' = {}
  /\ settles' = [r \in Inputs |-> {}]
  /\ prompted' = FALSE /\ piQueue' = <<>> /\ scheduled' = {} /\ capture' = {}
  /\ PumpRest /\ wakeup' = FALSE

\* A crash at any step; a graceful exit is one that meets no live run.
Crash ==
  /\ up /\ restarts < MaxRestarts
  /\ ForgetMemory
  /\ restarts' = restarts + 1
  /\ UNCHANGED <<store, model, failures, commitFailures>>

KeptSnapshot(r) == snapshot[r]  \* fault: no reconciliation
ReconciledSnapshot(r) == IF snapshot[r] = "running" THEN "failed" ELSE snapshot[r]

\* Orphaned running snapshots fail, then the surfaces attach and the pump is
\* scheduled.
Restart ==
  /\ ~up
  /\ up' = TRUE /\ wakeup' = TRUE
  /\ snapshot' = [r \in Inputs |-> ReconciledSnapshot(r)]
  /\ UNCHANGED <<rows, starts, model, stopping, maps, runs, pi, pumping, budgets>>

-----------------------------------------------------------------------------
Init ==
  /\ state = [i \in Inputs |-> "absent"] /\ parent = [i \in Inputs |-> None]
  /\ wire = [i \in Inputs |-> {}] /\ rank = [i \in Inputs |-> 0]
  /\ snapshot = [i \in Inputs |-> "none"]
  /\ transcript = {} /\ copies = [i \in Inputs |-> 0]
  /\ starts = [i \in Inputs |-> 0] /\ consumed = {}
  /\ up = TRUE /\ stopping = FALSE /\ active = None /\ cancelling = None
  /\ pc = [r \in Inputs |-> "none"] /\ aborted = {}
  /\ terminal = [r \in Inputs |-> "none"] /\ durable = {}
  /\ direct = {} /\ cancel = {}
  /\ settles = [r \in Inputs |-> {}]
  /\ prompted = FALSE /\ piQueue = <<>> /\ scheduled = {} /\ capture = {}
  /\ pump = "off" /\ pumpOn = None /\ pumpRead = {} /\ wakeup = FALSE
  /\ failures = 0 /\ commitFailures = 0 /\ restarts = 0

ClientStep(i) ==
  \/ AcceptTurn(i) \/ AcceptSupplement(i) \/ AcceptDeferred(i)
  \/ AcceptHostInput(i) \/ WithdrawHostInput(i)

TurnStep(r) ==
  \/ Lease(r) \/ OpenBoundary(r) \/ CloseBoundary(r) \/ RejectCaptured(r)
  \/ CommitInput(r) \/ Observe(r) \/ ModelTurn(r) \/ Return(r)

EndStep(r) ==
  \/ RunCompletes(r) \/ RunCancelled(r) \/ RunFails(r) \/ CompletionRefused(r)
  \/ CommitLost(r) \/ OpenSettlement(r) \/ SettleNext(r) \/ Finalize(r)

PumpStep == Resume \/ PumpInspect \/ PumpActivate \/ PumpStops \/ PumpRefused \/ PumpContinue

Next ==
  \/ \E i \in Inputs : ClientStep(i) \/ TurnStep(i) \/ EndStep(i) \/ FinishCancel(i)
  \/ UserCancel \/ CancelTimeout \/ PumpStep
  \/ BeginShutdown \/ StopRuns \/ Crash \/ Restart

Spec == Init /\ [][Next]_vars

\* A turn does not call tools for ever: Pi, asked again and again at its
\* turn ends, eventually asks for its last boundary.
FinishesTools(r) == (OpenBoundary(r) \/ CloseBoundary(r)) /\ pc'[r] = "before_settle"

\* The ways a run ends without a failure; a failure is never obliged.
Ends(r) == RunCompletes(r) \/ RunCancelled(r) \/ OpenSettlement(r) \/ SettleNext(r) \/ Finalize(r)

\* The event loop runs what is ready: turns, ends, cleanups and the pump.
\* Clients, the timeout, shutdown, crashes and restarts are not obliged.
Fairness ==
  /\ \A r \in Inputs : /\ WF_vars(TurnStep(r)) /\ SF_vars(FinishesTools(r))
                       /\ WF_vars(Ends(r)) /\ WF_vars(FinishCancel(r))
  /\ WF_vars(PumpStep)

FairSpec == Spec /\ Fairness

-----------------------------------------------------------------------------
(* Properties *)

\* The columns of session_inputs and run_snapshots, and the turns started.
RowTypes ==
  /\ state \in [Inputs -> InputStates]
  /\ parent \in [Inputs -> Inputs \cup {None}]
  /\ wire \in [Inputs -> SUBSET Inputs] /\ rank \in [Inputs -> Nat]
  /\ snapshot \in [Inputs -> Outcomes \cup {"none", "running"}]
  /\ starts \in [Inputs -> Nat]

\* The transcript Pi keeps and the inputs it ever held.
ModelTypes ==
  transcript \subseteq SUBSET Inputs /\ copies \in [Inputs -> Nat] /\ consumed \subseteq Inputs

\* The manager and the two maps that name the run in flight.
MapTypes ==
  /\ up \in BOOLEAN /\ stopping \in BOOLEAN
  /\ active \in Inputs \cup {None} /\ cancelling \in Inputs \cup {None}

\* The fields of the run objects of this process lifetime.
RunTypes ==
  /\ pc \in [Inputs -> RunPhases] /\ aborted \subseteq Inputs /\ cancel \subseteq Inputs
  /\ terminal \in [Inputs -> Outcomes \cup {"none"}]
  /\ durable \subseteq Inputs /\ direct \subseteq Inputs
  /\ settles \in [Inputs -> SUBSET (Inputs \X SUBSET Inputs)]

\* The queue and the boundary capture of the live Pi session.
PiTypes ==
  /\ prompted \in BOOLEAN /\ piQueue \in Seq(SUBSET Inputs)
  /\ scheduled \subseteq Inputs /\ capture \subseteq Inputs

\* The recovery pump and its trigger.
PumpTypes ==
  /\ pump \in {"off", "wait", "inspect", "run"} /\ pumpOn \in Inputs \cup {None}
  /\ pumpRead \subseteq Inputs /\ wakeup \in BOOLEAN

\* The bounds on failures and restarts.
BudgetTypes == failures \in Nat /\ commitFailures \in Nat /\ restarts \in Nat

\* Type correctness.  Its delicate part is a recovered row: the outcome it
\* inherits from its parent's snapshot must be one an input may have.
TypeOK ==
  RowTypes /\ ModelTypes /\ MapTypes /\ RunTypes /\ PiTypes /\ PumpTypes /\ BudgetTypes

\* One session never executes two turns: a run that can still call the model
\* or write its end is the one registered in activeRuns, whatever the pump,
\* clients, cancellations and lost commits do.
OneLiveRun ==
  \A r \in Inputs : pc[r] \in LivePhases \cup {"uncommitted"} => active = r

\* No crash, retry or recovery starts the turn of one request id twice.
StartedOnce == \A i \in Inputs : starts[i] <= 1

\* A receipt (delivered, and completed after it) is only shown for an input Pi
\* really took as user input.
HonestReceipts ==
  \A i \in Inputs : state[i] \in {"delivered", "completed"} => i \in consumed

\* A snapshot says running only for a run of this process: a live one, or one
\* none of whose terminal commits was accepted.
RunningIsLive ==
  \A r \in Inputs : up /\ snapshot[r] = "running" =>
    pc[r] \in LivePhases \/ (commitFailures > 0 /\ pc[r] # "none")

\* A turn-scoped host input is read by its own turn or by none, and a quiet
\* notice never starts one, through any number of restarts.
HostPolicy ==
  /\ \A i \in TurnScoped \cap consumed : starts[i] = 1
  /\ \A i \in Quiet : starts[i] = 0

\* A supplement that never owned a turn is in the transcript at most once,
\* even when its run dies between Pi's commit and the receipt.
SupplementOnce == \A i \in Inputs : starts[i] = 0 => copies[i] <= 1

\* An input is completed only when the turn that read it completed.
OutcomeMatchesTurn ==
  [][\A i \in Inputs : state'[i] # state[i] /\ state'[i] = "completed"
       => snapshot'[parent'[i]] = "completed"]_vars

\* Shutting down or crashing cancels no user message Pi has not read: only a
\* user's stop of the task it supplements does.
ShutdownKeepsUnconsumed ==
  [][\A i \in Inputs \ Host :
       state[i] = "pending" /\ state'[i] = "cancelled" /\ i \notin consumed => parent'[i] \in cancel]_vars

\* Recovery fails a message Pi has not read only if its own turn was started;
\* otherwise the message survives the failure, stop or crash of its task.
UnreadNeverFails ==
  [][\A i \in Inputs :
       /\ state[i] = "pending" /\ state'[i] = "failed" /\ failures' = failures
       /\ i \notin consumed
       => starts[i] = 1]_vars

\* A steering message is not read before an earlier one still pending.
SteersInOrder ==
  [][\A i, j \in Inputs \ (FollowUps \cup TurnScoped) :
       /\ j \in consumed' \ consumed /\ starts[j] = 0
       /\ rank[i] # 0 /\ rank[i] < rank[j] /\ state[i] = "pending"
       => i \in consumed']_vars

\* Every accepted input that may wake the session leaves the queue while the
\* process runs.
QueueDrains ==
  \A i \in Inputs \ Quiet : state[i] = "pending" ~> state[i] # "pending" \/ stopping \/ ~up

\* An accepted stop reaches the end of its background cleanup.
CancellationFinishes == \A r \in Inputs : r \in cancel ~> r \notin cancel
=============================================================================
