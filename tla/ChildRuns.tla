------------------------------ MODULE ChildRuns ------------------------------
(***************************************************************************)
(* AgentDelegationService and AgentSqliteChildRunRepository: the life of   *)
(* the child runs of one agent tree.  The row of a run is changed only by  *)
(* guarded UPDATEs; execute() drives one activation of it through awaits   *)
(* at which cancellation, the deadline monitor, a question to the          *)
(* supervisor and the end of the process come in.                          *)
(*                                                                         *)
(* Definitions marked `fault' are seeded faults: each replaces the         *)
(* definition that follows it to show that a property notices.             *)
(***************************************************************************)
EXTENDS Naturals, FiniteSets

CONSTANTS
  Runs,            \* child runs of one owner
  Claiming,        \* those whose contract declares resources
  Writers,         \* those with read-write workspace access
  MaxActivePerTree,
  MaxConcurrentRuns,
  MaxConcurrentWriters,
  MaxActivations   \* bound: activations of each run

ASSUME RunAssumption ==
  /\ IsFiniteSet(Runs) /\ Claiming \subseteq Runs /\ Writers \subseteq Runs
  /\ {MaxActivePerTree, MaxConcurrentRuns, MaxConcurrentWriters} \subseteq Nat \ {0}
  /\ MaxActivations \in [Runs -> Nat]

VARIABLES
  status,       \* child_runs.status; "none" before the run is created
  activation,   \* how many child requests the run has had
  detached,     \* launchContract.executionMode is detach
  announced,    \* the activations whose completion the outbox holds
  step,         \* where execute() stands; "off": the run is not in the active map
  termination,  \* ActiveChildRun.termination
  stopping,     \* terminateActiveRun awaits its event before it aborts
  aborted,      \* ActiveChildRun.controller.signal.aborted
  monitor,      \* AgentChildRunDeadlineController
  permit,       \* execute() holds a permit of the gate
  asking,       \* contactSupervisor awaits the event of its message
  accepting     \* AgentDelegationService.acceptingWork

record == <<status, activation, detached, announced>>
control == <<termination, stopping, aborted, monitor>>
vars == <<record, step, control, permit, asking, accepting>>

Unsettled == {"queued", "running", "wrapping_up", "cancelling"}
Deliverable == {"completed", "partial_completed", "interrupted", "timed_out", "failed"}
Terminal == Deliverable \cup {"cancelled"}
Statuses == {"none", "awaiting_supervisor"} \cup Unsettled \cup Terminal

Active(r) == step[r] # "off"

-----------------------------------------------------------------------------
(* The guarded updates of the repository: status r has afterwards *)

Mark(r, from, to) == IF status[r] \in from THEN to ELSE status[r]

markRunning(r) == Mark(r, {"queued"}, "running")
markWrappingUp(r) == Mark(r, {"running"}, "wrapping_up")
NotWhileWrappingUp(r) == Mark(r, {"queued", "running"}, "cancelling")  \* fault
markCancelling(r) == Mark(r, {"queued", "running", "wrapping_up"}, "cancelling")
markAwaitingSupervisor(r) == Mark(r, {"running"}, "awaiting_supervisor")
markCompleted(r) == Mark(r, {"running", "wrapping_up"}, "completed")
markPartialCompleted(r) == Mark(r, Unsettled \ {"queued"}, "partial_completed")
markInterrupted(r) == Mark(r, Unsettled \ {"queued"}, "interrupted")
markTimedOut(r) == Mark(r, Unsettled \ {"queued"}, "timed_out")
markFailed(r) == Mark(r, Unsettled \cup {"awaiting_supervisor"}, "failed")
markCancelled(r) == Mark(r, Unsettled \cup {"awaiting_supervisor"}, "cancelled")
recoverInterrupted(r) == Mark(r, Unsettled, "interrupted")

SetStatus(r, s) == status' = [status EXCEPT ![r] = s]

-----------------------------------------------------------------------------
(* Limits *)

\* assertActivationCapacity: a run that awaits its supervisor does not count.
Settled(r) == status[r] \notin Unsettled
RoomForOneMore(n) == n <= MaxActivePerTree  \* fault
RoomInTree(n) == n < MaxActivePerTree
HasCapacity == RoomInTree(Cardinality({r \in Runs : ~Settled(r)}))

Holders == {r \in Runs : permit[r]}

\* AgentRunConcurrencyGate.tryAcquire: an activation never waits for a permit.
CanAcquire(r) ==
  /\ Cardinality(Holders) < MaxConcurrentRuns
  /\ r \in Writers => Cardinality(Holders \cap Writers) < MaxConcurrentWriters

-----------------------------------------------------------------------------
(* Activation: everything up to the first await of execute() *)

Activate(r) ==
  /\ accepting /\ HasCapacity
  /\ activation[r] < MaxActivations[r]
  /\ SetStatus(r, "queued")
  /\ activation' = [activation EXCEPT ![r] = @ + 1]
  /\ \E d \in BOOLEAN : detached' = [detached EXCEPT ![r] = d]
  /\ UNCHANGED <<announced, control, permit, asking, accepting>>

\* initialize: a spawned run.  The caller's signal may have fired while the
\* declared resources were projected; startExecution throws after the row is
\* there.
Spawn(r) ==
  /\ status[r] = "none"
  /\ Activate(r)
  /\ step' = [step EXCEPT ![r] = "queue"] \/ (r \in Claiming /\ UNCHANGED step)

\* resume, also on behalf of a message to the run.  sendInput waits for the
\* activation that asked before it resumes, and the caller's signal may fire
\* meanwhile.
Resume(r) ==
  /\ ~Active(r)
  /\ status[r] \in Terminal \cup {"awaiting_supervisor"}
  /\ Activate(r)
  /\ \/ step' = [step EXCEPT ![r] = "queue"]
     \/ status[r] = "awaiting_supervisor" /\ UNCHANGED step

\* activateQueuedInput: a host input wakes the child's session.
ActivateQueuedInput(r) ==
  /\ ~Active(r)
  /\ status[r] \in (Terminal \ {"cancelled"}) \cup {"awaiting_supervisor"}
  /\ Activate(r) /\ detached'[r]
  /\ step' = [step EXCEPT ![r] = "queue"]

-----------------------------------------------------------------------------
(* execute() *)

\* After the catch block's await, or at once when the run never started.
Outcomes(r) ==
  CASE termination[r] = "cancel" -> {markCancelled(r)}
    [] termination[r] = "timeout" -> {markTimedOut(r)}
    [] OTHER -> {markInterrupted(r), markFailed(r)}

GoTo(r, s) == step' = [step EXCEPT ![r] = s]

\* The resources conflict with an ancestor's, the wait for them is aborted, or
\* the gate is full.
FailToStart(r) ==
  /\ step[r] = "queue"
  /\ r \in Claiming \/ ~CanAcquire(r)
  /\ \E s \in Outcomes(r) : SetStatus(r, s)
  /\ GoTo(r, "publish")
  /\ UNCHANGED <<activation, detached, announced, control, permit, asking, accepting>>

\* A run that is cancelled while it is queued returns here.
Start(r) ==
  /\ step[r] = "queue" /\ CanAcquire(r)
  /\ permit' = [permit EXCEPT ![r] = TRUE]
  /\ SetStatus(r, markRunning(r))
  /\ IF markRunning(r) = "running"
       THEN GoTo(r, "run") /\ monitor' = [monitor EXCEPT ![r] = "soft"]
       ELSE GoTo(r, "leave") /\ UNCHANGED monitor
  /\ UNCHANGED <<activation, detached, announced, termination, stopping, aborted, asking, accepting>>

\* The child's turn ended and nobody had aborted it; the final activity
\* snapshot is being saved.
DispatchReturns(r) ==
  /\ step[r] = "run" /\ ~aborted[r]
  /\ GoTo(r, "save")
  /\ UNCHANGED <<record, control, permit, asking, accepting>>

\* The turn failed or was aborted, or the snapshot could not be saved.  A run
\* that awaits its supervisor stays as it is.
Fail(r) ==
  /\ step[r] \in {"run", "save"}
  /\ GoTo(r, IF status[r] = "awaiting_supervisor" THEN "leave" ELSE "fail")
  /\ UNCHANGED <<record, control, permit, asking, accepting>>

\* The result is recorded: in full, in part, or as a checkpoint beside the
\* question.
SaveResult(r) ==
  /\ step[r] = "save"
  /\ \E s \in IF status[r] = "awaiting_supervisor" THEN {status[r]}
              ELSE {markCompleted(r), markPartialCompleted(r)} :
       /\ SetStatus(r, s)
       /\ GoTo(r, IF s \in {"completed", "partial_completed"} THEN "publish" ELSE "leave")
  /\ UNCHANGED <<activation, detached, announced, control, permit, asking, accepting>>

SaveFailure(r) ==
  /\ step[r] = "fail"
  /\ \E s \in Outcomes(r) : SetStatus(r, s)
  /\ GoTo(r, "publish")
  /\ UNCHANGED <<activation, detached, announced, control, permit, asking, accepting>>

\* notifyCompletion: only detached work with a result to tell.
Announce(r) == IF detached[r] /\ status[r] \in Deliverable
                 THEN announced[r] \cup {activation[r]} ELSE announced[r]

\* The lifecycle event is out; the completion is put in the outbox.
Publish(r) ==
  /\ step[r] = "publish"
  /\ announced' = [announced EXCEPT ![r] = Announce(r)]
  /\ GoTo(r, "leave")
  /\ UNCHANGED <<status, activation, detached, control, permit, asking, accepting>>

KeepsPermit(r) == permit  \* fault
Freed(r) == [permit EXCEPT ![r] = FALSE]

\* finally: the monitor is stopped and waited for, the permit given back and
\* the run leaves the active map.
Leave(r) ==
  /\ step[r] = "leave"
  /\ monitor[r] \notin {"late", "stop"}
  /\ GoTo(r, "off")
  /\ permit' = Freed(r)
  /\ termination' = [termination EXCEPT ![r] = "none"]
  /\ stopping' = [stopping EXCEPT ![r] = FALSE]
  /\ aborted' = [aborted EXCEPT ![r] = FALSE]
  /\ monitor' = [monitor EXCEPT ![r] = "off"]
  /\ UNCHANGED <<record, asking, accepting>>

-----------------------------------------------------------------------------
(* Cancellation, deadline and the supervisor *)

ForgetsToAbort(r, told) ==  \* fault: only a run that can still be marked is aborted
  /\ stopping' = [stopping EXCEPT ![r] = told]
  /\ UNCHANGED aborted
AbortAfter(r, told) ==
  /\ stopping' = [stopping EXCEPT ![r] = told]
  /\ aborted' = [aborted EXCEPT ![r] = @ \/ ~told]

\* terminateActiveRun: the first termination of an activation wins.
Terminate(r, how) ==
  /\ termination[r] = "none"
  /\ termination' = [termination EXCEPT ![r] = how]
  /\ SetStatus(r, markCancelling(r))
  /\ AbortAfter(r, markCancelling(r) = "cancelling")

\* cancel of an active run, the abort of the parent that waits for it, stop of
\* the tree it belongs to, or shutdown.
Cancel(r) ==
  /\ Active(r) /\ Terminate(r, "cancel")
  /\ monitor' = [monitor EXCEPT ![r] = IF @ \in {"soft", "wrap"} THEN "off" ELSE @]
  /\ UNCHANGED <<activation, detached, announced, step, permit, asking, accepting>>

\* cancel of a run that awaits its supervisor and is not active.
CancelWaiting(r) ==
  /\ ~Active(r) /\ status[r] = "awaiting_supervisor"
  /\ SetStatus(r, markCancelled(r))
  /\ UNCHANGED <<activation, detached, announced, step, control, permit, asking, accepting>>

\* The cancelling event is out.
Abort(r) ==
  /\ stopping[r]
  /\ stopping' = [stopping EXCEPT ![r] = FALSE]
  /\ aborted' = [aborted EXCEPT ![r] = TRUE]
  /\ monitor' = [monitor EXCEPT ![r] = IF @ = "stop" THEN "off" ELSE @]
  /\ UNCHANGED <<record, step, termination, permit, asking, accepting>>

\* The soft deadline and its extensions are over, or a budget is.
WrapUp(r) ==
  /\ monitor[r] = "soft" /\ step[r] # "leave"
  /\ monitor' = [monitor EXCEPT ![r] = "wrap"]
  /\ SetStatus(r, markWrappingUp(r))
  /\ UNCHANGED <<activation, detached, announced, step, termination, stopping, aborted,
                 permit, asking, accepting>>

\* The hard deadline is over; onTimedOut saves a snapshot first.
HardDeadline(r) ==
  /\ monitor[r] = "wrap" /\ step[r] # "leave"
  /\ monitor' = [monitor EXCEPT ![r] = "late"]
  /\ UNCHANGED <<record, step, termination, stopping, aborted, permit, asking, accepting>>

TimeOut(r) ==
  /\ monitor[r] = "late"
  /\ \/ /\ Terminate(r, "timeout")
        /\ monitor' = [monitor EXCEPT ![r] = IF stopping'[r] THEN "stop" ELSE "off"]
     \/ /\ termination[r] # "none"
        /\ monitor' = [monitor EXCEPT ![r] = "off"]
        /\ UNCHANGED <<status, termination, stopping, aborted>>
  /\ UNCHANGED <<activation, detached, announced, step, permit, asking, accepting>>

\* contactSupervisor with a question.
Ask(r) ==
  /\ step[r] = "run" /\ status[r] = "running"
  /\ asking' = [asking EXCEPT ![r] = TRUE]
  /\ UNCHANGED <<record, step, control, permit, accepting>>

AwaitSupervisor(r) ==
  /\ asking[r]
  /\ asking' = [asking EXCEPT ![r] = FALSE]
  /\ SetStatus(r, markAwaitingSupervisor(r))
  /\ UNCHANGED <<activation, detached, announced, step, control, permit, accepting>>

-----------------------------------------------------------------------------
(* The process *)

\* shutdown: nothing new is accepted; Cancel then ends what is active.
Shutdown ==
  /\ accepting /\ accepting' = FALSE
  /\ UNCHANGED <<record, step, control, permit, asking>>

OnlyInterrupted(r) ==  \* fault: completions the outbox never saw are not looked for
  status[r] \in Unsettled
Replayed(r) == status[r] \in Unsettled \cup Deliverable

\* The process ends, in order or not, and starts again: unsettled runs were
\* interrupted, and every deliverable result is put in the outbox unless it is
\* there.
Restart ==
  /\ status' = [r \in Runs |-> recoverInterrupted(r)]
  /\ announced' = [r \in Runs |-> IF Replayed(r) /\ detached[r]
                                    THEN announced[r] \cup {activation[r]} ELSE announced[r]]
  /\ step' = [r \in Runs |-> "off"]
  /\ termination' = [r \in Runs |-> "none"]
  /\ stopping' = [r \in Runs |-> FALSE]
  /\ aborted' = [r \in Runs |-> FALSE]
  /\ monitor' = [r \in Runs |-> "off"]
  /\ permit' = [r \in Runs |-> FALSE]
  /\ asking' = [r \in Runs |-> FALSE]
  /\ accepting' = TRUE
  /\ UNCHANGED <<activation, detached>>

Init ==
  /\ status = [r \in Runs |-> "none"]
  /\ activation = [r \in Runs |-> 0]
  /\ detached = [r \in Runs |-> FALSE]
  /\ announced = [r \in Runs |-> {}]
  /\ step = [r \in Runs |-> "off"]
  /\ termination = [r \in Runs |-> "none"]
  /\ stopping = [r \in Runs |-> FALSE]
  /\ aborted = [r \in Runs |-> FALSE]
  /\ monitor = [r \in Runs |-> "off"]
  /\ permit = [r \in Runs |-> FALSE]
  /\ asking = [r \in Runs |-> FALSE]
  /\ accepting = TRUE

Next ==
  \/ \E r \in Runs :
       \/ Spawn(r) \/ Resume(r) \/ ActivateQueuedInput(r)
       \/ FailToStart(r) \/ Start(r) \/ DispatchReturns(r) \/ Fail(r)
       \/ SaveResult(r) \/ SaveFailure(r) \/ Publish(r) \/ Leave(r)
       \/ Cancel(r) \/ CancelWaiting(r) \/ Abort(r)
       \/ WrapUp(r) \/ HardDeadline(r) \/ TimeOut(r)
       \/ Ask(r) \/ AwaitSupervisor(r)
  \/ Shutdown \/ Restart

Spec == Init /\ [][Next]_vars

\* Events are delivered or given up, timers fire, and a turn ends once it is
\* aborted; a turn that nobody aborts may run for ever.
Fairness ==
  \A r \in Runs :
    /\ WF_vars(Start(r)) /\ WF_vars(FailToStart(r))
    /\ WF_vars(aborted[r] /\ Fail(r))
    /\ WF_vars(SaveResult(r)) /\ WF_vars(SaveFailure(r)) /\ WF_vars(Publish(r)) /\ WF_vars(Leave(r))
    /\ WF_vars(Abort(r))
    /\ WF_vars(WrapUp(r)) /\ WF_vars(HardDeadline(r)) /\ WF_vars(TimeOut(r))

FairSpec == Spec /\ Fairness

-----------------------------------------------------------------------------
(* Properties *)

\* Type correctness; what is in flight belongs to a run in the active map.
TypeOK ==
  /\ status \in [Runs -> Statuses]
  /\ activation \in [Runs -> Nat]
  /\ detached \in [Runs -> BOOLEAN]
  /\ announced \in [Runs -> SUBSET Nat]
  /\ step \in [Runs -> {"off", "queue", "run", "save", "fail", "publish", "leave"}]
  /\ termination \in [Runs -> {"none", "cancel", "timeout"}]
  /\ stopping \in [Runs -> BOOLEAN] /\ aborted \in [Runs -> BOOLEAN]
  /\ monitor \in [Runs -> {"off", "soft", "wrap", "late", "stop"}]
  /\ permit \in [Runs -> BOOLEAN] /\ asking \in [Runs -> BOOLEAN] /\ accepting \in BOOLEAN
  /\ \A r \in Runs : ~Active(r) =>
       /\ termination[r] = "none" /\ ~stopping[r] /\ ~aborted[r]
       /\ monitor[r] = "off" /\ ~permit[r]

\* The limits of the tree and of the gate hold through every resumption, also
\* of a run whose last activation awaits its supervisor or has just ended.
WithinLimits ==
  /\ Cardinality({r \in Runs : ~Settled(r)}) <= MaxActivePerTree
  /\ Cardinality(Holders) <= MaxConcurrentRuns
  /\ Cardinality(Holders \cap Writers) <= MaxConcurrentWriters

\* The completion of a detached activation is in the outbox once the run has
\* left the active map, through failures and crashes between the result and
\* its announcement, and nothing else ever is.
AnnouncedExactly ==
  \A r \in Runs :
    LET owed == detached[r] /\ status[r] \in Deliverable IN
    /\ activation[r] \in announced[r] => owed
    /\ ~Active(r) /\ owed => activation[r] \in announced[r]

\* A run whose termination was accepted never completes: the row was marked
\* in the same step, whatever the deadline had made of it before.
CompletedUncancelled ==
  [][\A r \in Runs : status[r] # "completed" /\ status'[r] = "completed"
                       => termination[r] = "none"]_vars

\* Every activation leaves the active map and gives its permit back: by its
\* own end, by cancellation or by its deadlines.
EveryActivationEnds == \A r \in Runs : Active(r) ~> ~Active(r)

-----------------------------------------------------------------------------
(* What a comment of the repository says and the code does not keep.       *)

\* "The child remains active until its Session, provider stream, and owned
\* resources have actually settled; that later transition is published":
\* a run that is cancelling is active, so that it is settled one day.
CancellingIsActive == \A r \in Runs : status[r] = "cancelling" => Active(r)
=============================================================================
