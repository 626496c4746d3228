----------------------- MODULE SessionOutcomes_proofs -----------------------
(***************************************************************************)
(* Theorems about SessionInbox, for every set of request ids and every     *)
(* bound, that build on single execution and honest receipts: what a       *)
(* snapshot promises, which inputs a turn reads and in which order, how    *)
(* often a supplement is read, and how an unread message may end.          *)
(***************************************************************************)
EXTENDS SessionInbox_proofs

USE DEF rows, store, model, process, maps, settlement, runs, pi, pumping, budgets

(***************************************************************************)
(* The kinds of steps.  Four steps of a turn move inputs towards the       *)
(* model; others start or end a run and clear its Pi session; the rest     *)
(* leave that session alone.                                               *)
(***************************************************************************)
Moves(r) == OpenBoundary(r) \/ CloseBoundary(r) \/ RejectCaptured(r) \/ CommitInput(r)

\* Rows only leave the queue, and those that stay keep their wire batch.
Dequeues ==
  /\ UNCHANGED rank
  /\ \A i \in Inputs : state'[i] = "pending" => state[i] = "pending" /\ wire'[i] = wire[i]

\* A new row enters the queue, behind all others.
Enqueues == \E i \in Inputs : \E owner \in Inputs : Fresh(i) /\ Enqueue(i, owner)

\* Starts are counted up, and never for a quiet notice.
Starts ==
  \A i \in Inputs : starts[i] <= starts'[i] /\ (i \in Quiet => starts'[i] = starts[i])

\* A run starts, or the active run ends or dies with the process.
Clears ==
  /\ piQueue' = <<>> /\ capture' = {}
  /\ scheduled' = {} \/ active' = None \/ pc'[active'] \notin LivePhases
  /\ UNCHANGED model /\ Dequeues /\ Starts

\* Pi's session is kept, and so is the run it belongs to until that has settled.
Keeps ==
  /\ UNCHANGED <<pi, starts, consumed>>
  /\ active' = active \/ (active \in Inputs /\ pc[active] = "settling" /\ active' = None)
  /\ \A r \in Inputs :
       \/ pc'[r] = pc[r]
       \/ pc[r] \in LivePhases \ BoundaryPhases /\ pc'[r] \in LivePhases
       \/ pc[r] \notin LivePhases /\ pc'[r] \notin LivePhases
  /\ Dequeues \/ Enqueues
  /\ \/ UNCHANGED <<transcript, copies>>
     \/ transcript' = {} /\ copies' = [i \in Inputs |-> 0]

\* Saving a stale copy of a row takes that row out of the queue.
LEMMA SettlementDequeues ==
  ASSUME TypeOK, TerminalKnown, NEW r \in Inputs, OpenSettlement(r) \/ SettleNext(r)
  PROVE  Dequeues
<1>1. PICK listed \in SUBSET (Inputs \X SUBSET Inputs) : SettleFirst(r, listed)
  <2>1. Copies(Unsettled(r)) \in SUBSET (Inputs \X SUBSET Inputs)
    BY DEF Copies, Unsettled, Listed, TypeOK, RowTypes
  <2> QED BY <2>1 DEF OpenSettlement, SettleNext, TypeOK, RunTypes
<1>2. UNCHANGED rank /\ terminal[r] # "none"
  BY DEF OpenSettlement, SettleNext, TerminalKnown
<1>3. CASE UNCHANGED <<state, wire>>
  BY <1>2, <1>3 DEF Dequeues
<1>4. ASSUME NEW row \in listed, Save(row[1], terminal[r]),
             wire' = [wire EXCEPT ![row[1]] = row[2]]
      PROVE  Dequeues
  <2>1. row[1] \in Inputs /\ terminal[r] # "pending"
    BY <1>2, <1>4 DEF TypeOK, RunTypes, Outcomes
  <2> QED BY <1>2, <1>4, <2>1 DEF Dequeues, Save, TypeOK, RowTypes
<1> QED BY <1>1, <1>3, <1>4 DEF SettleFirst, FirstCopies

\* Recovery reconciles rows to outcomes: it puts none into the queue.
LEMMA RecoveryDequeues ==
  ASSUME TypeOK, PumpActivate \/ PumpRefused
  PROVE  Dequeues
<1>1. Reconciled \in [Inputs -> InputStates]
  BY DEF Reconciled, Inherited, TypeOK, RowTypes, InputStates
<1>2. \A i \in Inputs : Reconciled[i] = "pending" => state[i] = "pending"
  BY DEF Reconciled, Inherited
<1>3. UNCHANGED <<rank, wire>>
  BY DEF PumpActivate, PumpRefused
<1>4. state' = Reconciled \/ \E next \in Inputs : state' = [Reconciled EXCEPT ![next] = "failed"]
  BY DEF PumpActivate, PumpRefused, Earliest, Wakeable
<1> QED BY <1>1, <1>2, <1>3, <1>4 DEF Dequeues

\* Every step is of one of these kinds.
LEMMA StepKinds ==
  ASSUME TypeOK, TerminalKnown, OneLiveRun, [Next]_vars
  PROVE  Keeps \/ Clears \/ \E r \in Inputs : Moves(r)
<1>1. ASSUME NEW i \in Inputs, AcceptTurn(i) PROVE Clears
  BY <1>1, KindAssumption DEF AcceptTurn, StartTurn, Clears, Dequeues, Starts, TypeOK, RowTypes
<1>2. ASSUME NEW i \in Inputs, AcceptSupplement(i) PROVE Keeps
  BY <1>2 DEF AcceptSupplement, AcceptsSupplement, TypeOK, MapTypes, Keeps, Dequeues, Enqueues
<1>3. ASSUME NEW i \in Inputs, AcceptDeferred(i) PROVE Keeps
  BY <1>3 DEF AcceptDeferred, Keeps, Dequeues, Enqueues
<1>4. ASSUME NEW i \in Inputs, AcceptHostInput(i) PROVE Keeps
  BY <1>4 DEF AcceptHostInput, Keeps, Dequeues, Enqueues
<1>5. ASSUME NEW i \in Inputs, WithdrawHostInput(i) PROVE Keeps
  BY <1>5 DEF WithdrawHostInput, Save, TypeOK, RowTypes, Keeps, Dequeues, Enqueues
<1>6. ASSUME NEW i \in Inputs, Lease(i) PROVE Keeps
  BY <1>6
     DEF Lease, TypeOK, RowTypes, RunTypes, Keeps, Dequeues, Enqueues, LivePhases,
         LeasedPhases, BoundaryPhases
<1>7. ASSUME NEW i \in Inputs, Observe(i) PROVE Keeps
  BY <1>7
     DEF Observe, Acknowledge, TypeOK, RowTypes, RunTypes, Keeps, Dequeues, Enqueues,
         LivePhases, LeasedPhases, BoundaryPhases
<1>8. ASSUME NEW i \in Inputs, ModelTurn(i) PROVE Keeps
  BY <1>8
     DEF ModelTurn, TypeOK, RowTypes, RunTypes, Keeps, Dequeues, Enqueues, LivePhases,
         LeasedPhases, BoundaryPhases
<1>9. ASSUME NEW i \in Inputs, Return(i) PROVE Keeps
  BY <1>9
     DEF Return, TypeOK, RowTypes, RunTypes, Keeps, Dequeues, Enqueues, LivePhases,
         LeasedPhases, BoundaryPhases
<1>10. ASSUME NEW i \in Inputs, OpenBoundary(i) PROVE \E r \in Inputs : Moves(r)
  BY <1>10 DEF OpenBoundary, Moves
<1>11. ASSUME NEW i \in Inputs, CloseBoundary(i) PROVE \E r \in Inputs : Moves(r)
  BY <1>11 DEF CloseBoundary, Moves
<1>12. ASSUME NEW i \in Inputs, RejectCaptured(i) PROVE \E r \in Inputs : Moves(r)
  BY <1>12 DEF RejectCaptured, Moves
<1>13. ASSUME NEW i \in Inputs, CommitInput(i) PROVE \E r \in Inputs : Moves(r)
  BY <1>13 DEF CommitInput, Moves
<1>14. ASSUME NEW i \in Inputs, RunCompletes(i) PROVE Clears
  BY <1>14 DEF RunCompletes, CommitTerminal, Clears, Dequeues, Starts, TypeOK, RowTypes
<1>15. ASSUME NEW i \in Inputs, RunCancelled(i) PROVE Clears
  BY <1>15 DEF RunCancelled, CommitTerminal, Clears, Dequeues, Starts, TypeOK, RowTypes
<1>16. ASSUME NEW i \in Inputs, RunFails(i) PROVE Clears
  BY <1>16 DEF RunFails, CommitTerminal, Clears, Dequeues, Starts, TypeOK, RowTypes
<1>17. ASSUME NEW i \in Inputs, CompletionRefused(i) PROVE Clears
  BY <1>17 DEF CompletionRefused, CommitTerminal, Clears, Dequeues, Starts, TypeOK, RowTypes
<1>18. ASSUME NEW i \in Inputs, CommitLost(i) PROVE Clears
  BY <1>18
     DEF CommitLost, OneLiveRun, RunTypes, Clears, Dequeues, Starts, TypeOK, RowTypes,
         LivePhases, LeasedPhases, BoundaryPhases
<1>19. ASSUME NEW i \in Inputs, OpenSettlement(i) PROVE Keeps
  BY <1>19, SettlementDequeues
     DEF OpenSettlement, TypeOK, RunTypes, Keeps, LivePhases, LeasedPhases, BoundaryPhases
<1>20. ASSUME NEW i \in Inputs, SettleNext(i) PROVE Keeps
  BY <1>20, SettlementDequeues
     DEF SettleNext, TypeOK, RunTypes, Keeps, LivePhases, LeasedPhases, BoundaryPhases
<1>21. ASSUME NEW i \in Inputs, Finalize(i) PROVE Keeps
  BY <1>21
     DEF Finalize, TypeOK, RunTypes, MapTypes, Keeps, Dequeues, Enqueues, LivePhases,
         LeasedPhases, BoundaryPhases
<1>22. ASSUME NEW i \in Inputs, FinishCancel(i) PROVE Keeps
  BY <1>22 DEF FinishCancel, Keeps, Dequeues, Enqueues
<1>23. CASE Resume
  BY <1>23 DEF Resume, PumpRest, Keeps, Dequeues, Enqueues
<1>24. CASE PumpInspect
  BY <1>24 DEF PumpInspect, PumpRest, Keeps, Dequeues, Enqueues
<1>25. CASE PumpStops
  BY <1>25 DEF PumpStops, PumpRest, Keeps, Dequeues, Enqueues
<1>26. ASSUME PumpActivate PROVE Keeps \/ Clears
  <2>1. CASE UNCHANGED <<snapshot, starts, active, pc, direct, pi>>
    BY <1>26, <2>1, RecoveryDequeues DEF PumpActivate, Keeps
  <2>2. ASSUME NEW next \in Inputs \ Quiet, StartTurn(next, FALSE) PROVE Clears
    <3>1. UNCHANGED model
      BY <1>26 DEF PumpActivate
    <3>2. Starts
      BY <2>2 DEF StartTurn, Starts, TypeOK, RowTypes
    <3> QED BY <1>26, <2>2, <3>1, <3>2, RecoveryDequeues DEF StartTurn, Clears
  <2> QED BY <1>26, <2>1, <2>2 DEF PumpActivate, Earliest, Wakeable
<1>27. CASE PumpRefused
  BY <1>27, RecoveryDequeues DEF PumpRefused, PumpRest, Keeps
<1>28. CASE PumpContinue
  BY <1>28 DEF PumpContinue, PumpRest, Save, TypeOK, RowTypes, Keeps, Dequeues, Enqueues
<1>29. CASE UserCancel
  BY <1>29 DEF UserCancel, Stop, Keeps, Dequeues, Enqueues
<1>30. CASE CancelTimeout
  BY <1>30 DEF CancelTimeout, Keeps, Dequeues, Enqueues
<1>31. CASE BeginShutdown
  BY <1>31 DEF BeginShutdown, Keeps, Dequeues, Enqueues
<1>32. CASE StopRuns
  BY <1>32 DEF StopRuns, Stop, Keeps, Dequeues, Enqueues
<1>33. ASSUME Crash PROVE Clears
  BY <1>33 DEF Crash, ForgetMemory, PumpRest, Clears, Dequeues, Starts, TypeOK, RowTypes
<1>34. CASE Restart
  BY <1>34 DEF Restart, Keeps, Dequeues, Enqueues
<1>35. CASE UNCHANGED vars
  BY <1>35 DEF vars, Keeps, Dequeues, Enqueues
<1> QED
  BY <1>1, <1>2, <1>3, <1>4, <1>5, <1>6, <1>7, <1>8, <1>9, <1>10, <1>11, <1>12, <1>13,
     <1>14, <1>15, <1>16, <1>17, <1>18, <1>19, <1>20, <1>21, <1>22, <1>23, <1>24, <1>25,
     <1>26, <1>27, <1>28, <1>29, <1>30, <1>31, <1>32, <1>33, <1>34, <1>35
  DEF Next, ClientStep, TurnStep, EndStep, PumpStep

-----------------------------------------------------------------------------
(***************************************************************************)
(* Snapshots and runs.  A snapshot is written when a turn starts, and the  *)
(* run in activeRuns has started and not settled: so what a snapshot says  *)
(* of a turn is what that turn did.                                        *)
(***************************************************************************)
Started == \A i \in Inputs : snapshot[i] # "none" => starts[i] = 1
ActiveRuns == active # None => pc[active] \notin {"none", "committed", "done"}
CompletedShown ==
  \A r \in Inputs : terminal[r] = "completed" => snapshot[r] = "completed" /\ active # r
SnapshotInv == RunningIsLive /\ Started /\ ActiveRuns /\ CompletedShown

\* The terminal commit of a live run shows its outcome and frees activeRuns.
LEMMA CommitShows ==
  ASSUME TypeOK, OneLiveRun, Unstarted, SnapshotInv, NEW r \in Inputs, pc[r] \in LivePhases,
         NEW o \in Outcomes, NEW kept \in BOOLEAN, CommitTerminal(r, o, kept),
         commitFailures' \in {commitFailures, commitFailures + 1}
  PROVE  SnapshotInv'
<1> USE DEF CommitTerminal, SnapshotInv, TypeOK, RowTypes, RunTypes, MapTypes
<1>1. RunningIsLive'
  BY DEF RunningIsLive, Outcomes, BudgetTypes
<1>2. Started'
  BY DEF Started, Unstarted, LivePhases, LeasedPhases, BoundaryPhases
<1>3. ActiveRuns' /\ CompletedShown'
  BY KindAssumption DEF ActiveRuns, CompletedShown
<1> QED BY <1>1, <1>2, <1>3

\* So does the start of a turn that has no snapshot yet.
LEMMA StartShows ==
  ASSUME TypeOK, OneLiveRun, Unstarted, SnapshotInv, NEW i \in Inputs, snapshot[i] = "none",
         NEW byClient \in BOOLEAN, StartTurn(i, byClient),
         UNCHANGED <<up, terminal, commitFailures>>
  PROVE  SnapshotInv'
<1> USE DEF StartTurn, SnapshotInv, TypeOK, RowTypes, RunTypes, MapTypes
<1>1. RunningIsLive' /\ ActiveRuns'
  BY DEF RunningIsLive, ActiveRuns, LivePhases
<1>2. Started'
  BY DEF Started, Unstarted
<1>3. CompletedShown'
  BY DEF CompletedShown
<1> QED BY <1>1, <1>2, <1>3

\* Snapshots keep step with the runs they describe, through lost commits,
\* stops and restarts.
LEMMA SnapshotStep ==
  ASSUME TypeOK, OneLiveRun, Unstarted, SnapshotInv, [Next]_vars
  PROVE  SnapshotInv'
<1>1. ASSUME NEW i \in Inputs, AcceptTurn(i) PROVE SnapshotInv'
  BY <1>1, StartShows DEF AcceptTurn, Fresh
<1>2. ASSUME NEW i \in Inputs, AcceptSupplement(i) PROVE SnapshotInv'
  BY <1>2
     DEF AcceptSupplement, Enqueue, AcceptsSupplement, SnapshotInv, RunningIsLive, Started,
         ActiveRuns, CompletedShown
<1>3. ASSUME NEW i \in Inputs, AcceptDeferred(i) PROVE SnapshotInv'
  BY <1>3
     DEF AcceptDeferred, Enqueue, SnapshotInv, RunningIsLive, Started, ActiveRuns,
         CompletedShown
<1>4. ASSUME NEW i \in Inputs, AcceptHostInput(i) PROVE SnapshotInv'
  BY <1>4
     DEF AcceptHostInput, Enqueue, SnapshotInv, RunningIsLive, Started, ActiveRuns,
         CompletedShown
<1>5. ASSUME NEW i \in Inputs, WithdrawHostInput(i) PROVE SnapshotInv'
  BY <1>5
     DEF WithdrawHostInput, Save, SnapshotInv, RunningIsLive, Started, ActiveRuns,
         CompletedShown
<1>6. ASSUME NEW i \in Inputs, Lease(i) PROVE SnapshotInv'
  BY <1>6
     DEF Lease, SnapshotInv, RunningIsLive, Started, ActiveRuns, CompletedShown, TypeOK,
         RowTypes, MapTypes, RunTypes, BudgetTypes, OneLiveRun, Unstarted, LivePhases,
         LeasedPhases, BoundaryPhases
<1>7. ASSUME NEW i \in Inputs, OpenBoundary(i) PROVE SnapshotInv'
  BY <1>7, NextPhases
     DEF OpenBoundary, Acknowledge, SnapshotInv, RunningIsLive, Started, ActiveRuns,
         CompletedShown, TypeOK, RowTypes, MapTypes, RunTypes, BudgetTypes, OneLiveRun,
         Unstarted, LivePhases, LeasedPhases, BoundaryPhases
<1>8. ASSUME NEW i \in Inputs, CloseBoundary(i) PROVE SnapshotInv'
  BY <1>8, NextPhases
     DEF CloseBoundary, SnapshotInv, RunningIsLive, Started, ActiveRuns, CompletedShown,
         TypeOK, RowTypes, MapTypes, RunTypes, BudgetTypes, OneLiveRun, Unstarted,
         LivePhases, LeasedPhases, BoundaryPhases
<1>9. ASSUME NEW i \in Inputs, RejectCaptured(i) PROVE SnapshotInv'
  BY <1>9, NextPhases
     DEF RejectCaptured, Save, SnapshotInv, RunningIsLive, Started, ActiveRuns,
         CompletedShown, TypeOK, RowTypes, MapTypes, RunTypes, BudgetTypes, OneLiveRun,
         Unstarted, LivePhases, LeasedPhases, BoundaryPhases
<1>10. ASSUME NEW i \in Inputs, CommitInput(i) PROVE SnapshotInv'
  BY <1>10
     DEF CommitInput, SnapshotInv, RunningIsLive, Started, ActiveRuns, CompletedShown,
         TypeOK, RowTypes, MapTypes, RunTypes, BudgetTypes, OneLiveRun, Unstarted,
         LivePhases, LeasedPhases, BoundaryPhases
<1>11. ASSUME NEW i \in Inputs, Observe(i) PROVE SnapshotInv'
  BY <1>11
     DEF Observe, Acknowledge, SnapshotInv, RunningIsLive, Started, ActiveRuns,
         CompletedShown, TypeOK, RowTypes, MapTypes, RunTypes, BudgetTypes, OneLiveRun,
         Unstarted, LivePhases, LeasedPhases, BoundaryPhases
<1>12. ASSUME NEW i \in Inputs, ModelTurn(i) PROVE SnapshotInv'
  BY <1>12
     DEF ModelTurn, SnapshotInv, RunningIsLive, Started, ActiveRuns, CompletedShown, TypeOK,
         RowTypes, MapTypes, RunTypes, BudgetTypes, OneLiveRun, Unstarted, LivePhases,
         LeasedPhases, BoundaryPhases
<1>13. ASSUME NEW i \in Inputs, Return(i) PROVE SnapshotInv'
  BY <1>13
     DEF Return, SnapshotInv, RunningIsLive, Started, ActiveRuns, CompletedShown, TypeOK,
         RowTypes, MapTypes, RunTypes, BudgetTypes, OneLiveRun, Unstarted, LivePhases,
         LeasedPhases, BoundaryPhases
<1>14. ASSUME NEW i \in Inputs, RunCompletes(i) PROVE SnapshotInv'
  BY <1>14, CommitShows DEF RunCompletes, LivePhases, Outcomes
<1>15. ASSUME NEW i \in Inputs, RunCancelled(i) PROVE SnapshotInv'
  BY <1>15, CommitShows DEF RunCancelled, AbortablePhases, LivePhases, Outcomes
<1>16. ASSUME NEW i \in Inputs, RunFails(i) PROVE SnapshotInv'
  BY <1>16, CommitShows DEF RunFails, Outcomes
<1>17. ASSUME NEW i \in Inputs, CompletionRefused(i) PROVE SnapshotInv'
  BY <1>17, CommitShows DEF CompletionRefused, LivePhases, Outcomes
<1>18. ASSUME NEW i \in Inputs, CommitLost(i) PROVE SnapshotInv'
  BY <1>18
     DEF CommitLost, SnapshotInv, RunningIsLive, Started, ActiveRuns, CompletedShown, TypeOK,
         RowTypes, MapTypes, RunTypes, BudgetTypes, OneLiveRun, Unstarted, LivePhases,
         LeasedPhases, BoundaryPhases
<1>19. ASSUME NEW i \in Inputs, OpenSettlement(i) PROVE SnapshotInv'
  BY <1>19
     DEF OpenSettlement, SnapshotInv, RunningIsLive, Started, ActiveRuns, CompletedShown,
         TypeOK, RowTypes, MapTypes, RunTypes, BudgetTypes, OneLiveRun, Unstarted,
         LivePhases, LeasedPhases, BoundaryPhases
<1>20. ASSUME NEW i \in Inputs, SettleNext(i) PROVE SnapshotInv'
  BY <1>20
     DEF SettleNext, SnapshotInv, RunningIsLive, Started, ActiveRuns, CompletedShown, TypeOK,
         RowTypes, MapTypes, RunTypes, BudgetTypes, OneLiveRun, Unstarted, LivePhases,
         LeasedPhases, BoundaryPhases
<1>21. ASSUME NEW i \in Inputs, Finalize(i) PROVE SnapshotInv'
  <2> USE DEF SnapshotInv, TypeOK, RowTypes, RunTypes, MapTypes
  <2>1. RunningIsLive'
    BY <1>21 DEF Finalize, RunningIsLive, LivePhases, LeasedPhases, BoundaryPhases
  <2>2. Started'
    BY <1>21 DEF Finalize, Started, Unstarted
  <2>3. ActiveRuns' /\ CompletedShown'
    BY <1>21, KindAssumption DEF Finalize, ActiveRuns, CompletedShown, RunningIsLive
  <2> QED BY <2>1, <2>2, <2>3
<1>22. ASSUME NEW i \in Inputs, FinishCancel(i) PROVE SnapshotInv'
  BY <1>22 DEF FinishCancel, SnapshotInv, RunningIsLive, Started, ActiveRuns, CompletedShown
<1>23. CASE Resume
  BY <1>23 DEF Resume, SnapshotInv, RunningIsLive, Started, ActiveRuns, CompletedShown
<1>24. CASE PumpInspect
  BY <1>24
     DEF PumpInspect, PumpRest, SnapshotInv, RunningIsLive, Started, ActiveRuns,
         CompletedShown
<1>25. CASE PumpActivate
  <2>1. UNCHANGED <<up, terminal, commitFailures>>
    BY <1>25 DEF PumpActivate
  <2>2. CASE UNCHANGED <<snapshot, starts, active, pc>>
    BY <2>1, <2>2 DEF SnapshotInv, RunningIsLive, Started, ActiveRuns, CompletedShown
  <2>3. ASSUME NEW next \in Inputs, ~Replays(next), StartTurn(next, FALSE) PROVE SnapshotInv'
    BY <2>1, <2>3, StartShows DEF Replays
  <2> QED BY <1>25, <2>2, <2>3 DEF PumpActivate, Earliest, Wakeable
<1>26. CASE PumpStops
  BY <1>26
     DEF PumpStops, PumpRest, SnapshotInv, RunningIsLive, Started, ActiveRuns, CompletedShown
<1>27. CASE PumpRefused
  BY <1>27
     DEF PumpRefused, PumpRest, SnapshotInv, RunningIsLive, Started, ActiveRuns,
         CompletedShown
<1>28. CASE PumpContinue
  BY <1>28
     DEF PumpContinue, PumpRest, SnapshotInv, RunningIsLive, Started, ActiveRuns,
         CompletedShown
<1>29. CASE UserCancel
  BY <1>29
     DEF UserCancel, Stop, SnapshotInv, RunningIsLive, Started, ActiveRuns, CompletedShown,
         TypeOK, RowTypes, MapTypes, RunTypes, BudgetTypes, OneLiveRun, Unstarted
<1>30. CASE CancelTimeout
  BY <1>30 DEF CancelTimeout, SnapshotInv, RunningIsLive, Started, ActiveRuns, CompletedShown
<1>31. CASE BeginShutdown
  BY <1>31 DEF BeginShutdown, SnapshotInv, RunningIsLive, Started, ActiveRuns, CompletedShown
<1>32. CASE StopRuns
  BY <1>32
     DEF StopRuns, Stop, SnapshotInv, RunningIsLive, Started, ActiveRuns, CompletedShown,
         TypeOK, RowTypes, MapTypes, RunTypes, BudgetTypes, OneLiveRun, Unstarted
<1>33. CASE Crash
  BY <1>33
     DEF Crash, ForgetMemory, PumpRest, SnapshotInv, RunningIsLive, Started, ActiveRuns,
         CompletedShown, TypeOK, RowTypes, MapTypes, RunTypes, BudgetTypes, OneLiveRun,
         Unstarted, LivePhases, LeasedPhases, BoundaryPhases
<1>34. CASE Restart
  BY <1>34
     DEF Restart, SnapshotInv, RunningIsLive, Started, ActiveRuns, CompletedShown, TypeOK,
         RowTypes, MapTypes, RunTypes, BudgetTypes, OneLiveRun, Unstarted, ReconciledSnapshot
<1>35. CASE UNCHANGED vars
  BY <1>35 DEF vars, SnapshotInv, RunningIsLive, Started, ActiveRuns, CompletedShown
<1> QED
  BY <1>1, <1>2, <1>3, <1>4, <1>5, <1>6, <1>7, <1>8, <1>9, <1>10, <1>11, <1>12, <1>13,
     <1>14, <1>15, <1>16, <1>17, <1>18, <1>19, <1>20, <1>21, <1>22, <1>23, <1>24, <1>25,
     <1>26, <1>27, <1>28, <1>29, <1>30, <1>31, <1>32, <1>33, <1>34, <1>35
  DEF Next, ClientStep, TurnStep, EndStep, PumpStep

\* The invariant about snapshots and runs, in every state.
LEMMA SnapshotInvAlways == Spec => []SnapshotInv
<1>1. Init => SnapshotInv
  BY DEF Init, SnapshotInv, RunningIsLive, Started, ActiveRuns, CompletedShown
<1>2. TypeOK /\ OneLiveRun /\ Unstarted /\ SnapshotInv /\ [Next]_vars => SnapshotInv'
  BY SnapshotStep
<1> QED
  BY <1>1, <1>2, TypeCorrect, SingleExecution, StartsOnce, PTL DEF Spec

\* A snapshot says running only for a run of this process that is live, or one
\* none of whose terminal commits was accepted: however often runs are
\* stopped, commits refused and the process restarted.
THEOREM RunningMeansLive == Spec => []RunningIsLive
BY SnapshotInvAlways, PTL DEF SnapshotInv

-----------------------------------------------------------------------------
(***************************************************************************)
(* Stops.  A run is aborted by a user or by the shutdown, and only an      *)
(* aborted run ends as cancelled.                                          *)
(***************************************************************************)
AbortCause == \A r \in aborted : r \in cancel \/ stopping
DoneClean == \A r \in Inputs : pc[r] = "done" => r \notin aborted
CancelledCause == \A r \in Inputs : terminal[r] = "cancelled" => r \in aborted
StopInv == AbortCause /\ DoneClean /\ CancelledCause

\* Every step keeps the cause of an abort until the aborted run is done.
LEMMA StopStep ==
  ASSUME TypeOK, ActiveRuns, StopInv, [Next]_vars
  PROVE  StopInv'
<1>1. ASSUME NEW i \in Inputs, AcceptTurn(i) PROVE StopInv'
  BY <1>1
     DEF AcceptTurn, StartTurn, StopInv, AbortCause, DoneClean, CancelledCause, TypeOK,
         MapTypes, RunTypes
<1>2. ASSUME NEW i \in Inputs, AcceptSupplement(i) PROVE StopInv'
  BY <1>2
     DEF AcceptSupplement, Enqueue, AcceptsSupplement, StopInv, AbortCause, DoneClean,
         CancelledCause
<1>3. ASSUME NEW i \in Inputs, AcceptDeferred(i) PROVE StopInv'
  BY <1>3 DEF AcceptDeferred, Enqueue, StopInv, AbortCause, DoneClean, CancelledCause
<1>4. ASSUME NEW i \in Inputs, AcceptHostInput(i) PROVE StopInv'
  BY <1>4 DEF AcceptHostInput, Enqueue, StopInv, AbortCause, DoneClean, CancelledCause
<1>5. ASSUME NEW i \in Inputs, WithdrawHostInput(i) PROVE StopInv'
  BY <1>5 DEF WithdrawHostInput, Save, StopInv, AbortCause, DoneClean, CancelledCause
<1>6. ASSUME NEW i \in Inputs, Lease(i) PROVE StopInv'
  BY <1>6
     DEF Lease, StopInv, AbortCause, DoneClean, CancelledCause, TypeOK, MapTypes, RunTypes,
         LivePhases, LeasedPhases, BoundaryPhases
<1>7. ASSUME NEW i \in Inputs, OpenBoundary(i) PROVE StopInv'
  BY <1>7, NextPhases
     DEF OpenBoundary, Acknowledge, StopInv, AbortCause, DoneClean, CancelledCause, TypeOK,
         MapTypes, RunTypes, LivePhases, LeasedPhases, BoundaryPhases
<1>8. ASSUME NEW i \in Inputs, CloseBoundary(i) PROVE StopInv'
  BY <1>8, NextPhases
     DEF CloseBoundary, StopInv, AbortCause, DoneClean, CancelledCause, TypeOK, MapTypes,
         RunTypes, LivePhases, LeasedPhases, BoundaryPhases
<1>9. ASSUME NEW i \in Inputs, RejectCaptured(i) PROVE StopInv'
  BY <1>9, NextPhases
     DEF RejectCaptured, Save, StopInv, AbortCause, DoneClean, CancelledCause, TypeOK,
         MapTypes, RunTypes, LivePhases, LeasedPhases, BoundaryPhases
<1>10. ASSUME NEW i \in Inputs, CommitInput(i) PROVE StopInv'
  BY <1>10
     DEF CommitInput, StopInv, AbortCause, DoneClean, CancelledCause, TypeOK, MapTypes,
         RunTypes, LivePhases, LeasedPhases, BoundaryPhases
<1>11. ASSUME NEW i \in Inputs, Observe(i) PROVE StopInv'
  BY <1>11
     DEF Observe, Acknowledge, StopInv, AbortCause, DoneClean, CancelledCause, TypeOK,
         MapTypes, RunTypes, LivePhases, LeasedPhases, BoundaryPhases
<1>12. ASSUME NEW i \in Inputs, ModelTurn(i) PROVE StopInv'
  BY <1>12
     DEF ModelTurn, StopInv, AbortCause, DoneClean, CancelledCause, TypeOK, MapTypes,
         RunTypes, LivePhases, LeasedPhases, BoundaryPhases
<1>13. ASSUME NEW i \in Inputs, Return(i) PROVE StopInv'
  BY <1>13
     DEF Return, StopInv, AbortCause, DoneClean, CancelledCause, TypeOK, MapTypes, RunTypes,
         LivePhases, LeasedPhases, BoundaryPhases
<1>14. ASSUME NEW i \in Inputs, RunCompletes(i) PROVE StopInv'
  BY <1>14
     DEF RunCompletes, CommitTerminal, StopInv, AbortCause, DoneClean, CancelledCause,
         TypeOK, MapTypes, RunTypes, LivePhases, LeasedPhases, BoundaryPhases
<1>15. ASSUME NEW i \in Inputs, RunCancelled(i) PROVE StopInv'
  BY <1>15
     DEF RunCancelled, CommitTerminal, AbortablePhases, StopInv, AbortCause, DoneClean,
         CancelledCause, TypeOK, MapTypes, RunTypes, LivePhases, LeasedPhases, BoundaryPhases
<1>16. ASSUME NEW i \in Inputs, RunFails(i) PROVE StopInv'
  BY <1>16
     DEF RunFails, CommitTerminal, StopInv, AbortCause, DoneClean, CancelledCause, TypeOK,
         MapTypes, RunTypes, LivePhases, LeasedPhases, BoundaryPhases
<1>17. ASSUME NEW i \in Inputs, CompletionRefused(i) PROVE StopInv'
  BY <1>17
     DEF CompletionRefused, CommitTerminal, StopInv, AbortCause, DoneClean, CancelledCause,
         TypeOK, MapTypes, RunTypes, LivePhases, LeasedPhases, BoundaryPhases
<1>18. ASSUME NEW i \in Inputs, CommitLost(i) PROVE StopInv'
  BY <1>18
     DEF CommitLost, StopInv, AbortCause, DoneClean, CancelledCause, TypeOK, MapTypes,
         RunTypes, LivePhases, LeasedPhases, BoundaryPhases
<1>19. ASSUME NEW i \in Inputs, OpenSettlement(i) PROVE StopInv'
  BY <1>19
     DEF OpenSettlement, StopInv, AbortCause, DoneClean, CancelledCause, TypeOK, MapTypes,
         RunTypes, LivePhases, LeasedPhases, BoundaryPhases
<1>20. ASSUME NEW i \in Inputs, SettleNext(i) PROVE StopInv'
  BY <1>20 DEF SettleNext, StopInv, AbortCause, DoneClean, CancelledCause
<1>21. ASSUME NEW i \in Inputs, Finalize(i) PROVE StopInv'
  BY <1>21
     DEF Finalize, StopInv, AbortCause, DoneClean, CancelledCause, TypeOK, MapTypes,
         RunTypes, LivePhases, LeasedPhases, BoundaryPhases
<1>22. ASSUME NEW i \in Inputs, FinishCancel(i) PROVE StopInv'
  BY <1>22
     DEF FinishCancel, StopInv, AbortCause, DoneClean, CancelledCause, TypeOK, MapTypes,
         RunTypes
<1>23. CASE Resume
  BY <1>23 DEF Resume, StopInv, AbortCause, DoneClean, CancelledCause
<1>24. CASE PumpInspect
  BY <1>24 DEF PumpInspect, PumpRest, StopInv, AbortCause, DoneClean, CancelledCause
<1>25. CASE PumpActivate
  BY <1>25
     DEF PumpActivate, PumpRest, StartTurn, StopInv, AbortCause, DoneClean, CancelledCause,
         TypeOK, MapTypes, RunTypes, Earliest, Wakeable
<1>26. CASE PumpStops
  BY <1>26 DEF PumpStops, PumpRest, StopInv, AbortCause, DoneClean, CancelledCause
<1>27. CASE PumpRefused
  BY <1>27 DEF PumpRefused, PumpRest, StopInv, AbortCause, DoneClean, CancelledCause
<1>28. CASE PumpContinue
  BY <1>28 DEF PumpContinue, PumpRest, StopInv, AbortCause, DoneClean, CancelledCause
<1>29. CASE UserCancel
  BY <1>29
     DEF UserCancel, Stop, StopInv, AbortCause, DoneClean, CancelledCause, TypeOK, MapTypes,
         RunTypes, ActiveRuns
<1>30. CASE CancelTimeout
  BY <1>30 DEF CancelTimeout, StopInv, AbortCause, DoneClean, CancelledCause
<1>31. CASE BeginShutdown
  BY <1>31 DEF BeginShutdown, StopInv, AbortCause, DoneClean, CancelledCause
<1>32. CASE StopRuns
  BY <1>32
     DEF StopRuns, Stop, StopInv, AbortCause, DoneClean, CancelledCause, TypeOK, MapTypes,
         RunTypes, ActiveRuns
<1>33. CASE Crash
  BY <1>33
     DEF Crash, ForgetMemory, PumpRest, StopInv, AbortCause, DoneClean, CancelledCause,
         TypeOK, MapTypes, RunTypes
<1>34. CASE Restart
  BY <1>34 DEF Restart, StopInv, AbortCause, DoneClean, CancelledCause
<1>35. CASE UNCHANGED vars
  BY <1>35 DEF vars, StopInv, AbortCause, DoneClean, CancelledCause
<1> QED
  BY <1>1, <1>2, <1>3, <1>4, <1>5, <1>6, <1>7, <1>8, <1>9, <1>10, <1>11, <1>12, <1>13,
     <1>14, <1>15, <1>16, <1>17, <1>18, <1>19, <1>20, <1>21, <1>22, <1>23, <1>24, <1>25,
     <1>26, <1>27, <1>28, <1>29, <1>30, <1>31, <1>32, <1>33, <1>34, <1>35
  DEF Next, ClientStep, TurnStep, EndStep, PumpStep

\* What a settling run holds is consumed, or a user stopped that run.
SettlesCause == \A r \in Inputs : \A row \in settles[r] : row[1] \in consumed \/ r \in cancel

\* A settling run lists only inputs whose end has that cause, and saves one.
LEMMA SettlesWithCause ==
  ASSUME TypeOK, HonestReceipts, StopInv, SettlesCause, NEW r \in Inputs,
         OpenSettlement(r) \/ SettleNext(r)
  PROVE  \E listed \in SUBSET (Inputs \X SUBSET Inputs) :
           SettleFirst(r, listed) /\ \A row \in listed : row[1] \in consumed \/ r \in cancel
<1>1. CASE OpenSettlement(r)
  <2>1. Copies(Unsettled(r)) \in SUBSET (Inputs \X SUBSET Inputs)
    BY DEF Copies, Unsettled, Listed, TypeOK, RowTypes
  <2>2. \A row \in Copies(Unsettled(r)) : row[1] \in consumed \/ r \in cancel
    BY DEF Copies, Unsettled, Listed, HonestReceipts, StopInv, AbortCause, CancelledCause
  <2> QED BY <1>1, <2>1, <2>2 DEF OpenSettlement
<1>2. CASE SettleNext(r)
  BY <1>2 DEF SettleNext, SettlesCause, TypeOK, RunTypes
<1> QED BY <1>1, <1>2

\* The cause stays known until the run has settled.
LEMMA SettlesCauseStep ==
  ASSUME TypeOK, HonestReceipts, SettlesOnlySettling, StopInv, SettlesCause, [Next]_vars
  PROVE  SettlesCause'
<1>1. ASSUME NEW i \in Inputs, AcceptTurn(i) PROVE SettlesCause'
  BY <1>1 DEF AcceptTurn, StartTurn, SettlesCause
<1>2. ASSUME NEW i \in Inputs, AcceptSupplement(i) PROVE SettlesCause'
  BY <1>2 DEF AcceptSupplement, Enqueue, AcceptsSupplement, SettlesCause
<1>3. ASSUME NEW i \in Inputs, AcceptDeferred(i) PROVE SettlesCause'
  BY <1>3 DEF AcceptDeferred, Enqueue, SettlesCause
<1>4. ASSUME NEW i \in Inputs, AcceptHostInput(i) PROVE SettlesCause'
  BY <1>4 DEF AcceptHostInput, Enqueue, SettlesCause
<1>5. ASSUME NEW i \in Inputs, WithdrawHostInput(i) PROVE SettlesCause'
  BY <1>5 DEF WithdrawHostInput, Save, SettlesCause
<1>6. ASSUME NEW i \in Inputs, Lease(i) PROVE SettlesCause'
  BY <1>6 DEF Lease, SettlesCause
<1>7. ASSUME NEW i \in Inputs, OpenBoundary(i) PROVE SettlesCause'
  BY <1>7 DEF OpenBoundary, Acknowledge, SettlesCause
<1>8. ASSUME NEW i \in Inputs, CloseBoundary(i) PROVE SettlesCause'
  BY <1>8 DEF CloseBoundary, SettlesCause
<1>9. ASSUME NEW i \in Inputs, RejectCaptured(i) PROVE SettlesCause'
  BY <1>9 DEF RejectCaptured, Save, SettlesCause
<1>10. ASSUME NEW i \in Inputs, CommitInput(i) PROVE SettlesCause'
  BY <1>10
     DEF CommitInput, SettlesCause, SettlesOnlySettling, TypeOK, RunTypes, ModelTypes,
         LivePhases, LeasedPhases, BoundaryPhases
<1>11. ASSUME NEW i \in Inputs, Observe(i) PROVE SettlesCause'
  BY <1>11 DEF Observe, Acknowledge, SettlesCause
<1>12. ASSUME NEW i \in Inputs, ModelTurn(i) PROVE SettlesCause'
  BY <1>12 DEF ModelTurn, SettlesCause
<1>13. ASSUME NEW i \in Inputs, Return(i) PROVE SettlesCause'
  BY <1>13 DEF Return, SettlesCause
<1>14. ASSUME NEW i \in Inputs, RunCompletes(i) PROVE SettlesCause'
  BY <1>14 DEF RunCompletes, CommitTerminal, SettlesCause
<1>15. ASSUME NEW i \in Inputs, RunCancelled(i) PROVE SettlesCause'
  BY <1>15 DEF RunCancelled, CommitTerminal, AbortablePhases, SettlesCause
<1>16. ASSUME NEW i \in Inputs, RunFails(i) PROVE SettlesCause'
  BY <1>16 DEF RunFails, CommitTerminal, SettlesCause
<1>17. ASSUME NEW i \in Inputs, CompletionRefused(i) PROVE SettlesCause'
  BY <1>17 DEF CompletionRefused, CommitTerminal, SettlesCause
<1>18. ASSUME NEW i \in Inputs, CommitLost(i) PROVE SettlesCause'
  BY <1>18 DEF CommitLost, SettlesCause
<1>19. ASSUME NEW i \in Inputs, OpenSettlement(i) PROVE SettlesCause'
  <2>1. PICK listed \in SUBSET (Inputs \X SUBSET Inputs) :
          SettleFirst(i, listed) /\ \A row \in listed : row[1] \in consumed \/ i \in cancel
    BY <1>19, SettlesWithCause
  <2>2. UNCHANGED <<consumed, cancel>>
    BY <1>19 DEF OpenSettlement
  <2> QED BY <2>1, <2>2 DEF SettleFirst, SettlesCause, TypeOK, RunTypes
<1>20. ASSUME NEW i \in Inputs, SettleNext(i) PROVE SettlesCause'
  <2>1. PICK listed \in SUBSET (Inputs \X SUBSET Inputs) :
          SettleFirst(i, listed) /\ \A row \in listed : row[1] \in consumed \/ i \in cancel
    BY <1>20, SettlesWithCause
  <2>2. UNCHANGED <<consumed, cancel>>
    BY <1>20 DEF SettleNext
  <2> QED BY <2>1, <2>2 DEF SettleFirst, SettlesCause, TypeOK, RunTypes
<1>21. ASSUME NEW i \in Inputs, Finalize(i) PROVE SettlesCause'
  BY <1>21 DEF Finalize, SettlesCause
<1>22. ASSUME NEW i \in Inputs, FinishCancel(i) PROVE SettlesCause'
  BY <1>22 DEF FinishCancel, SettlesCause, SettlesOnlySettling, TypeOK, RunTypes, ModelTypes
<1>23. CASE Resume
  BY <1>23 DEF Resume, SettlesCause
<1>24. CASE PumpInspect
  BY <1>24 DEF PumpInspect, PumpRest, SettlesCause
<1>25. CASE PumpActivate
  BY <1>25 DEF PumpActivate, PumpRest, StartTurn, SettlesCause
<1>26. CASE PumpStops
  BY <1>26 DEF PumpStops, PumpRest, SettlesCause
<1>27. CASE PumpRefused
  BY <1>27 DEF PumpRefused, PumpRest, SettlesCause
<1>28. CASE PumpContinue
  BY <1>28 DEF PumpContinue, PumpRest, SettlesCause
<1>29. CASE UserCancel
  BY <1>29 DEF UserCancel, Stop, SettlesCause, SettlesOnlySettling, TypeOK, RunTypes, ModelTypes
<1>30. CASE CancelTimeout
  BY <1>30 DEF CancelTimeout, SettlesCause
<1>31. CASE BeginShutdown
  BY <1>31 DEF BeginShutdown, SettlesCause
<1>32. CASE StopRuns
  BY <1>32 DEF StopRuns, Stop, SettlesCause
<1>33. CASE Crash
  BY <1>33
     DEF Crash, ForgetMemory, PumpRest, SettlesCause, SettlesOnlySettling, TypeOK, RunTypes,
         ModelTypes
<1>34. CASE Restart
  BY <1>34 DEF Restart, SettlesCause
<1>35. CASE UNCHANGED vars
  BY <1>35 DEF vars, SettlesCause
<1> QED
  BY <1>1, <1>2, <1>3, <1>4, <1>5, <1>6, <1>7, <1>8, <1>9, <1>10, <1>11, <1>12, <1>13,
     <1>14, <1>15, <1>16, <1>17, <1>18, <1>19, <1>20, <1>21, <1>22, <1>23, <1>24, <1>25,
     <1>26, <1>27, <1>28, <1>29, <1>30, <1>31, <1>32, <1>33, <1>34, <1>35
  DEF Next, ClientStep, TurnStep, EndStep, PumpStep

-----------------------------------------------------------------------------
(***************************************************************************)
(* Outcomes of inputs.  Settlement writes the outcome of the run that read *)
(* a row, recovery the one of the row's parent, so a row in the queue has  *)
(* a parent.                                                               *)
(***************************************************************************)
HasParent == \A i \in Inputs : state[i] # "absent" => parent[i] \in Inputs
ReadHasParent == \A i \in pumpRead \cup capture : parent[i] \in Inputs
Parents == HasParent /\ ReadHasParent

\* A settling run saves one of the rows it listed.
LEMMA SettlesListed ==
  ASSUME TypeOK, NEW r \in Inputs, OpenSettlement(r) \/ SettleNext(r)
  PROVE  \E listed \in SUBSET (Inputs \X SUBSET Inputs) : SettleFirst(r, listed)
<1>1. Copies(Unsettled(r)) \in SUBSET (Inputs \X SUBSET Inputs)
  BY DEF Copies, Unsettled, Listed, TypeOK, RowTypes
<1> QED BY <1>1 DEF OpenSettlement, SettleNext, TypeOK, RunTypes

\* Recovery settles rows that have a parent.
LEMMA ReconciledHasParent ==
  ASSUME TypeOK, Parents, NEW i \in Inputs, Reconciled[i] # "absent"
  PROVE  parent[i] \in Inputs
BY DEF Reconciled, Parents, HasParent, ReadHasParent

\* A row is given a parent when it enters the queue, and keeps one.
LEMMA ParentsStep ==
  ASSUME TypeOK, Parents, [Next]_vars
  PROVE  Parents'
<1>1. ASSUME NEW i \in Inputs, AcceptTurn(i) PROVE Parents'
  BY <1>1 DEF AcceptTurn, StartTurn, Parents, HasParent, ReadHasParent
<1>2. ASSUME NEW i \in Inputs, AcceptSupplement(i) PROVE Parents'
  BY <1>2
     DEF AcceptSupplement, Enqueue, AcceptsSupplement, Parents, HasParent, ReadHasParent,
         TypeOK, RowTypes, MapTypes, PumpTypes, PiTypes
<1>3. ASSUME NEW i \in Inputs, AcceptDeferred(i) PROVE Parents'
  BY <1>3
     DEF AcceptDeferred, Enqueue, Parents, HasParent, ReadHasParent, TypeOK, RowTypes,
         MapTypes, PumpTypes, PiTypes
<1>4. ASSUME NEW i \in Inputs, AcceptHostInput(i) PROVE Parents'
  BY <1>4
     DEF AcceptHostInput, Enqueue, Parents, HasParent, ReadHasParent, TypeOK, RowTypes,
         MapTypes, PumpTypes, PiTypes
<1>5. ASSUME NEW i \in Inputs, WithdrawHostInput(i) PROVE Parents'
  BY <1>5
     DEF WithdrawHostInput, Save, Parents, HasParent, ReadHasParent, TypeOK, RowTypes,
         MapTypes, PumpTypes, PiTypes
<1>6. ASSUME NEW i \in Inputs, Lease(i) PROVE Parents'
  BY <1>6 DEF Lease, Parents, HasParent, ReadHasParent
<1>7. ASSUME NEW i \in Inputs, OpenBoundary(i) PROVE Parents'
  BY <1>7, NextPhases
     DEF OpenBoundary, Acknowledge, Parents, HasParent, ReadHasParent, TypeOK, RowTypes,
         MapTypes, PumpTypes, PiTypes, LivePhases, LeasedPhases, BoundaryPhases, Receipts,
         Eligible
<1>8. ASSUME NEW i \in Inputs, CloseBoundary(i) PROVE Parents'
  BY <1>8, NextPhases
     DEF CloseBoundary, Parents, HasParent, ReadHasParent, TypeOK, RowTypes, MapTypes,
         PumpTypes, PiTypes, LivePhases, LeasedPhases, BoundaryPhases
<1>9. ASSUME NEW i \in Inputs, RejectCaptured(i) PROVE Parents'
  <2>1. PICK j \in capture : Save(j, "failed") /\ capture' = capture \ {j}
    BY <1>9 DEF RejectCaptured
  <2>2. UNCHANGED <<parent, pumpRead>>
    BY <1>9 DEF RejectCaptured
  <2>3. ASSUME NEW k \in Inputs, state'[k] # "absent" PROVE parent[k] \in Inputs
    <3>1. k = j \/ state'[k] = state[k]
      BY <2>1 DEF Save, TypeOK, RowTypes
    <3> QED BY <2>1, <2>3, <3>1 DEF Parents, HasParent, ReadHasParent
  <2>4. ReadHasParent'
    BY <2>1, <2>2 DEF Parents, ReadHasParent
  <2> QED BY <2>2, <2>3, <2>4 DEF Parents, HasParent
<1>10. ASSUME NEW i \in Inputs, CommitInput(i) PROVE Parents'
  BY <1>10 DEF CommitInput, Parents, HasParent, ReadHasParent
<1>11. ASSUME NEW i \in Inputs, Observe(i) PROVE Parents'
  BY <1>11
     DEF Observe, Acknowledge, Parents, HasParent, ReadHasParent, TypeOK, RowTypes, MapTypes,
         PumpTypes, PiTypes, LivePhases, LeasedPhases, BoundaryPhases, Receipts
<1>12. ASSUME NEW i \in Inputs, ModelTurn(i) PROVE Parents'
  BY <1>12 DEF ModelTurn, Parents, HasParent, ReadHasParent
<1>13. ASSUME NEW i \in Inputs, Return(i) PROVE Parents'
  BY <1>13 DEF Return, Parents, HasParent, ReadHasParent
<1>14. ASSUME NEW i \in Inputs, RunCompletes(i) PROVE Parents'
  BY <1>14 DEF RunCompletes, CommitTerminal, Parents, HasParent, ReadHasParent
<1>15. ASSUME NEW i \in Inputs, RunCancelled(i) PROVE Parents'
  BY <1>15 DEF RunCancelled, CommitTerminal, AbortablePhases, Parents, HasParent, ReadHasParent
<1>16. ASSUME NEW i \in Inputs, RunFails(i) PROVE Parents'
  BY <1>16 DEF RunFails, CommitTerminal, Parents, HasParent, ReadHasParent
<1>17. ASSUME NEW i \in Inputs, CompletionRefused(i) PROVE Parents'
  BY <1>17 DEF CompletionRefused, CommitTerminal, Parents, HasParent, ReadHasParent
<1>18. ASSUME NEW i \in Inputs, CommitLost(i) PROVE Parents'
  BY <1>18 DEF CommitLost, Parents, HasParent, ReadHasParent
<1>19. ASSUME NEW i \in Inputs, OpenSettlement(i) PROVE Parents'
  <2>1. PICK listed \in SUBSET (Inputs \X SUBSET Inputs) : SettleFirst(i, listed)
    BY <1>19, SettlesListed
  <2>2. UNCHANGED <<pumpRead, capture>>
    BY <1>19 DEF OpenSettlement
  <2>3. CASE UNCHANGED <<state, parent>>
    BY <2>2, <2>3 DEF Parents, HasParent, ReadHasParent
  <2>4. ASSUME NEW row \in listed, Save(row[1], terminal[i]), parent' = [parent EXCEPT ![row[1]] = i]
        PROVE  Parents'
    <3>1. row[1] \in Inputs
      BY <2>4
    <3> QED BY <2>2, <2>4, <3>1 DEF Save, Parents, HasParent, ReadHasParent, TypeOK, RowTypes
  <2> QED BY <2>1, <2>3, <2>4 DEF SettleFirst, FirstCopies
<1>20. ASSUME NEW i \in Inputs, SettleNext(i) PROVE Parents'
  <2>1. PICK listed \in SUBSET (Inputs \X SUBSET Inputs) : SettleFirst(i, listed)
    BY <1>20, SettlesListed
  <2>2. UNCHANGED <<pumpRead, capture>>
    BY <1>20 DEF SettleNext
  <2>3. CASE UNCHANGED <<state, parent>>
    BY <2>2, <2>3 DEF Parents, HasParent, ReadHasParent
  <2>4. ASSUME NEW row \in listed, Save(row[1], terminal[i]), parent' = [parent EXCEPT ![row[1]] = i]
        PROVE  Parents'
    <3>1. row[1] \in Inputs
      BY <2>4
    <3> QED BY <2>2, <2>4, <3>1 DEF Save, Parents, HasParent, ReadHasParent, TypeOK, RowTypes
  <2> QED BY <2>1, <2>3, <2>4 DEF SettleFirst, FirstCopies
<1>21. ASSUME NEW i \in Inputs, Finalize(i) PROVE Parents'
  BY <1>21 DEF Finalize, Parents, HasParent, ReadHasParent
<1>22. ASSUME NEW i \in Inputs, FinishCancel(i) PROVE Parents'
  BY <1>22 DEF FinishCancel, Parents, HasParent, ReadHasParent
<1>23. CASE Resume
  BY <1>23 DEF Resume, Parents, HasParent, ReadHasParent
<1>24. CASE PumpInspect
  BY <1>24
     DEF PumpInspect, PumpRest, Parents, HasParent, ReadHasParent, TypeOK, RowTypes,
         MapTypes, PumpTypes, PiTypes, FoundConsumed, Listed
<1>25. CASE PumpActivate
  <2>1. pumpRead' = {} /\ capture' \in {capture, {}}
    BY <1>25 DEF PumpActivate, PumpRest, StartTurn
  <2>2. parent' = parent \/ \E next \in Inputs : parent' = [parent EXCEPT ![next] = next]
    BY <1>25 DEF PumpActivate, Earliest, Wakeable
  <2>3. \A i \in Inputs : parent[i] \in Inputs => parent'[i] \in Inputs
    BY <2>2 DEF TypeOK, RowTypes
  <2>4. \A i \in Inputs : state'[i] # "absent" => Reconciled[i] # "absent"
    BY <1>25 DEF PumpActivate, Reconciled, Earliest, Wakeable
  <2>5. HasParent'
    BY <2>3, <2>4, ReconciledHasParent DEF HasParent
  <2> QED BY <2>1, <2>3, <2>5 DEF Parents, ReadHasParent, TypeOK, PiTypes
<1>26. CASE PumpStops
  BY <1>26 DEF PumpStops, PumpRest, Parents, HasParent, ReadHasParent
<1>27. CASE PumpRefused
  BY <1>27
     DEF PumpRefused, PumpRest, Parents, HasParent, ReadHasParent, TypeOK, RowTypes,
         MapTypes, PumpTypes, PiTypes, Reconciled, Inherited, Earliest, Wakeable
<1>28. CASE PumpContinue
  BY <1>28
     DEF PumpContinue, PumpRest, Parents, HasParent, ReadHasParent, TypeOK, RowTypes,
         MapTypes, PumpTypes, PiTypes, Save
<1>29. CASE UserCancel
  BY <1>29 DEF UserCancel, Stop, Parents, HasParent, ReadHasParent
<1>30. CASE CancelTimeout
  BY <1>30 DEF CancelTimeout, Parents, HasParent, ReadHasParent
<1>31. CASE BeginShutdown
  BY <1>31 DEF BeginShutdown, Parents, HasParent, ReadHasParent
<1>32. CASE StopRuns
  BY <1>32 DEF StopRuns, Stop, Parents, HasParent, ReadHasParent
<1>33. CASE Crash
  BY <1>33 DEF Crash, ForgetMemory, PumpRest, Parents, HasParent, ReadHasParent
<1>34. CASE Restart
  BY <1>34 DEF Restart, Parents, HasParent, ReadHasParent
<1>35. CASE UNCHANGED vars
  BY <1>35 DEF vars, Parents, HasParent, ReadHasParent
<1> QED
  BY <1>1, <1>2, <1>3, <1>4, <1>5, <1>6, <1>7, <1>8, <1>9, <1>10, <1>11, <1>12, <1>13,
     <1>14, <1>15, <1>16, <1>17, <1>18, <1>19, <1>20, <1>21, <1>22, <1>23, <1>24, <1>25,
     <1>26, <1>27, <1>28, <1>29, <1>30, <1>31, <1>32, <1>33, <1>34, <1>35
  DEF Next, ClientStep, TurnStep, EndStep, PumpStep

\* The steps that may give an input its outcome.
LEMMA OutcomeWriters ==
  ASSUME TypeOK, [Next]_vars
  PROVE  \/ \A i \in Inputs : state'[i] \in Outcomes => state'[i] = state[i]
         \/ \E r \in Inputs : \/ WithdrawHostInput(r) \/ RejectCaptured(r)
                              \/ OpenSettlement(r) \/ SettleNext(r)
         \/ PumpActivate \/ PumpRefused \/ PumpContinue
<1> DEFINE Goal == \/ \A i \in Inputs : state'[i] \in Outcomes => state'[i] = state[i]
                   \/ \E r \in Inputs : \/ WithdrawHostInput(r) \/ RejectCaptured(r)
                                        \/ OpenSettlement(r) \/ SettleNext(r)
                   \/ PumpActivate \/ PumpRefused \/ PumpContinue
<1>1. ASSUME NEW i \in Inputs, ClientStep(i) PROVE Goal
  <2>1. CASE AcceptTurn(i)
    BY <2>1 DEF AcceptTurn, StartTurn
  <2>2. CASE AcceptSupplement(i) \/ AcceptDeferred(i) \/ AcceptHostInput(i)
    BY <2>2 DEF AcceptSupplement, AcceptDeferred, AcceptHostInput, Enqueue, TypeOK, RowTypes, Outcomes
  <2>3. CASE WithdrawHostInput(i)
    BY <2>3, Zenon
  <2> QED BY <1>1, <2>1, <2>2, <2>3 DEF ClientStep
<1>2. ASSUME NEW i \in Inputs, TurnStep(i) PROVE Goal
  <2>1. CASE OpenBoundary(i) \/ Observe(i)
    BY <2>1 DEF OpenBoundary, Observe, Acknowledge, Outcomes
  <2>2. CASE CloseBoundary(i)
    BY <2>2 DEF CloseBoundary, Outcomes
  <2>3. CASE RejectCaptured(i)
    BY <2>3, Zenon
  <2>4. CASE CommitInput(i)
    BY <2>4 DEF CommitInput
  <2>5. CASE Lease(i) \/ ModelTurn(i) \/ Return(i)
    BY <2>5 DEF Lease, ModelTurn, Return
  <2> QED BY <1>2, <2>1, <2>2, <2>3, <2>4, <2>5 DEF TurnStep
<1>3. ASSUME NEW i \in Inputs, EndStep(i) PROVE Goal
  <2>1. CASE RunCompletes(i) \/ RunCancelled(i) \/ RunFails(i) \/ CompletionRefused(i)
    BY <2>1 DEF RunCompletes, RunCancelled, RunFails, CompletionRefused, CommitTerminal
  <2>2. CASE CommitLost(i) \/ Finalize(i)
    BY <2>2 DEF CommitLost, Finalize
  <2>3. CASE OpenSettlement(i) \/ SettleNext(i)
    BY <2>3, Zenon
  <2> QED BY <1>3, <2>1, <2>2, <2>3 DEF EndStep
<1>4. ASSUME NEW i \in Inputs, FinishCancel(i) PROVE Goal
  BY <1>4 DEF FinishCancel
<1>5. CASE PumpStep
  BY <1>5 DEF PumpStep, Resume, PumpInspect, PumpStops
<1>6. CASE UserCancel \/ CancelTimeout \/ BeginShutdown \/ StopRuns \/ Crash \/ Restart
  BY <1>6 DEF UserCancel, Stop, CancelTimeout, BeginShutdown, StopRuns, Crash, Restart
<1>7. CASE UNCHANGED vars
  BY <1>7 DEF vars
<1> QED
  BY <1>1, <1>2, <1>3, <1>4, <1>5, <1>6, <1>7 DEF Next

\* The invariants about stops and parents, in every state.
LEMMA StopsAndParents == Spec => [](StopInv /\ SettlesCause /\ Parents)
<1>1. Init => StopInv /\ SettlesCause /\ Parents
  BY DEF Init, StopInv, AbortCause, DoneClean, CancelledCause, SettlesCause, Parents, HasParent,
         ReadHasParent
<1>2. TypeOK /\ ActiveRuns /\ StopInv /\ [Next]_vars => StopInv'
  BY StopStep
<1>3. TypeOK /\ HonestReceipts /\ SettlesOnlySettling /\ StopInv /\ SettlesCause /\ [Next]_vars
      => SettlesCause'
  BY SettlesCauseStep
<1>4. TypeOK /\ Parents /\ [Next]_vars => Parents'
  BY ParentsStep
<1>5. Spec => [](ActiveRuns /\ HonestReceipts /\ SettlesOnlySettling)
  BY SnapshotInvAlways, ReceiptInvAlways, PTL DEF SnapshotInv, ReceiptInv
<1> QED BY <1>1, <1>2, <1>3, <1>4, <1>5, TypeCorrect, PTL DEF Spec

\* Recovery writes the outcome of an input in two ways: reconciled, for one the
\* pump has read, or failed, for the one it may not start.
LEMMA RecoveryWrites ==
  ASSUME TypeOK, PumpActivate \/ PumpRefused, NEW i \in Inputs, state'[i] # Reconciled[i]
  PROVE  state'[i] = "failed" /\ (snapshot[i] # "none" \/ failures' = failures + 1)
<1>1. Reconciled \in [Inputs -> InputStates]
  BY DEF Reconciled, Inherited, TypeOK, RowTypes, InputStates
<1>2. PICK next \in Inputs : /\ state' = [Reconciled EXCEPT ![next] = "failed"]
                             /\ snapshot[next] # "none" \/ failures' = failures + 1
  BY DEF PumpActivate, PumpRefused, Earliest, Wakeable, Replays
<1>3. i = next
  BY <1>1, <1>2
<1> QED BY <1>1, <1>2, <1>3

\* The three promises about the outcome of an input, for one step.
Matches(i) ==
  state'[i] # state[i] /\ state'[i] = "completed" => snapshot'[parent'[i]] = "completed"
KeepsUnread(i) ==
  state[i] = "pending" /\ state'[i] = "cancelled" /\ i \notin consumed => parent'[i] \in cancel
FailsRead(i) ==
  /\ state[i] = "pending" /\ state'[i] = "failed" /\ failures' = failures
  /\ i \notin consumed
  => starts[i] = 1

\* Settlement keeps them: it writes the outcome of the run that read the row.
LEMMA SettlementOutcome ==
  ASSUME TypeOK, ReceiptInv, SnapshotInv, StopInv, SettlesCause,
         NEW r \in Inputs, OpenSettlement(r) \/ SettleNext(r), NEW i \in Inputs
  PROVE  Matches(i) /\ (i \notin Host => KeepsUnread(i)) /\ FailsRead(i)
<1> USE DEF Matches, KeepsUnread, FailsRead
<1>1. PICK listed \in SUBSET (Inputs \X SUBSET Inputs) :
        SettleFirst(r, listed) /\ \A row \in listed : row[1] \in consumed \/ r \in cancel
  BY SettlesWithCause DEF ReceiptInv
<1>2. PICK honest \in SUBSET (Inputs \X SUBSET Inputs) :
        SettleFirst(r, honest) /\ \A row \in honest : HonestCopy(r, row)
  BY SettlesHonestCopies
<1>3. UNCHANGED snapshot
  BY DEF OpenSettlement, SettleNext
<1>4. CASE state'[i] = state[i]
  BY <1>4
<1>5. CASE state'[i] # state[i]
  <2>1. PICK row \in listed : Save(row[1], terminal[r]) /\ parent' = [parent EXCEPT ![row[1]] = r]
    BY <1>1, <1>5 DEF SettleFirst, FirstCopies
  <2>2. PICK copy \in honest : Save(copy[1], terminal[r])
    BY <1>2, <1>5 DEF SettleFirst, FirstCopies
  <2>3. row[1] = i /\ copy[1] = i /\ state'[i] = terminal[r] /\ parent'[i] = r
    BY <1>5, <2>1, <2>2 DEF Save, TypeOK, RowTypes
  <2>4. i \in consumed \/ r \in cancel
    BY <1>1, <2>3
  <2>5. i \in consumed \/ terminal[r] = "cancelled"
    BY <1>2, <2>3 DEF HonestCopy
  <2> QED BY <1>3, <2>3, <2>4, <2>5 DEF SnapshotInv, CompletedShown
<1> QED BY <1>4, <1>5

\* Recovery keeps them: what it reconciles was read, and shows its parent's end.
LEMMA RecoveryOutcome ==
  ASSUME TypeOK, ReceiptInv, SnapshotInv, Parents, PumpActivate \/ PumpRefused, NEW i \in Inputs
  PROVE  Matches(i) /\ KeepsUnread(i) /\ FailsRead(i)
<1> USE DEF Matches, KeepsUnread, FailsRead
<1>1. CASE state'[i] = state[i]
  BY <1>1
<1>2. CASE state'[i] # state[i] /\ state'[i] = Reconciled[i]
  <2>0. i \in pumpRead /\ state'[i] = Inherited(i)
    BY <1>2 DEF Reconciled
  <2>1. i \in consumed /\ parent[i] \in Inputs
    BY <2>0 DEF ReceiptInv, PumpReadConsumed, Parents, ReadHasParent
  <2>2. ASSUME state'[i] = "completed" PROVE snapshot'[parent'[i]] = "completed"
    <3>1. snapshot[parent[i]] = "completed"
      BY <2>0, <2>2 DEF Inherited
    <3>2. CASE UNCHANGED <<parent, snapshot>>
      BY <3>1, <3>2
    <3>3. ASSUME NEW next \in Inputs, Reconciled[next] = "pending",
                 parent' = [parent EXCEPT ![next] = next],
                 UNCHANGED snapshot \/ (~Replays(next) /\ StartTurn(next, FALSE))
          PROVE  snapshot'[parent'[i]] = "completed"
      <4>1. next # i
        BY <2>0, <3>3 DEF Reconciled, Inherited
      <4>2. parent'[i] = parent[i] /\ snapshot'[parent[i]] = snapshot[parent[i]]
        BY <2>1, <3>1, <3>3, <4>1 DEF StartTurn, Replays, TypeOK, RowTypes
      <4> QED BY <3>1, <4>2
    <3> QED BY <3>2, <3>3 DEF PumpActivate, PumpRefused, Earliest, Wakeable
  <2> QED BY <2>1, <2>2
<1>3. CASE state'[i] # Reconciled[i]
  BY <1>3, RecoveryWrites DEF SnapshotInv, Started, TypeOK, BudgetTypes
<1> QED BY <1>1, <1>2, <1>3

\* So every step keeps them.
LEMMA OutcomeStep ==
  ASSUME TypeOK, Unstarted, ReceiptInv, SnapshotInv, StopInv, SettlesCause, Parents, [Next]_vars,
         NEW i \in Inputs
  PROVE  Matches(i) /\ (i \notin Host => KeepsUnread(i)) /\ FailsRead(i)
<1> USE DEF Matches, KeepsUnread, FailsRead
<1>1. CASE state'[i] \in Outcomes => state'[i] = state[i]
  BY <1>1 DEF Outcomes
<1>2. ASSUME NEW h \in Inputs, WithdrawHostInput(h)
      PROVE  Matches(i) /\ (i \notin Host => KeepsUnread(i)) /\ FailsRead(i)
  BY <1>2 DEF WithdrawHostInput, Save, TypeOK, RowTypes
<1>3. ASSUME NEW r \in Inputs, RejectCaptured(r)
      PROVE  Matches(i) /\ KeepsUnread(i) /\ FailsRead(i)
  BY <1>3 DEF RejectCaptured, Save, TypeOK, RowTypes, BudgetTypes
<1>4. CASE PumpContinue
  BY <1>4 DEF PumpContinue, Save, Unstarted, SnapshotInv, Started, TypeOK, RowTypes, PumpTypes
<1> QED
  BY <1>1, <1>2, <1>3, <1>4, SettlementOutcome, RecoveryOutcome, OutcomeWriters

\* An input is completed only when the turn that read it completed: whether the
\* run settles it, or recovery after a lost process.
THEOREM CompletedWithItsTurn == Spec => OutcomeMatchesTurn
<1>1. /\ TypeOK /\ Unstarted /\ ReceiptInv /\ SnapshotInv /\ StopInv /\ SettlesCause /\ Parents
      /\ [Next]_vars
      => [\A i \in Inputs : Matches(i)]_vars
  BY OutcomeStep
<1>2. Spec => [][\A i \in Inputs : Matches(i)]_vars
  BY <1>1, TypeCorrect, StartsOnce, ReceiptInvAlways, SnapshotInvAlways, StopsAndParents, PTL
  DEF Spec
<1> QED BY <1>2 DEF OutcomeMatchesTurn, Matches

\* Shutting down or crashing cancels no user message Pi has not read: only a
\* user's stop of the task it supplements does.
THEOREM UnreadSurvivesShutdown == Spec => ShutdownKeepsUnconsumed
<1>1. /\ TypeOK /\ Unstarted /\ ReceiptInv /\ SnapshotInv /\ StopInv /\ SettlesCause /\ Parents
      /\ [Next]_vars
      => [\A i \in Inputs \ Host : KeepsUnread(i)]_vars
  BY OutcomeStep
<1>2. Spec => [][\A i \in Inputs \ Host : KeepsUnread(i)]_vars
  BY <1>1, TypeCorrect, StartsOnce, ReceiptInvAlways, SnapshotInvAlways, StopsAndParents, PTL
  DEF Spec
<1> QED BY <1>2 DEF ShutdownKeepsUnconsumed, KeepsUnread

\* Recovery fails a message Pi has not read only if its own turn was started:
\* otherwise it survives the failure, stop or crash of the task it was for.
THEOREM UnreadIsRetried == Spec => UnreadNeverFails
<1>1. /\ TypeOK /\ Unstarted /\ ReceiptInv /\ SnapshotInv /\ StopInv /\ SettlesCause /\ Parents
      /\ [Next]_vars
      => [\A i \in Inputs : FailsRead(i)]_vars
  BY OutcomeStep
<1>2. Spec => [][\A i \in Inputs : FailsRead(i)]_vars
  BY <1>1, TypeCorrect, StartsOnce, ReceiptInvAlways, SnapshotInvAlways, StopsAndParents, PTL
  DEF Spec
<1> QED BY <1>2 DEF UnreadNeverFails, FailsRead

-----------------------------------------------------------------------------
(***************************************************************************)
(* The Pi session of the active run.  Its queue and its open capture       *)
(* belong to a live run, and only a boundary holds a capture.              *)
(***************************************************************************)
PiOpen == piQueue # <<>> \/ capture # {} => active \in Inputs /\ pc[active] \in LivePhases
CaptureOpen == capture # {} => pc[active] \in BoundaryPhases
Entries == 1..Len(piQueue)
ScopeKept == capture \cap TurnScoped = {} /\ \A k \in Entries : piQueue[k] \cap TurnScoped = {}
PiInv == PiOpen /\ CaptureOpen /\ ScopeKept

\* Pi's queue with one more entry at its end, and without its first.
Appended(batch) ==
  /\ Len(piQueue') = Len(piQueue) + 1 /\ piQueue'[Len(piQueue) + 1] = batch
  /\ \A k \in Entries : piQueue'[k] = piQueue[k]
Taken(batch) ==
  /\ Len(piQueue) = Len(piQueue') + 1 /\ batch = piQueue[1]
  /\ \A k \in 1..Len(piQueue') : piQueue'[k] = piQueue[k + 1]

\* A boundary that closes sends a prefix of what it captured.
Sends(r, batch) ==
  /\ state' = [i \in Inputs |-> IF i \in batch THEN "pending" ELSE state[i]]
  /\ wire' = [i \in Inputs |-> IF i \in batch THEN batch ELSE wire[i]]
  /\ scheduled' = scheduled \cup batch /\ capture' = {}
  /\ batch \subseteq capture /\ \A i \in batch, j \in capture : rank[j] < rank[i] => j \in batch
  /\ (piQueue' = piQueue /\ batch = {}) \/ Appended(batch)

\* What the closing boundary writes and queues is one batch of the capture.
LEMMA CloseSends ==
  ASSUME TypeOK, NEW r \in Inputs, CloseBoundary(r)
  PROVE  \E batch \in SUBSET Inputs : Sends(r, batch)
<1>1. PICK batch \in SUBSET capture :
        /\ state' = [i \in Inputs |-> IF i \in batch THEN "pending" ELSE state[i]]
        /\ wire' = [i \in Inputs |-> IF i \in batch THEN batch ELSE wire[i]]
        /\ scheduled' = scheduled \cup batch
        /\ piQueue' = IF batch = {} THEN piQueue ELSE Append(piQueue, batch)
        /\ \A i \in batch, j \in capture : rank[j] < rank[i] => j \in batch
  BY DEF CloseBoundary, Prefixes
<1>2. batch \in SUBSET Inputs /\ capture' = {}
  BY DEF CloseBoundary, TypeOK, PiTypes
<1>3. batch # {} => Appended(batch)
  BY <1>1, <1>2 DEF Appended, Entries, TypeOK, PiTypes
<1> QED BY <1>1, <1>2, <1>3 DEF Sends

\* A commit makes model input of the turn's prompt, once, and of the first
\* entry of the queue, if it takes one.
Commits(r, batch) ==
  LET added == batch \cup (IF prompted THEN {} ELSE {r})
  IN  /\ consumed' = consumed \cup added
      /\ copies' = [i \in Inputs |-> IF i \in added THEN copies[i] + 1 ELSE copies[i]]
      /\ \/ UNCHANGED <<piQueue, transcript>> /\ batch = {}
         \/ Taken(batch) /\ transcript' = transcript \cup {batch}

\* What a commit makes model input is the prompt and at most one batch.
LEMMA CommitCommits ==
  ASSUME TypeOK, NEW r \in Inputs, CommitInput(r)
  PROVE  \E batch \in SUBSET Inputs : Commits(r, batch)
<1>1. PICK take \in BOOLEAN :
        /\ take => piQueue # <<>>
        /\ LET batch == IF take THEN Head(piQueue) ELSE {}
               added == batch \cup (IF prompted THEN {} ELSE {r})
           IN /\ transcript' = IF take THEN transcript \cup {batch} ELSE transcript
              /\ piQueue' = IF take THEN Tail(piQueue) ELSE piQueue
              /\ copies' = [i \in Inputs |-> IF i \in added THEN copies[i] + 1 ELSE copies[i]]
              /\ consumed' = consumed \cup added
  BY DEF CommitInput
<1>2. CASE ~take
  BY <1>1, <1>2 DEF Commits
<1>3. CASE take
  <2>1. Head(piQueue) \in SUBSET Inputs /\ Taken(Head(piQueue))
    BY <1>1, <1>3 DEF Taken, TypeOK, PiTypes
  <2> QED BY <1>1, <1>3, <2>1 DEF Commits
<1> QED BY <1>2, <1>3

\* A run that is at work is the active one.
LEMMA WorkerIsActive ==
  ASSUME OneLiveRun, NEW r \in Inputs, Moves(r)
  PROVE  active = r /\ active' = r /\ pc[r] \in LivePhases
BY DEF OneLiveRun, Moves, OpenBoundary, CloseBoundary, RejectCaptured, CommitInput, LivePhases,
       LeasedPhases, BoundaryPhases

\* The steps of a turn keep its queue and its capture within its live phases.
LEMMA PiMoves ==
  ASSUME TypeOK, OneLiveRun, PiInv, NEW r \in Inputs, Moves(r)
  PROVE  PiInv'
<1> USE DEF PiInv
<1>1. active = r /\ active' = r
  BY WorkerIsActive
<1>2. CASE OpenBoundary(r)
  <2>1. PiOpen' /\ CaptureOpen'
    BY <1>1, <1>2, NextPhases
       DEF OpenBoundary, PiOpen, CaptureOpen, TypeOK, RunTypes, LivePhases, LeasedPhases,
           BoundaryPhases
  <2>2. ScopeKept'
    BY <1>2 DEF OpenBoundary, Eligible, ScopeKept, Entries
  <2> QED BY <2>1, <2>2
<1>3. CASE CloseBoundary(r)
  <2>1. PICK batch \in SUBSET Inputs : Sends(r, batch)
    BY <1>3, CloseSends
  <2>2. PiOpen' /\ CaptureOpen'
    BY <1>1, <1>3, NextPhases
       DEF CloseBoundary, PiOpen, CaptureOpen, TypeOK, RunTypes, LivePhases, LeasedPhases,
           BoundaryPhases
  <2>3. ScopeKept'
    BY <2>1 DEF Sends, Appended, ScopeKept, Entries, TypeOK, PiTypes
  <2> QED BY <2>2, <2>3
<1>4. CASE RejectCaptured(r)
  <2>1. PiOpen' /\ CaptureOpen'
    BY <1>1, <1>4, NextPhases
       DEF RejectCaptured, PiOpen, CaptureOpen, TypeOK, RunTypes, LivePhases, LeasedPhases,
           BoundaryPhases
  <2>2. ScopeKept'
    BY <1>4 DEF RejectCaptured, ScopeKept, Entries
  <2> QED BY <2>1, <2>2
<1>5. CASE CommitInput(r)
  <2>1. PICK batch \in SUBSET Inputs : Commits(r, batch)
    BY <1>5, CommitCommits
  <2>2. PiOpen' /\ CaptureOpen'
    BY <1>1, <1>5
       DEF CommitInput, PiOpen, CaptureOpen, TypeOK, RunTypes, LivePhases, LeasedPhases,
           BoundaryPhases
  <2>3. ScopeKept'
    BY <1>5, <2>1 DEF CommitInput, Commits, Taken, ScopeKept, Entries, TypeOK, PiTypes
  <2> QED BY <2>2, <2>3
<1> QED BY <1>2, <1>3, <1>4, <1>5 DEF Moves

\* And so do all other steps.
LEMMA PiStep ==
  ASSUME TypeOK, TerminalKnown, OneLiveRun, PiInv, [Next]_vars
  PROVE  PiInv'
<1>1. CASE Clears
  BY <1>1 DEF Clears, PiInv, PiOpen, CaptureOpen, ScopeKept, Entries
<1>2. CASE Keeps
  <2>1. PiOpen' /\ CaptureOpen'
    BY <1>2, KindAssumption DEF Keeps, PiInv, PiOpen, CaptureOpen, LivePhases, LeasedPhases, BoundaryPhases
  <2>2. ScopeKept'
    BY <1>2 DEF Keeps, PiInv, ScopeKept, Entries
  <2> QED BY <2>1, <2>2 DEF PiInv
<1> QED BY <1>1, <1>2, PiMoves, StepKinds

\* The invariant about the Pi session, in every state.
LEMMA PiInvAlways == Spec => []PiInv
<1>1. Init => PiInv
  BY DEF Init, PiInv, PiOpen, CaptureOpen, ScopeKept, Entries
<1>2. TypeOK /\ TerminalKnown /\ OneLiveRun /\ PiInv /\ [Next]_vars => PiInv'
  BY PiStep
<1> QED BY <1>1, <1>2, TypeCorrect, SingleExecution, PTL DEF Spec

\* A run that may still execute has started its turn.
LEMMA LiveHasStarted ==
  ASSUME TypeOK, Unstarted, Started, NEW r \in Inputs, pc[r] # "none"
  PROVE  starts[r] = 1
BY DEF Unstarted, Started

\* Turns are started once and for inputs that may wake the session.
LEMMA HostPolicyStep ==
  ASSUME TypeOK, TerminalKnown, OneLiveRun, StartedOnce, Unstarted, Started, PiInv, HostPolicy,
         [Next]_vars
  PROVE  HostPolicy'
<1>1. CASE UNCHANGED starts /\ UNCHANGED consumed
  BY <1>1 DEF HostPolicy
<1>2. CASE Starts /\ UNCHANGED consumed
  <2>1. \A i \in Inputs : starts[i] \in Nat /\ starts'[i] \in Nat /\ starts'[i] <= 1
    BY TypeOKStep, StartedOnceStep DEF StartedOnce, TypeOK, RowTypes
  <2> QED BY <1>2, <2>1, KindAssumption DEF HostPolicy, Starts
<1>3. ASSUME NEW r \in Inputs, CommitInput(r) PROVE HostPolicy'
  <2>1. PICK batch \in SUBSET Inputs : Commits(r, batch)
    BY <1>3, CommitCommits
  <2>2. batch \cap TurnScoped = {}
    BY <2>1 DEF Commits, Taken, PiInv, ScopeKept, Entries, TypeOK, PiTypes
  <2>3. starts[r] = 1 /\ UNCHANGED starts
    BY <1>3, LiveHasStarted DEF CommitInput
  <2> QED BY <2>1, <2>2, <2>3 DEF Commits, HostPolicy
<1>4. ASSUME NEW r \in Inputs, OpenBoundary(r) \/ CloseBoundary(r) \/ RejectCaptured(r)
      PROVE  HostPolicy'
  BY <1>1, <1>4 DEF OpenBoundary, CloseBoundary, RejectCaptured
<1> QED BY <1>1, <1>2, <1>3, <1>4, StepKinds DEF Keeps, Clears, Moves

\* A turn-scoped host input is read by its own turn or by none, and a quiet
\* notice never starts one, through any number of restarts.
THEOREM HostInputsKeepScope == Spec => []HostPolicy
<1>1. Init => HostPolicy
  BY KindAssumption DEF Init, HostPolicy
<1>2. /\ TypeOK /\ TerminalKnown /\ OneLiveRun /\ StartedOnce /\ Unstarted /\ Started /\ PiInv
      /\ HostPolicy /\ [Next]_vars
      => HostPolicy'
  BY HostPolicyStep
<1>3. Spec => []Started
  BY SnapshotInvAlways, PTL DEF SnapshotInv
<1> QED
  BY <1>1, <1>2, <1>3, TypeCorrect, SingleExecution, StartsOnce, PiInvAlways, PTL DEF Spec

-----------------------------------------------------------------------------
(***************************************************************************)
(* Supplements are read once.  An input that Pi's transcript holds and     *)
(* whose row still waits shows its wire batch in that transcript, so a     *)
(* boundary acknowledges it before it captures: what is captured or queued *)
(* was never read.                                                         *)
(***************************************************************************)
Unread(i) == rank[i] # 0 /\ (starts[i] = 0 => copies[i] = 0)
PendingRanked == \A i \in Inputs : state[i] = "pending" => rank[i] # 0
CopiedOnce ==
  \A i \in Inputs : starts[i] = 0 /\ copies[i] # 0 =>
    copies[i] = 1 /\ rank[i] # 0 /\ (state[i] = "pending" => InTranscript(i))
CaptureUnread == \A i \in capture : i \notin scheduled /\ Unread(i)
QueueUnread ==
  \A k \in Entries : \A i \in piQueue[k] :
    i \in scheduled /\ Unread(i) /\ (state[i] = "pending" => wire[i] = piQueue[k])
QueuedOnce == \A j, k \in Entries : piQueue[j] \cap piQueue[k] # {} => j = k
OnceInv == PendingRanked /\ CopiedOnce /\ CaptureUnread /\ QueueUnread /\ QueuedOnce

\* A new row gets a number of its own.
LEMMA NextRankPositive == NextRank \in Nat /\ NextRank # 0
<1> DEFINE Ranked == {i \in Inputs : rank[i] # 0}
<1>1. Cardinality(Ranked) \in Nat
  BY KindAssumption, FS_Subset, FS_CardinalityType
<1> QED BY <1>1 DEF NextRank

\* What a boundary captures was not read: a row that was has been acknowledged.
LEMMA OpenUnread ==
  ASSUME TypeOK, OnceInv, NEW r \in Inputs, OpenBoundary(r)
  PROVE  OnceInv'
<1> USE DEF OnceInv
<1>1. /\ UNCHANGED <<rank, wire, starts, transcript, copies, piQueue, scheduled>>
      /\ \A i \in Inputs : state'[i] = "pending" => state[i] = "pending" /\ ~InTranscript(i)
      /\ capture' \subseteq Eligible(r)
  BY DEF OpenBoundary, Acknowledge, Receipts
<1>2. PendingRanked' /\ CopiedOnce'
  BY <1>1 DEF PendingRanked, CopiedOnce, InTranscript
<1>3. CaptureUnread'
  BY <1>1 DEF Eligible, CaptureUnread, Unread, PendingRanked, CopiedOnce
<1>4. QueueUnread' /\ QueuedOnce'
  BY <1>1 DEF QueueUnread, QueuedOnce, Unread, Entries, TypeOK, PiTypes
<1> QED BY <1>2, <1>3, <1>4

\* What it sends waits in one entry of the queue, under that entry's name.
LEMMA CloseUnread ==
  ASSUME TypeOK, OnceInv, NEW r \in Inputs, CloseBoundary(r)
  PROVE  OnceInv'
<1> USE DEF OnceInv
<1>1. PICK batch \in SUBSET Inputs : Sends(r, batch)
  BY CloseSends
<1>2. UNCHANGED <<rank, starts, transcript, copies>>
  BY DEF CloseBoundary
<1>3. \A i \in batch : i \notin scheduled /\ Unread(i)
  BY <1>1 DEF Sends, CaptureUnread
<1>4. PendingRanked' /\ CopiedOnce' /\ CaptureUnread'
  BY <1>1, <1>2, <1>3 DEF Sends, PendingRanked, CopiedOnce, CaptureUnread, Unread, InTranscript
<1>5. CASE piQueue' = piQueue /\ batch = {}
  <2>1. UNCHANGED <<state, wire, scheduled, piQueue>>
    BY <1>1, <1>5 DEF Sends, TypeOK, RowTypes
  <2>2. QueueUnread' /\ QueuedOnce'
    BY <1>2, <2>1 DEF QueueUnread, QueuedOnce, Unread, Entries
  <2> QED BY <1>4, <2>2
<1>6. CASE Appended(batch)
  <2>1. Entries' = Entries \cup {Len(piQueue) + 1}
    BY <1>6 DEF Appended, Entries, TypeOK, PiTypes
  <2>2. \A k \in Entries : piQueue[k] \cap batch = {} /\ piQueue[k] \subseteq Inputs
    BY <1>3 DEF QueueUnread, Entries, TypeOK, PiTypes
  <2>3. QueueUnread'
    <3>1. ASSUME NEW k \in Entries, NEW i \in piQueue[k]
          PROVE  i \in scheduled' /\ Unread(i)' /\ (state'[i] = "pending" => wire'[i] = piQueue[k])
      BY <1>1, <1>2, <2>2, <3>1 DEF Sends, QueueUnread, Unread
    <3>2. ASSUME NEW i \in batch
          PROVE  i \in scheduled' /\ Unread(i)' /\ wire'[i] = batch
      BY <1>1, <1>2, <1>3, <3>2 DEF Sends, Unread
    <3> QED BY <1>6, <2>1, <3>1, <3>2 DEF QueueUnread, Appended
  <2>4. QueuedOnce'
    BY <1>6, <2>1, <2>2 DEF QueuedOnce, Appended
  <2> QED BY <1>4, <2>3, <2>4
<1> QED BY <1>1, <1>4, <1>5, <1>6 DEF Sends

\* Pi commits an entry that was not read, and no later entry holds its inputs.
LEMMA CommitUnread ==
  ASSUME TypeOK, OneLiveRun, Unstarted, Started, PiInv, OnceInv, NEW r \in Inputs, CommitInput(r)
  PROVE  OnceInv'
<1> USE DEF OnceInv
<1>1. PICK batch \in SUBSET Inputs : Commits(r, batch)
  BY CommitCommits
<1>2. starts[r] = 1 /\ capture = {} /\ UNCHANGED <<state, wire, rank, starts, scheduled, capture>>
  BY LiveHasStarted, WorkerIsActive
     DEF CommitInput, Moves, PiInv, CaptureOpen, BoundaryPhases
<1>3. \A i \in Inputs : starts[i] = 0 /\ i \notin batch => copies'[i] = copies[i]
  BY <1>1, <1>2 DEF Commits, TypeOK, ModelTypes
<1>4. PendingRanked' /\ CaptureUnread'
  BY <1>2 DEF PendingRanked, CaptureUnread
<1>5. CASE batch = {} /\ UNCHANGED <<piQueue, transcript>>
  BY <1>2, <1>3, <1>4, <1>5
     DEF CopiedOnce, QueueUnread, QueuedOnce, Unread, Entries, InTranscript, TypeOK, PiTypes
<1>6. CASE Taken(batch) /\ transcript' = transcript \cup {batch}
  <2>1. 1 \in Entries /\ \A k \in Entries' : k + 1 \in Entries /\ k + 1 # 1 /\ piQueue'[k] = piQueue[k + 1]
    BY <1>6 DEF Taken, Entries, TypeOK, PiTypes
  <2>2. \A i \in batch : Unread(i) /\ (state[i] = "pending" => wire[i] = batch)
    BY <1>6, <2>1 DEF Taken, QueueUnread
  <2>3. CopiedOnce'
    <3>1. ASSUME NEW i \in Inputs, starts[i] = 0, copies'[i] # 0
          PROVE  copies'[i] = 1 /\ rank[i] # 0 /\ (state[i] = "pending" => InTranscript(i)')
      <4>1. CASE i \in batch
        BY <1>1, <1>2, <1>6, <2>2, <3>1, <4>1
           DEF Commits, Unread, InTranscript, TypeOK, ModelTypes
      <4>2. CASE i \notin batch
        BY <1>2, <1>3, <1>6, <3>1, <4>2 DEF CopiedOnce, InTranscript
      <4> QED BY <4>1, <4>2
    <3> QED BY <1>2, <3>1 DEF CopiedOnce
  <2>4. QueueUnread'
    <3>1. ASSUME NEW k \in Entries', NEW i \in piQueue'[k]
          PROVE  /\ i \in scheduled' /\ Unread(i)'
                 /\ state'[i] = "pending" => wire'[i] = piQueue'[k]
      <4>1. i \in piQueue[k + 1] /\ i \notin batch /\ i \in Inputs
        BY <1>6, <2>1, <3>1 DEF Taken, QueuedOnce, Entries, TypeOK, PiTypes
      <4> QED BY <1>2, <1>3, <2>1, <4>1 DEF QueueUnread, Unread
    <3> QED BY <3>1 DEF QueueUnread
  <2>5. QueuedOnce'
    BY <2>1 DEF QueuedOnce, Entries, TypeOK, PiTypes
  <2> QED BY <1>4, <2>3, <2>4, <2>5
<1> QED BY <1>1, <1>5, <1>6 DEF Commits

\* Every step keeps read inputs out of the queue.
LEMMA OnceStep ==
  ASSUME TypeOK, TerminalKnown, OneLiveRun, Unstarted, Started, PiInv, OnceInv, [Next]_vars
  PROVE  OnceInv'
<1> USE DEF OnceInv
<1>1. CASE Clears
  <2>1. \A i \in Inputs : starts'[i] = 0 => starts[i] = 0
    BY <1>1, TypeOKStep DEF Clears, Starts, TypeOK, RowTypes
  <2>2. PendingRanked' /\ CopiedOnce'
    BY <1>1, <2>1 DEF Clears, Dequeues, PendingRanked, CopiedOnce, InTranscript
  <2> QED BY <1>1, <2>2 DEF Clears, CaptureUnread, QueueUnread, QueuedOnce, Entries
<1>2. CASE Keeps
  <2>1. \/ UNCHANGED <<transcript, copies>>
        \/ transcript' = {} /\ \A i \in Inputs : copies'[i] = 0
    BY <1>2 DEF Keeps
  <2>2. UNCHANGED <<starts, piQueue, scheduled, capture>> /\ Entries' = Entries
    BY <1>2 DEF Keeps, Entries
  <2>3. CASE Dequeues
    <3>1. \A i \in Inputs : Unread(i) => Unread(i)'
      BY <2>1, <2>2, <2>3 DEF Dequeues, Unread
    <3>2. PendingRanked' /\ CopiedOnce'
      BY <2>1, <2>2, <2>3 DEF Dequeues, PendingRanked, CopiedOnce, InTranscript
    <3>3. CaptureUnread' /\ QueuedOnce'
      BY <2>2, <3>1 DEF CaptureUnread, QueuedOnce, TypeOK, PiTypes
    <3>4. QueueUnread'
      BY <2>2, <2>3, <3>1 DEF Dequeues, QueueUnread, Entries, TypeOK, PiTypes
    <3> QED BY <3>2, <3>3, <3>4
  <2>4. CASE Enqueues
    <3>1. PICK n \in Inputs : /\ Fresh(n) /\ UNCHANGED wire
                              /\ state' = [state EXCEPT ![n] = "pending"]
                              /\ rank' = [rank EXCEPT ![n] = NextRank]
      BY <2>4 DEF Enqueues, Enqueue
    <3>2. \A i \in Inputs : Unread(i) => Unread(i)' /\ i # n
      BY <2>1, <2>2, <3>1 DEF Fresh, Unread, TypeOK, RowTypes
    <3>3. PendingRanked'
      BY <3>1, NextRankPositive DEF PendingRanked, TypeOK, RowTypes
    <3>4. CopiedOnce'
      BY <2>1, <2>2, <3>1 DEF Fresh, CopiedOnce, InTranscript, TypeOK, RowTypes
    <3>5. CaptureUnread' /\ QueuedOnce'
      BY <2>2, <3>2 DEF CaptureUnread, QueuedOnce, TypeOK, PiTypes
    <3>6. QueueUnread'
      BY <2>2, <3>1, <3>2 DEF QueueUnread, Entries, TypeOK, RowTypes, PiTypes
    <3> QED BY <3>3, <3>4, <3>5, <3>6
  <2> QED BY <1>2, <2>3, <2>4 DEF Keeps
<1>3. ASSUME NEW r \in Inputs, RejectCaptured(r) PROVE OnceInv'
  <2>1. PICK j \in capture : Save(j, "failed") /\ capture' = capture \ {j}
    BY <1>3 DEF RejectCaptured
  <2>2. UNCHANGED <<wire, rank, starts, transcript, copies, piQueue, scheduled>>
    BY <1>3 DEF RejectCaptured
  <2>3. \A i \in Inputs : state'[i] = "pending" => state[i] = "pending"
    BY <2>1 DEF Save, TypeOK, RowTypes
  <2>4. PendingRanked' /\ CopiedOnce'
    BY <2>2, <2>3 DEF PendingRanked, CopiedOnce, InTranscript
  <2>5. CaptureUnread' /\ QueuedOnce'
    BY <2>1, <2>2 DEF CaptureUnread, QueuedOnce, Unread, Entries
  <2>6. QueueUnread'
    BY <2>2, <2>3 DEF QueueUnread, Unread, Entries, TypeOK, PiTypes
  <2> QED BY <2>4, <2>5, <2>6
<1> QED
  BY <1>1, <1>2, <1>3, OpenUnread, CloseUnread, CommitUnread, StepKinds DEF Moves

\* The invariant about unread inputs, in every state.
LEMMA OnceInvAlways == Spec => []OnceInv
<1>1. Init => OnceInv
  BY DEF Init, OnceInv, PendingRanked, CopiedOnce, CaptureUnread, QueueUnread, QueuedOnce, Entries
<1>2. /\ TypeOK /\ TerminalKnown /\ OneLiveRun /\ Unstarted /\ Started /\ PiInv /\ OnceInv
      /\ [Next]_vars
      => OnceInv'
  BY OnceStep
<1>3. Spec => []Started
  BY SnapshotInvAlways, PTL DEF SnapshotInv
<1> QED
  BY <1>1, <1>2, <1>3, TypeCorrect, SingleExecution, StartsOnce, PiInvAlways, PTL DEF Spec

\* A supplement that never owned a turn is in the transcript at most once, even
\* when its run dies between Pi's commit and the receipt.
THEOREM SupplementReadOnce == Spec => []SupplementOnce
<1>1. TypeOK /\ OnceInv => SupplementOnce
  BY DEF OnceInv, CopiedOnce, SupplementOnce, TypeOK, ModelTypes
<1> QED BY <1>1, TypeCorrect, OnceInvAlways, PTL

-----------------------------------------------------------------------------
(***************************************************************************)
(* Steering in order.  Ahead(i, j): i is a steering message that arrived   *)
(* before j.  Whatever is captured or queued has behind it no such message *)
(* that still waits, except the prompt of the turn itself.                 *)
(***************************************************************************)
Ahead(i, j) == i \notin FollowUps \cup TurnScoped /\ rank[i] # 0 /\ rank[i] < rank[j]
InQueue(i, n) == \E k \in 1..n : i \in piQueue[k]
RanksBelow == \A i \in Inputs : rank[i] < NextRank
ScheduledKnown ==
  active \in Inputs /\ pc[active] \in LivePhases =>
    \A i \in scheduled : i \in consumed \/ InQueue(i, Len(piQueue))
CaptureOrder ==
  \A j \in capture : \A i \in Inputs : Ahead(i, j) /\ state[i] = "pending" =>
    i \in capture \/ i \in consumed \/ i = active \/ InQueue(i, Len(piQueue))
QueueOrder ==
  \A k \in Entries : \A j \in piQueue[k] : \A i \in Inputs : Ahead(i, j) /\ state[i] = "pending" =>
    i \in consumed \/ i = active \/ InQueue(i, k)
CaptureBehind ==
  \A i \in capture : \A k \in Entries : \A j \in piQueue[k] : Ahead(i, j) => i \in consumed
OrderInv == RanksBelow /\ ScheduledKnown /\ CaptureOrder /\ QueueOrder /\ CaptureBehind

\* A new row comes behind all others.
LEMMA EnqueueRank ==
  ASSUME TypeOK, RanksBelow, NEW n \in Inputs, Fresh(n), rank' = [rank EXCEPT ![n] = NextRank]
  PROVE  NextRank' = NextRank + 1 /\ RanksBelow'
<1> DEFINE Ranked == {i \in Inputs : rank[i] # 0}
           Ranked1 == {i \in Inputs : rank'[i] # 0}
<1>1. Ranked1 = Ranked \cup {n} /\ n \notin Ranked
  BY NextRankPositive DEF Fresh, TypeOK, RowTypes
<1>2. IsFiniteSet(Ranked)
  BY KindAssumption, FS_Subset
<1>3. Cardinality(Ranked1) = Cardinality(Ranked) + 1 /\ Cardinality(Ranked) \in Nat
  BY <1>1, <1>2, FS_AddElement, FS_CardinalityType
<1>4. NextRank' = NextRank + 1
  BY <1>3 DEF NextRank
<1> QED BY <1>4, NextRankPositive DEF RanksBelow, TypeOK, RowTypes

\* What a boundary captures leaves nothing earlier behind but what is queued.
LEMMA OpenOrder ==
  ASSUME TypeOK, OneLiveRun, OnceInv, OrderInv, NEW r \in Inputs, OpenBoundary(r)
  PROVE  OrderInv'
<1> USE DEF OrderInv
<1>1. /\ UNCHANGED <<rank, piQueue, scheduled, consumed, active>>
      /\ \A i \in Inputs : state'[i] = "pending" => state[i] = "pending"
      /\ capture' = {} \/ capture' = Eligible(r)
  BY DEF OpenBoundary, Acknowledge
<1>2. active = r /\ pc[r] \in LivePhases
  BY WorkerIsActive DEF Moves
<1>3. RanksBelow' /\ ScheduledKnown'
  BY <1>1, <1>2 DEF RanksBelow, NextRank, ScheduledKnown, InQueue
<1>4. QueueOrder'
  BY <1>1 DEF QueueOrder, Ahead, InQueue, Entries
<1>5. CaptureOrder'
  <2> SUFFICES ASSUME NEW j \in capture', NEW i \in Inputs, Ahead(i, j)', state'[i] = "pending"
               PROVE  \/ i \in capture' \/ i \in consumed' \/ i = active'
                      \/ InQueue(i, Len(piQueue))'
    BY DEF CaptureOrder
  <2>1. CASE i \in scheduled
    BY <1>1, <1>2, <2>1 DEF ScheduledKnown, InQueue
  <2>2. CASE i \notin scheduled
    BY <1>1, <1>2, <2>2 DEF Eligible, Ahead
  <2> QED BY <2>1, <2>2
<1>6. CaptureBehind'
  <2> SUFFICES ASSUME NEW i \in capture', NEW k \in Entries, NEW j \in piQueue[k], Ahead(i, j)
               PROVE  i \in consumed
    BY <1>1 DEF CaptureBehind, Ahead, Entries
  <2>1. i \in Inputs /\ i # active /\ i \notin scheduled /\ state[i] = "pending"
    BY <1>1, <1>2 DEF Eligible
  <2>2. ~InQueue(i, k)
    BY <2>1 DEF InQueue, OnceInv, QueueUnread, Entries, TypeOK, PiTypes
  <2> QED BY <2>1, <2>2 DEF QueueOrder
<1> QED BY <1>3, <1>4, <1>5, <1>6

\* What it sends is a prefix of what it captured, and goes to the end.
LEMMA CloseOrder ==
  ASSUME TypeOK, OneLiveRun, OrderInv, NEW r \in Inputs, CloseBoundary(r)
  PROVE  OrderInv'
<1> USE DEF OrderInv
<1>1. PICK batch \in SUBSET Inputs : Sends(r, batch)
  BY CloseSends
<1>2. UNCHANGED <<rank, consumed, active>> /\ capture' = {}
  BY DEF CloseBoundary
<1>3. active = r /\ pc[r] \in LivePhases
  BY WorkerIsActive DEF Moves
<1>4. /\ Len(piQueue) \in Nat /\ Len(piQueue') \in Nat /\ Len(piQueue) <= Len(piQueue')
      /\ \A k \in Entries : piQueue'[k] = piQueue[k]
      /\ \A k \in Entries' : k \in Entries \/ (k = Len(piQueue) + 1 /\ piQueue'[k] = batch)
      /\ \A i \in batch : InQueue(i, Len(piQueue))'
  BY <1>1, TypeOKStep DEF Sends, Appended, Entries, InQueue, TypeOK, PiTypes
<1>5. \A i \in Inputs, k \in Entries : InQueue(i, k) => InQueue(i, k)'
  BY <1>4 DEF InQueue, Entries
<1>6. \A i \in Inputs : InQueue(i, Len(piQueue)) => InQueue(i, Len(piQueue))'
  BY <1>4 DEF InQueue, Entries
<1>7. RanksBelow' /\ CaptureOrder' /\ CaptureBehind'
  BY <1>2 DEF RanksBelow, NextRank, CaptureOrder, CaptureBehind
<1>8. ScheduledKnown'
  BY <1>1, <1>2, <1>3, <1>4, <1>6 DEF Sends, ScheduledKnown, TypeOK, PiTypes
<1>9. QueueOrder'
  <2> SUFFICES ASSUME NEW k \in Entries', NEW j \in piQueue'[k], NEW i \in Inputs, Ahead(i, j),
                      state'[i] = "pending", i \notin consumed, i # active
               PROVE  InQueue(i, k)'
    BY <1>2 DEF QueueOrder, Ahead
  <2>1. i \in batch \/ state[i] = "pending"
    BY <1>1 DEF Sends
  <2>2. CASE k \in Entries
    BY <1>1, <1>4, <1>5, <2>1, <2>2 DEF Sends, QueueOrder, CaptureBehind
  <2>3. CASE k = Len(piQueue) + 1 /\ piQueue'[k] = batch
    <3>1. CASE i \in batch
      BY <1>4, <2>3, <3>1 DEF InQueue
    <3>2. CASE InQueue(i, Len(piQueue))
      BY <1>4, <2>3, <3>2 DEF InQueue, Entries
    <3>3. j \in capture /\ j \in batch
      BY <1>1, <2>3 DEF Sends
    <3>4. i \in batch \/ InQueue(i, Len(piQueue))
      BY <1>1, <2>1, <3>3 DEF Sends, CaptureOrder, Ahead
    <3> QED BY <3>1, <3>2, <3>4
  <2> QED BY <1>4, <2>2, <2>3
<1> QED BY <1>7, <1>8, <1>9

\* Pi takes the first entry of the queue.
LEMMA CommitOrder ==
  ASSUME TypeOK, OneLiveRun, PiInv, OrderInv, NEW r \in Inputs, CommitInput(r)
  PROVE  OrderInv'
<1> USE DEF OrderInv
<1>1. PICK batch \in SUBSET Inputs : Commits(r, batch)
  BY CommitCommits
<1>2. active = r /\ pc[r] \in LivePhases
  BY WorkerIsActive DEF Moves
<1>3. capture' = {} /\ UNCHANGED <<state, rank, scheduled, active>>
  BY <1>2 DEF CommitInput, PiInv, CaptureOpen, BoundaryPhases
<1>4. consumed \subseteq consumed' /\ batch \subseteq consumed'
  BY <1>1 DEF Commits
<1>5. RanksBelow' /\ CaptureOrder' /\ CaptureBehind'
  BY <1>3 DEF RanksBelow, NextRank, CaptureOrder, CaptureBehind
<1>6. CASE UNCHANGED piQueue
  BY <1>2, <1>3, <1>4, <1>5, <1>6 DEF ScheduledKnown, QueueOrder, Ahead, InQueue, Entries
<1>7. CASE Taken(batch)
  <2>1. /\ Len(piQueue) \in Nat /\ Len(piQueue') \in Nat
        /\ \A k \in Entries' : k + 1 \in Entries /\ piQueue'[k] = piQueue[k + 1]
    BY <1>7, TypeOKStep DEF Taken, Entries, TypeOK, PiTypes
  <2>2. \A i \in Inputs : \A k \in 0..Len(piQueue') : InQueue(i, k + 1) => i \in batch \/ InQueue(i, k)'
    <3> SUFFICES ASSUME NEW i \in Inputs, NEW k \in 0..Len(piQueue'), NEW m \in 1..(k + 1),
                        i \in piQueue[m], m # 1
                 PROVE  InQueue(i, k)'
      BY <1>7 DEF InQueue, Taken
    <3>1. m - 1 \in 1..k /\ m - 1 \in Entries' /\ piQueue'[m - 1] = piQueue[m]
      BY <1>7, <2>1 DEF Taken, Entries
    <3> QED BY <3>1 DEF InQueue
  <2>3. ScheduledKnown'
    BY <1>2, <1>3, <1>4, <1>7, <2>1, <2>2 DEF Taken, ScheduledKnown, TypeOK, PiTypes
  <2>4. QueueOrder'
    BY <1>3, <1>4, <2>1, <2>2 DEF QueueOrder, Ahead, Entries
  <2> QED BY <1>5, <2>3, <2>4
<1> QED BY <1>1, <1>6, <1>7 DEF Commits

\* Every step keeps the order.
LEMMA OrderStep ==
  ASSUME TypeOK, TerminalKnown, OneLiveRun, PiInv, OnceInv, OrderInv, [Next]_vars
  PROVE  OrderInv'
<1> USE DEF OrderInv
<1>1. CASE Clears
  <2>1. RanksBelow'
    BY <1>1 DEF Clears, Dequeues, RanksBelow, NextRank
  <2>2. CaptureOrder' /\ QueueOrder' /\ CaptureBehind'
    BY <1>1 DEF Clears, CaptureOrder, QueueOrder, CaptureBehind, Entries
  <2>3. ScheduledKnown'
    BY <1>1, KindAssumption DEF Clears, ScheduledKnown
  <2> QED BY <2>1, <2>2, <2>3
<1>2. CASE Keeps
  <2>1. UNCHANGED <<consumed, piQueue, scheduled, capture>>
    BY <1>2 DEF Keeps
  <2>2. ScheduledKnown'
    BY <1>2, <2>1, KindAssumption DEF Keeps, ScheduledKnown, InQueue
  <2>3. capture # {} \/ piQueue # <<>> => active' = active
    BY <1>2 DEF Keeps, PiInv, PiOpen, LivePhases, LeasedPhases, BoundaryPhases
  <2>4. ASSUME RanksBelow',
               \A i \in Inputs : \A j \in capture \cup UNION {piQueue[k] : k \in Entries} :
                 Ahead(i, j)' /\ state'[i] = "pending" => Ahead(i, j) /\ state[i] = "pending",
               \A i \in capture, j \in UNION {piQueue[k] : k \in Entries} : Ahead(i, j)' => Ahead(i, j)
        PROVE  OrderInv'
    <3>1. CaptureOrder'
      BY <2>1, <2>3, <2>4 DEF CaptureOrder, InQueue
    <3>2. QueueOrder'
      BY <2>1, <2>3, <2>4 DEF QueueOrder, InQueue, Entries, TypeOK, PiTypes
    <3>3. CaptureBehind'
      BY <2>1, <2>4 DEF CaptureBehind, Entries
    <3> QED BY <2>2, <2>4, <3>1, <3>2, <3>3
  <2>5. CASE Dequeues
    BY <2>4, <2>5 DEF Dequeues, Ahead, RanksBelow, NextRank
  <2>6. CASE Enqueues
    <3>1. PICK n \in Inputs : /\ Fresh(n)
                              /\ state' = [state EXCEPT ![n] = "pending"]
                              /\ rank' = [rank EXCEPT ![n] = NextRank]
      BY <2>6 DEF Enqueues, Enqueue
    <3>2. RanksBelow'
      BY <3>1, EnqueueRank
    <3>3. \A j \in capture \cup UNION {piQueue[k] : k \in Entries} : j \in Inputs /\ rank[j] # 0
      BY DEF OnceInv, CaptureUnread, QueueUnread, Unread, Entries, TypeOK, PiTypes
    <3>4. ASSUME NEW i \in Inputs, NEW j \in Inputs, rank[j] # 0, Ahead(i, j)'
          PROVE  i # n /\ Ahead(i, j)
      <4>1. j # n /\ rank'[j] = rank[j] /\ rank[j] < NextRank
        BY <3>1, <3>4 DEF Fresh, RanksBelow, TypeOK, RowTypes
      <4>2. i # n
        BY <3>1, <3>4, <4>1, NextRankPositive DEF Ahead, TypeOK, RowTypes
      <4> QED BY <3>1, <3>4, <4>1, <4>2 DEF Ahead, TypeOK, RowTypes
    <3>5. \A i \in Inputs : i # n => state'[i] = state[i]
      BY <3>1 DEF TypeOK, RowTypes
    <3> QED BY <2>4, <3>2, <3>3, <3>4, <3>5 DEF TypeOK, PiTypes
  <2> QED BY <1>2, <2>5, <2>6 DEF Keeps
<1>3. ASSUME NEW r \in Inputs, RejectCaptured(r) PROVE OrderInv'
  <2>1. PICK j \in capture : Save(j, "failed") /\ capture' = capture \ {j}
    BY <1>3 DEF RejectCaptured
  <2>2. UNCHANGED <<rank, piQueue, scheduled, consumed, active>>
    BY <1>3 DEF RejectCaptured
  <2>3. \A i \in Inputs : state'[i] = "pending" => state[i] = "pending" /\ i # j
    BY <2>1 DEF Save, TypeOK, RowTypes
  <2>4. active = r /\ pc[r] \in LivePhases
    BY <1>3, WorkerIsActive DEF Moves
  <2>5. RanksBelow' /\ ScheduledKnown'
    BY <2>2, <2>4 DEF RanksBelow, NextRank, ScheduledKnown, InQueue
  <2>6. CaptureOrder' /\ CaptureBehind'
    BY <2>1, <2>2, <2>3 DEF CaptureOrder, CaptureBehind, Ahead, InQueue, Entries
  <2>7. QueueOrder'
    BY <2>2, <2>3 DEF QueueOrder, Ahead, InQueue, Entries
  <2> QED BY <2>5, <2>6, <2>7
<1> QED
  BY <1>1, <1>2, <1>3, OpenOrder, CloseOrder, CommitOrder, StepKinds DEF Moves

\* The order, in every state.
LEMMA OrderInvAlways == Spec => []OrderInv
<1>1. Init => OrderInv
  <2> SUFFICES ASSUME Init PROVE OrderInv
    OBVIOUS
  <2>1. RanksBelow
    BY NextRankPositive DEF Init, RanksBelow
  <2> QED
    BY <2>1 DEF Init, OrderInv, ScheduledKnown, CaptureOrder, QueueOrder, CaptureBehind, Entries
<1>2. TypeOK /\ TerminalKnown /\ OneLiveRun /\ PiInv /\ OnceInv /\ OrderInv /\ [Next]_vars
      => OrderInv'
  BY OrderStep
<1> QED
  BY <1>1, <1>2, TypeCorrect, SingleExecution, PiInvAlways, OnceInvAlways, PTL DEF Spec

\* What one step may not do: read a steering message before an earlier one.
InOrder(i, j) ==
  /\ j \in consumed' \ consumed /\ starts[j] = 0
  /\ rank[i] # 0 /\ rank[i] < rank[j] /\ state[i] = "pending"
  => i \in consumed'

\* Only a commit reads messages, and it reads the first entry of the queue.
LEMMA InOrderStep ==
  ASSUME TypeOK, TerminalKnown, OneLiveRun, Unstarted, Started, ReceiptInv, OrderInv, [Next]_vars,
         NEW i \in Inputs \ (FollowUps \cup TurnScoped), NEW j \in Inputs
  PROVE  InOrder(i, j)
<1>1. CASE UNCHANGED consumed
  BY <1>1 DEF InOrder
<1>2. ASSUME NEW r \in Inputs, CommitInput(r) PROVE InOrder(i, j)
  <2> SUFFICES ASSUME j \in consumed' \ consumed, starts[j] = 0, Ahead(i, j), state[i] = "pending"
               PROVE  i \in consumed'
    BY DEF InOrder, Ahead
  <2>1. PICK batch \in SUBSET Inputs : Commits(r, batch)
    BY <1>2, CommitCommits
  <2>2. active = r /\ pc[r] \in LivePhases /\ starts[r] = 1
    BY <1>2, WorkerIsActive, LiveHasStarted DEF Moves, CommitInput
  <2>3. j \in batch
    BY <2>1, <2>2 DEF Commits
  <2>4. 1 \in Entries /\ batch = piQueue[1]
    BY <2>1, <2>3, TypeOKStep DEF Commits, Taken, Entries, TypeOK, PiTypes
  <2>5. i \in consumed \/ i = r \/ i \in batch
    BY <2>2, <2>3, <2>4 DEF OrderInv, QueueOrder, InQueue
  <2>6. r \in consumed'
    BY <2>1, <2>2 DEF Commits, ReceiptInv, PromptConsumed
  <2> QED BY <2>1, <2>5, <2>6 DEF Commits
<1>3. ASSUME NEW r \in Inputs, FinishCancel(r) PROVE InOrder(i, j)
  BY <1>1, <1>3 DEF FinishCancel
<1> QED BY <1>1, <1>2, <1>3, TranscriptWriters

\* A steering message is not read before an earlier one still pending: across
\* the turns, boundaries, stops and restarts of a session.
THEOREM SteersReadInOrder == Spec => SteersInOrder
<1> DEFINE Steers == \A i, j \in Inputs \ (FollowUps \cup TurnScoped) : InOrder(i, j)
<1>1. /\ TypeOK /\ TerminalKnown /\ OneLiveRun /\ Unstarted /\ Started /\ ReceiptInv /\ OrderInv
      /\ [Next]_vars
      => [Steers]_vars
  BY InOrderStep
<1>2. Spec => []Started
  BY SnapshotInvAlways, PTL DEF SnapshotInv
<1>3. Spec => [][Steers]_vars
  BY <1>1, <1>2, TypeCorrect, SingleExecution, StartsOnce, ReceiptInvAlways, OrderInvAlways, PTL
  DEF Spec
<1> QED BY <1>3 DEF SteersInOrder, InOrder

=============================================================================
