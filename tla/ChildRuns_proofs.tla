---------------------------- MODULE ChildRuns_proofs ----------------------------
(***************************************************************************)
(* Proofs about ChildRuns, for every set of runs and all limits.           *)
(***************************************************************************)
EXTENDS ChildRuns, FiniteSetTheorems, TLAPS

-----------------------------------------------------------------------------
(* The updates of the repository *)

\* Every UPDATE of the repository keeps the record of a run typed.
LEMMA MarkTypes ==
  ASSUME TypeOK, NEW r \in Runs
  PROVE  /\ {markRunning(r), markWrappingUp(r), markCancelling(r), markAwaitingSupervisor(r),
             markCompleted(r), markPartialCompleted(r), markCancelled(r),
             recoverInterrupted(r)} \subseteq Statuses
         /\ Outcomes(r) \subseteq Statuses
  BY DEF TypeOK, Statuses, Unsettled, Terminal, Deliverable, Mark, markRunning, markWrappingUp,
         markCancelling, markAwaitingSupervisor, markCompleted, markPartialCompleted,
         markCancelled, recoverInterrupted, Outcomes, markTimedOut, markInterrupted, markFailed

\* The record of every run, its activation and the permits it holds are well
\* typed, for any tree of runs and any limits.
THEOREM TypeCorrect == Spec => []TypeOK
<1>1. Init => TypeOK
  BY DEF Init, TypeOK, Statuses, Active
<1>2. TypeOK /\ [Next]_vars => TypeOK'
  <2> SUFFICES ASSUME TypeOK, [Next]_vars PROVE TypeOK'
    OBVIOUS
  <2> USE DEF TypeOK, Active
  <2>1. ASSUME NEW r \in Runs, Spawn(r) PROVE TypeOK'
    BY <2>1 DEF Spawn, Activate, SetStatus, Statuses, Unsettled, control
  <2>2. ASSUME NEW r \in Runs, Resume(r) PROVE TypeOK'
    BY <2>2 DEF Resume, Activate, SetStatus, Statuses, Unsettled, control
  <2>3. ASSUME NEW r \in Runs, ActivateQueuedInput(r) PROVE TypeOK'
    BY <2>3 DEF ActivateQueuedInput, Activate, SetStatus, Statuses, Unsettled, control
  <2>4. ASSUME NEW r \in Runs, FailToStart(r) PROVE TypeOK'
    BY <2>4, MarkTypes DEF FailToStart, SetStatus, GoTo, control
  <2>5. ASSUME NEW r \in Runs, Start(r) PROVE TypeOK'
    BY <2>5, MarkTypes DEF Start, SetStatus, GoTo
  <2>6. ASSUME NEW r \in Runs, DispatchReturns(r) PROVE TypeOK'
    BY <2>6 DEF DispatchReturns, GoTo, control, record
  <2>7. ASSUME NEW r \in Runs, Fail(r) PROVE TypeOK'
    BY <2>7 DEF Fail, GoTo, control, record
  <2>8. ASSUME NEW r \in Runs, SaveResult(r) PROVE TypeOK'
    BY <2>8, MarkTypes DEF SaveResult, SetStatus, GoTo, control
  <2>9. ASSUME NEW r \in Runs, SaveFailure(r) PROVE TypeOK'
    BY <2>9, MarkTypes DEF SaveFailure, SetStatus, GoTo, control
  <2>10. ASSUME NEW r \in Runs, Publish(r) PROVE TypeOK'
    BY <2>10 DEF Publish, Announce, GoTo, control
  <2>11. ASSUME NEW r \in Runs, Leave(r) PROVE TypeOK'
    BY <2>11 DEF Leave, Freed, GoTo, record
  <2>12. ASSUME NEW r \in Runs, Cancel(r) PROVE TypeOK'
    BY <2>12, MarkTypes DEF Cancel, Terminate, AbortAfter, SetStatus
  <2>13. ASSUME NEW r \in Runs, CancelWaiting(r) PROVE TypeOK'
    BY <2>13, MarkTypes DEF CancelWaiting, SetStatus, control
  <2>14. ASSUME NEW r \in Runs, Abort(r) PROVE TypeOK'
    BY <2>14 DEF Abort, record
  <2>15. ASSUME NEW r \in Runs, WrapUp(r) PROVE TypeOK'
    BY <2>15, MarkTypes DEF WrapUp, SetStatus
  <2>16. ASSUME NEW r \in Runs, HardDeadline(r) PROVE TypeOK'
    BY <2>16 DEF HardDeadline, record
  <2>17. ASSUME NEW r \in Runs, TimeOut(r) PROVE TypeOK'
    <3>1. CASE Terminate(r, "timeout")
      <4>1. status' \in [Runs -> Statuses] /\ termination' \in [Runs -> {"none", "cancel", "timeout"}]
        BY <3>1, MarkTypes DEF Terminate, SetStatus
      <4>2. stopping' \in [Runs -> BOOLEAN] /\ aborted' \in [Runs -> BOOLEAN]
        BY <3>1 DEF Terminate, AbortAfter
      <4>3. monitor' \in [Runs -> {"off", "soft", "wrap", "late", "stop"}]
        BY <2>17 DEF TimeOut
      <4>4. \A x \in Runs \ {r} : termination'[x] = termination[x] /\ stopping'[x] = stopping[x]
                                   /\ aborted'[x] = aborted[x] /\ monitor'[x] = monitor[x]
        BY <2>17, <3>1 DEF TimeOut, Terminate, AbortAfter
      <4> QED BY <2>17, <4>1, <4>2, <4>3, <4>4 DEF TimeOut
    <3>2. CASE ~Terminate(r, "timeout")
      BY <2>17, <3>2 DEF TimeOut
    <3> QED BY <3>1, <3>2
  <2>18. ASSUME NEW r \in Runs, Ask(r) PROVE TypeOK'
    BY <2>18 DEF Ask, record, control
  <2>19. ASSUME NEW r \in Runs, AwaitSupervisor(r) PROVE TypeOK'
    BY <2>19, MarkTypes DEF AwaitSupervisor, SetStatus, control
  <2>20. ASSUME Shutdown PROVE TypeOK'
    BY <2>20 DEF Shutdown, record, control
  <2>21. ASSUME Restart PROVE TypeOK'
    BY <2>21, MarkTypes DEF Restart, Replayed
  <2>22. ASSUME UNCHANGED vars PROVE TypeOK'
    BY <2>22 DEF vars, record, control
  <2> QED
    BY <2>1, <2>2, <2>3, <2>4, <2>5, <2>6, <2>7, <2>8, <2>9, <2>10, <2>11, <2>12, <2>13, <2>14,
       <2>15, <2>16, <2>17, <2>18, <2>19, <2>20, <2>21, <2>22 DEF Next
<1> QED BY <1>1, <1>2, PTL DEF Spec

-----------------------------------------------------------------------------
(* The life of an activation *)

Owed(r) == detached[r] /\ status[r] \in Deliverable

\* An activation that execute() still drives has no result; one whose
\* termination was accepted was marked in the same step; only the present
\* activation can still be announced, and only before execute() leaves.
Life(r) ==
  /\ Active(r) => status[r] # "none"
  /\ step[r] \in {"queue", "run", "save", "fail"} => status[r] \notin Terminal
  /\ termination[r] # "none" => status[r] \notin {"queued", "running", "wrapping_up"}
  /\ \A a \in announced[r] : a <= activation[r]
  /\ activation[r] \in announced[r] => Owed(r)
  /\ Owed(r) => activation[r] \in announced[r] \/ step[r] = "publish"

Lives == \A r \in Runs : Life(r)

\* What a termination writes is terminal, unless the UPDATE matches nothing.
LEMMA OutcomesEnd ==
  ASSUME NEW r \in Runs, NEW s \in Outcomes(r)
  PROVE  s \in Terminal \/ s = status[r]
  BY DEF Outcomes, Terminal, Deliverable, Unsettled, Mark, markCancelled, markTimedOut,
         markInterrupted, markFailed

\* The record of a run and its activation agree after every step.
LEMMA LivesKept ==
  ASSUME TypeOK, Lives, [Next]_vars
  PROVE  Lives'
<1> USE DEF TypeOK, Lives, Life, Owed, Active, Terminal, Deliverable, Statuses, Unsettled
<1>1. ASSUME NEW r \in Runs, Spawn(r) PROVE Lives'
  BY <1>1 DEF Spawn, Activate, SetStatus, control
<1>2. ASSUME NEW r \in Runs, Resume(r) PROVE Lives'
  BY <1>2 DEF Resume, Activate, SetStatus, control
<1>3. ASSUME NEW r \in Runs, ActivateQueuedInput(r) PROVE Lives'
  BY <1>3 DEF ActivateQueuedInput, Activate, SetStatus, control
<1>4. ASSUME NEW r \in Runs, FailToStart(r) PROVE Lives'
  BY <1>4, OutcomesEnd DEF FailToStart, SetStatus, GoTo, control
<1>5. ASSUME NEW r \in Runs, Start(r) PROVE Lives'
  BY <1>5 DEF Start, SetStatus, GoTo, markRunning, Mark
<1>6. ASSUME NEW r \in Runs, DispatchReturns(r) PROVE Lives'
  BY <1>6 DEF DispatchReturns, GoTo, control, record
<1>7. ASSUME NEW r \in Runs, Fail(r) PROVE Lives'
  BY <1>7 DEF Fail, GoTo, control, record
<1>8. ASSUME NEW r \in Runs, SaveResult(r) PROVE Lives'
  BY <1>8 DEF SaveResult, SetStatus, GoTo, control, markCompleted, markPartialCompleted, Mark
<1>9. ASSUME NEW r \in Runs, SaveFailure(r) PROVE Lives'
  BY <1>9, OutcomesEnd DEF SaveFailure, SetStatus, GoTo, control
<1>10. ASSUME NEW r \in Runs, Publish(r) PROVE Lives'
  BY <1>10 DEF Publish, Announce, GoTo, control
<1>11. ASSUME NEW r \in Runs, Leave(r) PROVE Lives'
  BY <1>11 DEF Leave, Freed, GoTo, record
<1>12. ASSUME NEW r \in Runs, Cancel(r) PROVE Lives'
  BY <1>12 DEF Cancel, Terminate, AbortAfter, SetStatus, markCancelling, Mark
<1>13. ASSUME NEW r \in Runs, CancelWaiting(r) PROVE Lives'
  BY <1>13 DEF CancelWaiting, SetStatus, control, markCancelled, Mark
<1>14. ASSUME NEW r \in Runs, Abort(r) PROVE Lives'
  BY <1>14 DEF Abort, record
<1>15. ASSUME NEW r \in Runs, WrapUp(r) PROVE Lives'
  BY <1>15 DEF WrapUp, SetStatus, markWrappingUp, Mark
<1>16. ASSUME NEW r \in Runs, HardDeadline(r) PROVE Lives'
  BY <1>16 DEF HardDeadline, record
<1>17. ASSUME NEW r \in Runs, TimeOut(r) PROVE Lives'
  BY <1>17 DEF TimeOut, Terminate, AbortAfter, SetStatus, markCancelling, Mark
<1>18. ASSUME NEW r \in Runs, Ask(r) PROVE Lives'
  BY <1>18 DEF Ask, record, control
<1>19. ASSUME NEW r \in Runs, AwaitSupervisor(r) PROVE Lives'
  BY <1>19 DEF AwaitSupervisor, SetStatus, control, markAwaitingSupervisor, Mark
<1>20. ASSUME Shutdown PROVE Lives'
  BY <1>20 DEF Shutdown, record, control
<1>21. ASSUME Restart PROVE Lives'
  BY <1>21 DEF Restart, Replayed, recoverInterrupted, Mark
<1>22. ASSUME UNCHANGED vars PROVE Lives'
  BY <1>22 DEF vars, record, control
<1> QED
  BY <1>1, <1>2, <1>3, <1>4, <1>5, <1>6, <1>7, <1>8, <1>9, <1>10, <1>11, <1>12, <1>13, <1>14, <1>15, <1>16,
     <1>17, <1>18, <1>19, <1>20, <1>21, <1>22 DEF Next

\* The record of a run and its activation always agree.
LEMMA LivesAlways == Spec => [](TypeOK /\ Lives)
<1>1. Init => Lives
  BY DEF Init, Lives, Life, Owed, Active, Terminal, Deliverable
<1>2. Lives /\ TypeOK /\ [Next]_vars => Lives'
  BY LivesKept
<1> QED BY <1>1, <1>2, TypeCorrect, PTL DEF Spec

\* The completion of a detached activation is in the outbox once execute()
\* has left, and only then is anything there: notifyCompletion with its
\* replay at start misses nothing and invents nothing.
THEOREM Announcements == Spec => []AnnouncedExactly
<1>1. Lives => AnnouncedExactly
  BY DEF Lives, Life, Owed, AnnouncedExactly, Active
<1> QED BY <1>1, LivesAlways, PTL

\* An activation whose termination was accepted never completes, whatever the
\* deadline monitor or the returning turn do at the same time.
THEOREM Uncancelled == Spec => CompletedUncancelled
<1> DEFINE Step(r) == status[r] # "completed" /\ status'[r] = "completed" => termination[r] = "none"
<1>1. ASSUME TypeOK, Lives, [Next]_vars, NEW x \in Runs PROVE Step(x)
  <2> SUFFICES ASSUME TypeOK, Lives, [Next]_vars, status[x] # "completed", status'[x] = "completed"
               PROVE  termination[x] = "none"
    BY <1>1
  <2>1. \E r \in Runs : SaveResult(r)
    <3> SUFFICES ASSUME \A r \in Runs : ~SaveResult(r) PROVE FALSE
      OBVIOUS
    <3> USE DEF TypeOK
    <3>1. ASSUME NEW r \in Runs, \/ Spawn(r) \/ Resume(r) \/ ActivateQueuedInput(r) PROVE FALSE
      BY <3>1 DEF Spawn, Resume, ActivateQueuedInput, Activate, SetStatus
    <3>2. ASSUME NEW r \in Runs, FailToStart(r) \/ SaveFailure(r) PROVE FALSE
      <4>1. PICK s \in Outcomes(r) : status' = [status EXCEPT ![r] = s]
        BY <3>2 DEF FailToStart, SaveFailure, SetStatus
      <4>2. s # "completed" \/ s = status[r]
        BY DEF Outcomes, Mark, markCancelled, markTimedOut, markInterrupted, markFailed
      <4> QED BY <4>1, <4>2
    <3>3. ASSUME NEW r \in Runs, Start(r) \/ WrapUp(r) \/ AwaitSupervisor(r) \/ CancelWaiting(r) PROVE FALSE
      BY <3>3 DEF Start, WrapUp, AwaitSupervisor, CancelWaiting, SetStatus, Mark, markRunning,
                  markWrappingUp, markAwaitingSupervisor, markCancelled
    <3>4. ASSUME NEW r \in Runs, Cancel(r) \/ TimeOut(r) PROVE FALSE
      BY <3>4 DEF Cancel, TimeOut, Terminate, SetStatus, Mark, markCancelling
    <3>5. ASSUME NEW r \in Runs, \/ DispatchReturns(r) \/ Fail(r) \/ Publish(r) \/ Leave(r) \/ Abort(r)
                                 \/ HardDeadline(r) \/ Ask(r) PROVE FALSE
      BY <3>5 DEF DispatchReturns, Fail, Publish, Leave, Abort, HardDeadline, Ask, record
    <3>6. ASSUME Shutdown \/ UNCHANGED vars PROVE FALSE
      BY <3>6 DEF Shutdown, vars, record
    <3>7. ASSUME Restart PROVE FALSE
      BY <3>7 DEF Restart, recoverInterrupted, Mark
    <3> QED BY <3>1, <3>2, <3>3, <3>4, <3>5, <3>6, <3>7 DEF Next
  <2>2. PICK r \in Runs : SaveResult(r)
    BY <2>1
  <2>3. r = x /\ status[x] \in {"running", "wrapping_up"}
    BY <2>2 DEF TypeOK, SaveResult, SetStatus, Mark, markCompleted, markPartialCompleted
  <2> QED BY <2>3 DEF Lives, Life
<1>2. TypeOK /\ Lives /\ [Next]_vars => [\A r \in Runs : Step(r)]_vars
  BY <1>1
<1> QED BY <1>2, LivesAlways, PTL DEF Spec, CompletedUncancelled

-----------------------------------------------------------------------------
(* Limits *)

Counted == {r \in Runs : ~Settled(r)}

\* The runs that are counted are finitely many.
LEMMA Finite ==
  ASSUME NEW S \in SUBSET Runs PROVE IsFiniteSet(S) /\ Cardinality(S) \in Nat
  BY RunAssumption, FS_Subset, FS_CardinalityType

\* An activation adds its own run to those that are counted; every other step
\* can only take runs away.
LEMMA CountedGrows ==
  ASSUME TypeOK, [Next]_vars
  PROVE  \/ Counted' \subseteq Counted
         \/ HasCapacity /\ \E r \in Runs : Counted' \subseteq Counted \cup {r}
<1> USE DEF TypeOK, Counted, Settled, Unsettled
<1>1. ASSUME NEW r \in Runs, Spawn(r) \/ Resume(r) \/ ActivateQueuedInput(r)
      PROVE HasCapacity /\ Counted' \subseteq Counted \cup {r}
  BY <1>1 DEF Spawn, Resume, ActivateQueuedInput, Activate, SetStatus
<1>2. ASSUME NEW r \in Runs, FailToStart(r) \/ SaveFailure(r) PROVE Counted' \subseteq Counted
  <2>1. PICK s \in Outcomes(r) : status' = [status EXCEPT ![r] = s]
    BY <1>2 DEF FailToStart, SaveFailure, SetStatus
  <2> QED BY <2>1, OutcomesEnd DEF Terminal, Deliverable
<1>3. ASSUME NEW r \in Runs, \/ Start(r) \/ WrapUp(r) \/ AwaitSupervisor(r) \/ CancelWaiting(r) \/ SaveResult(r)
      PROVE Counted' \subseteq Counted
  BY <1>3 DEF Start, WrapUp, AwaitSupervisor, CancelWaiting, SaveResult, SetStatus, Mark, markRunning,
              markWrappingUp, markAwaitingSupervisor, markCancelled, markCompleted, markPartialCompleted
<1>4. ASSUME NEW r \in Runs, Cancel(r) \/ TimeOut(r) PROVE Counted' \subseteq Counted
  BY <1>4 DEF Cancel, TimeOut, Terminate, SetStatus, Mark, markCancelling
<1>5. ASSUME NEW r \in Runs, \/ DispatchReturns(r) \/ Fail(r) \/ Publish(r) \/ Leave(r) \/ Abort(r)
                             \/ HardDeadline(r) \/ Ask(r) PROVE Counted' \subseteq Counted
  BY <1>5 DEF DispatchReturns, Fail, Publish, Leave, Abort, HardDeadline, Ask, record
<1>6. ASSUME Shutdown \/ UNCHANGED vars PROVE Counted' \subseteq Counted
  BY <1>6 DEF Shutdown, vars, record
<1>7. ASSUME Restart PROVE Counted' \subseteq Counted
  BY <1>7 DEF Restart, recoverInterrupted, Mark
<1> QED BY <1>1, <1>2, <1>3, <1>4, <1>5, <1>6, <1>7 DEF Next

\* A step gives a permit to at most one run, and only when the gate has
\* room.
LEMMA HoldersGrow ==
  ASSUME TypeOK, [Next]_vars
  PROVE  \/ Holders' \subseteq Holders
         \/ \E r \in Runs : CanAcquire(r) /\ Holders' \subseteq Holders \cup {r}
<1> USE DEF TypeOK, Holders
<1>1. ASSUME NEW r \in Runs, Start(r) PROVE CanAcquire(r) /\ Holders' \subseteq Holders \cup {r}
  BY <1>1 DEF Start
<1>2. ASSUME NEW r \in Runs, Leave(r) PROVE Holders' \subseteq Holders
  BY <1>2 DEF Leave, Freed
<1>3. ASSUME Restart PROVE Holders' \subseteq Holders
  BY <1>3 DEF Restart
<1>4. ASSUME permit' = permit PROVE Holders' \subseteq Holders
  BY <1>4
<1>5. permit' = permit \/ Restart \/ \E r \in Runs : Start(r) \/ Leave(r)
  BY DEF Next, vars, Spawn, Resume, ActivateQueuedInput, Activate, FailToStart, DispatchReturns, Fail,
         SaveResult, SaveFailure, Publish, Cancel, CancelWaiting, Abort, WrapUp, HardDeadline, TimeOut,
         Ask, AwaitSupervisor, Shutdown
<1> QED BY <1>1, <1>2, <1>3, <1>4, <1>5

\* A set of runs that gains at most one member while it is below a limit.
LEMMA OneMore ==
  ASSUME NEW S \in SUBSET Runs, NEW T \in SUBSET Runs, NEW r \in Runs, T \subseteq S \cup {r}
  PROVE  Cardinality(T) <= Cardinality(S) + 1
<1>1. IsFiniteSet(S) /\ Cardinality(S) \in Nat /\ Cardinality(T) \in Nat
  BY Finite
<1>2. /\ IsFiniteSet(S \cup {r})
      /\ Cardinality(S \cup {r}) = IF r \in S THEN Cardinality(S) ELSE Cardinality(S) + 1
  BY <1>1, FS_AddElement
<1>3. Cardinality(T) <= Cardinality(S \cup {r})
  BY <1>2, FS_Subset
<1>4. Cardinality(S \cup {r}) \in Nat
  BY <1>2, FS_CardinalityType
<1> QED BY <1>1, <1>2, <1>3, <1>4

\* Fewer runs are no more than the limit either.
LEMMA Fewer ==
  ASSUME NEW S \in SUBSET Runs, NEW T \in SUBSET Runs, T \subseteq S
  PROVE  Cardinality(T) <= Cardinality(S)
  BY Finite, FS_Subset

\* No step takes the tree or the gate over a limit, whatever is resumed.
THEOREM Limits == Spec => []WithinLimits
<1> DEFINE W(S) == S \cap Writers
<1>1. Init => WithinLimits
  <2> SUFFICES ASSUME Init PROVE WithinLimits
    OBVIOUS
  <2>1. Counted = {} /\ Holders = {} /\ W(Holders) = {}
    BY DEF Init, Counted, Holders, Settled, Unsettled
  <2> QED BY <2>1, FS_EmptySet, RunAssumption DEF WithinLimits, Counted
<1>2. TypeOK /\ WithinLimits /\ [Next]_vars => WithinLimits'
  <2> SUFFICES ASSUME TypeOK, WithinLimits, [Next]_vars PROVE WithinLimits'
    OBVIOUS
  <2>1. Counted \in SUBSET Runs /\ Counted' \in SUBSET Runs /\ Holders \in SUBSET Runs /\ Holders' \in SUBSET Runs
    BY DEF Counted, Holders
  <2>2. /\ Cardinality(Counted) \in Nat /\ Cardinality(Counted') \in Nat
        /\ Cardinality(Holders) \in Nat /\ Cardinality(Holders') \in Nat
        /\ Cardinality(W(Holders)) \in Nat /\ Cardinality(W(Holders')) \in Nat
        /\ W(Holders) \in SUBSET Runs /\ W(Holders') \in SUBSET Runs
    BY <2>1, Finite
  <2>3. Cardinality(Counted') <= MaxActivePerTree
    <3>1. CASE Counted' \subseteq Counted
      BY <3>1, <2>1, <2>2, Fewer, RunAssumption DEF WithinLimits, Counted
    <3>2. ASSUME HasCapacity, NEW r \in Runs, Counted' \subseteq Counted \cup {r}
          PROVE Cardinality(Counted') <= MaxActivePerTree
      <4>1. Cardinality(Counted') <= Cardinality(Counted) + 1
        BY <3>2, <2>1, OneMore
      <4>2. Cardinality(Counted) < MaxActivePerTree
        BY <3>2 DEF HasCapacity, RoomInTree, Counted
      <4> QED BY <4>1, <4>2, <2>2, RunAssumption
    <3> QED BY <3>1, <3>2, CountedGrows
  <2>4. Cardinality(Holders') <= MaxConcurrentRuns /\ Cardinality(W(Holders')) <= MaxConcurrentWriters
    <3>1. CASE Holders' \subseteq Holders
      <4>1. Cardinality(Holders') <= Cardinality(Holders) /\ Cardinality(W(Holders')) <= Cardinality(W(Holders))
        BY <3>1, <2>1, <2>2, Fewer
      <4> QED BY <4>1, <2>2, RunAssumption DEF WithinLimits
    <3>2. ASSUME NEW r \in Runs, CanAcquire(r), Holders' \subseteq Holders \cup {r}
          PROVE Cardinality(Holders') <= MaxConcurrentRuns /\ Cardinality(W(Holders')) <= MaxConcurrentWriters
      <4>1. Cardinality(Holders') <= Cardinality(Holders) + 1
        BY <3>2, <2>1, OneMore
      <4>2. CASE r \in Writers
        <5>1. Cardinality(W(Holders')) <= Cardinality(W(Holders)) + 1
          BY <3>2, <2>2, OneMore
        <5> QED BY <3>2, <4>1, <4>2, <5>1, <2>2, RunAssumption DEF CanAcquire
      <4>3. CASE r \notin Writers
        <5>1. Cardinality(W(Holders')) <= Cardinality(W(Holders))
          BY <3>2, <4>3, <2>2, Fewer
        <5> QED BY <3>2, <4>1, <5>1, <2>2, RunAssumption DEF CanAcquire, WithinLimits
      <4> QED BY <4>2, <4>3
    <3> QED BY <3>1, <3>2, HoldersGrow
  <2> QED BY <2>3, <2>4 DEF WithinLimits, Counted
<1> QED BY <1>1, <1>2, TypeCorrect, PTL DEF Spec
=============================================================================
