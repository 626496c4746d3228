------------------------- MODULE SessionInbox_proofs -------------------------
(***************************************************************************)
(* Theorems about SessionInbox for every set of request ids and every      *)
(* bound: type correctness, single execution, one start per request, and   *)
(* honest receipts.                                                        *)
(***************************************************************************)
EXTENDS SessionInbox, FiniteSetTheorems, TLAPS

USE DEF rows, store, model, process, maps, settlement, runs, pi, pumping, budgets

(***************************************************************************)
(* Type correctness.  A settling run writes its outcome into rows, so the  *)
(* inductive invariant also says that this outcome is known by then.       *)
(***************************************************************************)
TerminalKnown ==
  \A r \in Inputs : pc[r] \in {"committed", "uncommitted", "settling"} => terminal[r] # "none"

\* Arrival numbers are naturals because only finitely many ids exist.
LEMMA NextRankType == NextRank \in Nat
<1> DEFINE Ranked == {i \in Inputs : rank[i] # 0}
<1>1. IsFiniteSet(Ranked)
  BY KindAssumption, FS_Subset
<1>2. Cardinality(Ranked) \in Nat
  BY <1>1, FS_CardinalityType
<1> QED BY <1>2 DEF NextRank

\* A turn starts with an empty Pi queue of the right type.
LEMMA EmptyQueue == <<>> \in Seq(SUBSET Inputs)
OBVIOUS

\* The types hold when a new process opens an empty session.
LEMMA TypeOKInit == Init => TypeOK
<1> SUFFICES ASSUME Init PROVE TypeOK
  OBVIOUS
<1>1. RowTypes BY DEF Init, RowTypes, InputStates
<1>2. ModelTypes /\ MapTypes /\ BudgetTypes BY DEF Init, ModelTypes, MapTypes, BudgetTypes
<1>3. RunTypes BY DEF Init, RunTypes, RunPhases
<1>4. PiTypes BY EmptyQueue DEF Init, PiTypes
<1>5. PumpTypes BY DEF Init, PumpTypes
<1> QED BY <1>1, <1>2, <1>3, <1>4, <1>5 DEF TypeOK

\* The phases that the actions assign are phases of a run.
LEMMA PhaseTypes ==
  /\ LivePhases \subseteq RunPhases /\ EndedPhases \subseteq RunPhases
  /\ BoundaryPhases \subseteq LivePhases
  /\ {"preparing", "start", "input", "observe", "model", "turn_end", "before_settle",
      "draining", "returning"} \subseteq RunPhases
  /\ {"committed", "uncommitted", "settling", "done"} \subseteq RunPhases
BY DEF LivePhases, EndedPhases, RunPhases, BoundaryPhases, LeasedPhases

\* What Pi takes from a non-empty queue, and what it leaves.
LEMMA HeadTail ==
  ASSUME NEW S, NEW q \in Seq(S), q # <<>>
  PROVE  Head(q) \in S /\ Tail(q) \in Seq(S)
OBVIOUS

\* Saving the first stale copy, or none, keeps rows and copies typed.
LEMMA SettleFirstTypes ==
  ASSUME RowTypes, RunTypes, NEW r \in Inputs, terminal[r] # "none",
         NEW listed \in SUBSET (Inputs \X SUBSET Inputs), SettleFirst(r, listed)
  PROVE  /\ state' \in [Inputs -> InputStates]
         /\ parent' \in [Inputs -> Inputs \cup {None}]
         /\ wire' \in [Inputs -> SUBSET Inputs]
         /\ settles' \in [Inputs -> SUBSET (Inputs \X SUBSET Inputs)]
<1>1. CASE listed = {} /\ settles' = [settles EXCEPT ![r] = {}] /\ UNCHANGED <<state, parent, wire>>
  BY <1>1 DEF RowTypes, RunTypes
<1>2. ASSUME NEW row \in FirstCopies(listed),
             Save(row[1], terminal[r]),
             parent' = [parent EXCEPT ![row[1]] = r],
             wire' = [wire EXCEPT ![row[1]] = row[2]],
             settles' = [settles EXCEPT ![r] = listed \ {row}]
      PROVE  /\ state' \in [Inputs -> InputStates]
             /\ parent' \in [Inputs -> Inputs \cup {None}]
             /\ wire' \in [Inputs -> SUBSET Inputs]
             /\ settles' \in [Inputs -> SUBSET (Inputs \X SUBSET Inputs)]
  <2>1. row \in Inputs \X SUBSET Inputs
    BY <1>2 DEF FirstCopies
  <2>2. row[1] \in Inputs /\ row[2] \in SUBSET Inputs
    BY <2>1
  <2>3. terminal[r] \in InputStates
    BY DEF RunTypes, Outcomes, InputStates
  <2>4. state' \in [Inputs -> InputStates]
    BY <1>2, <2>2, <2>3 DEF RowTypes, Save
  <2>5. parent' \in [Inputs -> Inputs \cup {None}] /\ wire' \in [Inputs -> SUBSET Inputs]
    BY <1>2, <2>2 DEF RowTypes
  <2>6. settles' \in [Inputs -> SUBSET (Inputs \X SUBSET Inputs)]
    BY <1>2 DEF RunTypes
  <2> QED BY <2>4, <2>5, <2>6
<1> QED BY <1>1, <1>2 DEF SettleFirst

\* Client and host requests keep every variable in its type.
LEMMA ClientTypeOK ==
  ASSUME TypeOK, NEW i \in Inputs, ClientStep(i)
  PROVE  TypeOK'
<1> USE DEF TypeOK
<1>1. CASE AcceptTurn(i)
  <2>1. ModelTypes' /\ PumpTypes' /\ BudgetTypes'
    BY <1>1 DEF AcceptTurn, StartTurn, ModelTypes, PumpTypes, BudgetTypes
  <2>2. RowTypes'
    BY <1>1 DEF AcceptTurn, StartTurn, RowTypes
  <2>3. MapTypes'
    BY <1>1 DEF AcceptTurn, StartTurn, MapTypes
  <2>4. RunTypes'
    BY <1>1, PhaseTypes DEF AcceptTurn, StartTurn, RunTypes
  <2>5. PiTypes'
    BY <1>1, EmptyQueue DEF AcceptTurn, StartTurn, PiTypes
  <2> QED BY <2>1, <2>2, <2>3, <2>4, <2>5
<1>2. CASE AcceptSupplement(i)
  <2>1. ModelTypes' /\ MapTypes' /\ RunTypes' /\ PiTypes' /\ BudgetTypes'
    BY <1>2 DEF AcceptSupplement, Enqueue, ModelTypes, MapTypes, RunTypes, PiTypes, BudgetTypes
  <2>2. RowTypes'
    BY <1>2, NextRankType DEF AcceptSupplement, AcceptsSupplement, Enqueue, RowTypes, MapTypes,
                             InputStates
  <2>3. PumpTypes'
    BY <1>2 DEF AcceptSupplement, Enqueue, PumpTypes
  <2> QED BY <2>1, <2>2, <2>3
<1>3. CASE AcceptDeferred(i)
  <2>1. ModelTypes' /\ MapTypes' /\ RunTypes' /\ PiTypes' /\ BudgetTypes'
    BY <1>3 DEF AcceptDeferred, Enqueue, ModelTypes, MapTypes, RunTypes, PiTypes, BudgetTypes
  <2>2. RowTypes'
    BY <1>3, NextRankType DEF AcceptDeferred, Enqueue, RowTypes, InputStates
  <2>3. PumpTypes'
    BY <1>3 DEF AcceptDeferred, Enqueue, PumpTypes
  <2> QED BY <2>1, <2>2, <2>3
<1>4. CASE AcceptHostInput(i)
  <2>1. ModelTypes' /\ MapTypes' /\ RunTypes' /\ PiTypes' /\ BudgetTypes'
    BY <1>4 DEF AcceptHostInput, Enqueue, ModelTypes, MapTypes, RunTypes, PiTypes, BudgetTypes
  <2>2. RowTypes'
    BY <1>4, NextRankType DEF AcceptHostInput, Enqueue, RowTypes, InputStates
  <2>3. PumpTypes'
    BY <1>4 DEF AcceptHostInput, Enqueue, PumpTypes
  <2> QED BY <2>1, <2>2, <2>3
<1>5. CASE WithdrawHostInput(i)
  <2>1. ModelTypes' /\ MapTypes' /\ RunTypes' /\ PiTypes' /\ PumpTypes' /\ BudgetTypes'
    BY <1>5
       DEF WithdrawHostInput, Save, ModelTypes, MapTypes, RunTypes, PiTypes, PumpTypes, BudgetTypes
  <2>2. RowTypes'
    BY <1>5 DEF WithdrawHostInput, Save, RowTypes, InputStates
  <2> QED BY <2>1, <2>2
<1> QED BY <1>1, <1>2, <1>3, <1>4, <1>5 DEF ClientStep

\* So do the steps of a turn.
LEMMA TurnTypeOK ==
  ASSUME TypeOK, NEW r \in Inputs, TurnStep(r)
  PROVE  TypeOK'
<1> USE DEF TypeOK
<1>1. CASE Lease(r)
  <2>1. RowTypes' /\ ModelTypes' /\ MapTypes' /\ PiTypes' /\ PumpTypes' /\ BudgetTypes'
    BY <1>1 DEF Lease, RowTypes, ModelTypes, MapTypes, PiTypes, PumpTypes, BudgetTypes
  <2>2. RunTypes'
    BY <1>1, PhaseTypes DEF Lease, RunTypes
  <2> QED BY <2>1, <2>2
<1>2. CASE OpenBoundary(r)
  <2>1. ModelTypes' /\ MapTypes' /\ PumpTypes' /\ BudgetTypes'
    BY <1>2 DEF OpenBoundary, ModelTypes, MapTypes, PumpTypes, BudgetTypes
  <2>2. RowTypes'
    BY <1>2 DEF OpenBoundary, RowTypes, Acknowledge, InputStates
  <2>3. RunTypes'
    BY <1>2, PhaseTypes DEF OpenBoundary, RunTypes, AfterBoundary
  <2>4. PiTypes'
    BY <1>2 DEF OpenBoundary, PiTypes, RowTypes, Eligible
  <2> QED BY <2>1, <2>2, <2>3, <2>4
<1>3. CASE CloseBoundary(r)
  <2>1. ModelTypes' /\ MapTypes' /\ PumpTypes' /\ BudgetTypes'
    BY <1>3 DEF CloseBoundary, ModelTypes, MapTypes, PumpTypes, BudgetTypes
  <2>2. RowTypes'
    BY <1>3 DEF CloseBoundary, RowTypes, PiTypes, InputStates, Prefixes
  <2>3. RunTypes'
    BY <1>3, PhaseTypes DEF CloseBoundary, RunTypes, AfterBoundary
  <2>4. PiTypes'
    BY <1>3 DEF CloseBoundary, PiTypes, Prefixes
  <2> QED BY <2>1, <2>2, <2>3, <2>4
<1>4. CASE RejectCaptured(r)
  <2>1. ModelTypes' /\ MapTypes' /\ PumpTypes'
    BY <1>4 DEF RejectCaptured, ModelTypes, MapTypes, PumpTypes
  <2>2. RowTypes'
    BY <1>4 DEF RejectCaptured, RowTypes, PiTypes, Save, InputStates
  <2>3. RunTypes'
    BY <1>4, PhaseTypes DEF RejectCaptured, RunTypes, AfterBoundary
  <2>4. PiTypes'
    BY <1>4 DEF RejectCaptured, PiTypes
  <2>5. BudgetTypes'
    BY <1>4 DEF RejectCaptured, BudgetTypes
  <2> QED BY <2>1, <2>2, <2>3, <2>4, <2>5
<1>5. CASE CommitInput(r)
  <2>1. RowTypes' /\ MapTypes' /\ PumpTypes' /\ BudgetTypes'
    BY <1>5 DEF CommitInput, RowTypes, MapTypes, PumpTypes, BudgetTypes
  <2>2. ModelTypes'
    <3>1. PICK take \in BOOLEAN :
            /\ take => piQueue # <<>>
            /\ LET batch == IF take THEN Head(piQueue) ELSE {}
                   added == batch \cup (IF prompted THEN {} ELSE {r})
               IN /\ transcript' = IF take THEN transcript \cup {batch} ELSE transcript
                  /\ piQueue' = IF take THEN Tail(piQueue) ELSE piQueue
                  /\ copies' = [i \in Inputs |-> IF i \in added THEN copies[i] + 1 ELSE copies[i]]
                  /\ consumed' = consumed \cup added
      BY <1>5 DEF CommitInput
    <3>2. take => Head(piQueue) \in SUBSET Inputs
      BY <3>1, HeadTail DEF PiTypes
    <3> QED BY <3>1, <3>2 DEF ModelTypes
  <2>3. RunTypes'
    BY <1>5, PhaseTypes DEF CommitInput, RunTypes
  <2>4. PiTypes'
    <3>1. piQueue' = piQueue \/ (piQueue # <<>> /\ piQueue' = Tail(piQueue))
      BY <1>5 DEF CommitInput
    <3>2. piQueue' \in Seq(SUBSET Inputs)
      BY <3>1, HeadTail DEF PiTypes
    <3> QED BY <1>5, <3>2 DEF CommitInput, PiTypes
  <2> QED BY <2>1, <2>2, <2>3, <2>4
<1>6. CASE Observe(r)
  <2>1. ModelTypes' /\ MapTypes' /\ PiTypes' /\ PumpTypes' /\ BudgetTypes'
    BY <1>6 DEF Observe, ModelTypes, MapTypes, PiTypes, PumpTypes, BudgetTypes
  <2>2. RowTypes'
    BY <1>6 DEF Observe, RowTypes, Acknowledge, InputStates
  <2>3. RunTypes'
    BY <1>6, PhaseTypes DEF Observe, RunTypes
  <2> QED BY <2>1, <2>2, <2>3
<1>7. CASE ModelTurn(r)
  <2>1. RowTypes' /\ ModelTypes' /\ MapTypes' /\ PiTypes' /\ PumpTypes' /\ BudgetTypes'
    BY <1>7 DEF ModelTurn, RowTypes, ModelTypes, MapTypes, PiTypes, PumpTypes, BudgetTypes
  <2>2. RunTypes'
    BY <1>7, PhaseTypes DEF ModelTurn, RunTypes
  <2> QED BY <2>1, <2>2
<1>8. CASE Return(r)
  <2>1. RowTypes' /\ ModelTypes' /\ MapTypes' /\ PiTypes' /\ PumpTypes' /\ BudgetTypes'
    BY <1>8 DEF Return, RowTypes, ModelTypes, MapTypes, PiTypes, PumpTypes, BudgetTypes
  <2>2. RunTypes'
    BY <1>8, PhaseTypes DEF Return, RunTypes
  <2> QED BY <2>1, <2>2
<1> QED BY <1>1, <1>2, <1>3, <1>4, <1>5, <1>6, <1>7, <1>8 DEF TurnStep

\* So do the steps that end a run, once its outcome is known.
LEMMA EndTypeOK ==
  ASSUME TypeOK, TerminalKnown, NEW r \in Inputs, EndStep(r)
  PROVE  TypeOK'
<1> USE DEF TypeOK
<1>1. CASE RunCompletes(r)
  <2>1. ModelTypes' /\ PumpTypes' /\ BudgetTypes'
    BY <1>1 DEF RunCompletes, CommitTerminal, ModelTypes, PumpTypes, BudgetTypes
  <2>2. RowTypes'
    BY <1>1 DEF RunCompletes, CommitTerminal, RowTypes, Outcomes
  <2>3. MapTypes'
    BY <1>1 DEF RunCompletes, CommitTerminal, MapTypes
  <2>4. RunTypes'
    BY <1>1, PhaseTypes DEF RunCompletes, CommitTerminal, RunTypes, Outcomes
  <2>5. PiTypes'
    BY <1>1, EmptyQueue DEF RunCompletes, CommitTerminal, PiTypes
  <2> QED BY <2>1, <2>2, <2>3, <2>4, <2>5
<1>2. CASE RunCancelled(r)
  <2>1. ModelTypes' /\ PumpTypes' /\ BudgetTypes'
    BY <1>2 DEF RunCancelled, CommitTerminal, ModelTypes, PumpTypes, BudgetTypes
  <2>2. RowTypes'
    BY <1>2 DEF RunCancelled, CommitTerminal, RowTypes, Outcomes
  <2>3. MapTypes'
    BY <1>2 DEF RunCancelled, CommitTerminal, MapTypes
  <2>4. RunTypes'
    BY <1>2, PhaseTypes DEF RunCancelled, CommitTerminal, RunTypes, Outcomes
  <2>5. PiTypes'
    BY <1>2, EmptyQueue DEF RunCancelled, CommitTerminal, PiTypes
  <2> QED BY <2>1, <2>2, <2>3, <2>4, <2>5
<1>3. CASE RunFails(r)
  <2>1. ModelTypes' /\ PumpTypes'
    BY <1>3 DEF RunFails, CommitTerminal, ModelTypes, PumpTypes
  <2>2. RowTypes'
    BY <1>3 DEF RunFails, CommitTerminal, RowTypes, Outcomes
  <2>3. MapTypes'
    BY <1>3 DEF RunFails, CommitTerminal, MapTypes
  <2>4. RunTypes'
    BY <1>3, PhaseTypes DEF RunFails, CommitTerminal, RunTypes, Outcomes
  <2>5. PiTypes'
    BY <1>3, EmptyQueue DEF RunFails, CommitTerminal, PiTypes
  <2>6. BudgetTypes'
    BY <1>3 DEF RunFails, CommitTerminal, BudgetTypes
  <2> QED BY <2>1, <2>2, <2>3, <2>4, <2>5, <2>6
<1>4. CASE CompletionRefused(r)
  <2>1. ModelTypes' /\ PumpTypes'
    BY <1>4 DEF CompletionRefused, CommitTerminal, ModelTypes, PumpTypes
  <2>2. RowTypes'
    BY <1>4 DEF CompletionRefused, CommitTerminal, RowTypes, Outcomes
  <2>3. MapTypes'
    BY <1>4 DEF CompletionRefused, CommitTerminal, MapTypes
  <2>4. RunTypes'
    BY <1>4, PhaseTypes DEF CompletionRefused, CommitTerminal, RunTypes, Outcomes
  <2>5. PiTypes'
    BY <1>4, EmptyQueue DEF CompletionRefused, CommitTerminal, PiTypes
  <2>6. BudgetTypes'
    BY <1>4 DEF CompletionRefused, CommitTerminal, BudgetTypes
  <2> QED BY <2>1, <2>2, <2>3, <2>4, <2>5, <2>6
<1>5. CASE CommitLost(r)
  <2>1. RowTypes' /\ ModelTypes' /\ MapTypes' /\ PumpTypes'
    BY <1>5 DEF CommitLost, RowTypes, ModelTypes, MapTypes, PumpTypes
  <2>2. RunTypes'
    BY <1>5, PhaseTypes DEF CommitLost, RunTypes, Outcomes
  <2>3. PiTypes'
    BY <1>5, EmptyQueue DEF CommitLost, PiTypes
  <2>4. BudgetTypes'
    BY <1>5 DEF CommitLost, BudgetTypes
  <2> QED BY <2>1, <2>2, <2>3, <2>4
<1>6. CASE OpenSettlement(r)
  <2>1. ModelTypes' /\ MapTypes' /\ PiTypes' /\ PumpTypes' /\ BudgetTypes'
    BY <1>6 DEF OpenSettlement, SettleFirst, ModelTypes, MapTypes, PiTypes, PumpTypes, BudgetTypes
  <2>2. Copies(Unsettled(r)) \in SUBSET (Inputs \X SUBSET Inputs)
    BY DEF Copies, Unsettled, Listed, RowTypes
  <2>3. SettleFirst(r, Copies(Unsettled(r))) /\ terminal[r] # "none"
    BY <1>6 DEF OpenSettlement, TerminalKnown
  <2>4. RowTypes' /\ settles' \in [Inputs -> SUBSET (Inputs \X SUBSET Inputs)]
    BY <1>6, <2>2, <2>3, SettleFirstTypes DEF OpenSettlement, RowTypes
  <2>5. RunTypes'
    BY <1>6, <2>4, PhaseTypes DEF OpenSettlement, RunTypes
  <2> QED BY <2>1, <2>4, <2>5
<1>7. CASE SettleNext(r)
  <2>1. ModelTypes' /\ MapTypes' /\ PiTypes' /\ PumpTypes' /\ BudgetTypes'
    BY <1>7 DEF SettleNext, SettleFirst, ModelTypes, MapTypes, PiTypes, PumpTypes, BudgetTypes
  <2>2. SettleFirst(r, settles[r]) /\ terminal[r] # "none"
    BY <1>7 DEF SettleNext, TerminalKnown
  <2>3. settles[r] \in SUBSET (Inputs \X SUBSET Inputs)
    BY DEF RunTypes
  <2>4. RowTypes' /\ settles' \in [Inputs -> SUBSET (Inputs \X SUBSET Inputs)]
    BY <1>7, <2>2, <2>3, SettleFirstTypes DEF SettleNext, RowTypes
  <2>5. RunTypes'
    BY <1>7, <2>4 DEF SettleNext, RunTypes
  <2> QED BY <2>1, <2>4, <2>5
<1>8. CASE Finalize(r)
  <2>1. ModelTypes' /\ PiTypes' /\ BudgetTypes'
    BY <1>8 DEF Finalize, ModelTypes, PiTypes, BudgetTypes
  <2>2. RowTypes'
    BY <1>8 DEF Finalize, RowTypes, Outcomes
  <2>3. MapTypes'
    BY <1>8 DEF Finalize, MapTypes
  <2>4. RunTypes'
    BY <1>8, PhaseTypes DEF Finalize, RunTypes
  <2>5. PumpTypes'
    BY <1>8 DEF Finalize, PumpTypes, WakesPump
  <2> QED BY <2>1, <2>2, <2>3, <2>4, <2>5
<1> QED BY <1>1, <1>2, <1>3, <1>4, <1>5, <1>6, <1>7, <1>8 DEF EndStep

\* The recovery pump keeps every variable in its type.
LEMMA PumpTypeOK ==
  ASSUME TypeOK, PumpStep
  PROVE  TypeOK'
<1> USE DEF TypeOK
<1>1. CASE Resume
  <2>1. RowTypes' /\ ModelTypes' /\ MapTypes' /\ RunTypes' /\ PiTypes' /\ BudgetTypes'
    BY <1>1 DEF Resume, RowTypes, ModelTypes, MapTypes, RunTypes, PiTypes, BudgetTypes
  <2>2. PumpTypes'
    BY <1>1 DEF Resume, PumpTypes, InFlight, MapTypes
  <2> QED BY <2>1, <2>2
<1>2. CASE PumpInspect
  <2>1. RowTypes' /\ ModelTypes' /\ MapTypes' /\ RunTypes' /\ PiTypes' /\ BudgetTypes'
    BY <1>2 DEF PumpInspect, RowTypes, ModelTypes, MapTypes, RunTypes, PiTypes, BudgetTypes
  <2>2. PumpTypes'
    BY <1>2 DEF PumpInspect, PumpTypes, PumpRest, FoundConsumed, Listed, MapTypes
  <2> QED BY <2>1, <2>2
<1>3. CASE PumpActivate
  <2>1. ModelTypes' /\ BudgetTypes'
    BY <1>3 DEF PumpActivate, PumpRest, StartTurn, ModelTypes, BudgetTypes
  <2>2. Reconciled \in [Inputs -> InputStates] /\ Earliest(Wakeable) \subseteq Inputs
    BY DEF Reconciled, Inherited, Outcomes, InputStates, RowTypes, Earliest, Wakeable
  <2>3. \A next \in Inputs : [Reconciled EXCEPT ![next] = "failed"] \in [Inputs -> InputStates]
    BY <2>2 DEF InputStates
  <2>4. /\ \/ state' = Reconciled
           \/ \E next \in Inputs : state' = [Reconciled EXCEPT ![next] = "failed"]
        /\ \/ UNCHANGED parent
           \/ \E next \in Inputs : parent' = [parent EXCEPT ![next] = next]
        /\ \/ UNCHANGED <<snapshot, starts>>
           \/ \E next \in Inputs : /\ snapshot' = [snapshot EXCEPT ![next] = "running"]
                                   /\ starts' = [starts EXCEPT ![next] = @ + 1]
        /\ UNCHANGED <<wire, rank>>
    BY <1>3, <2>2 DEF PumpActivate, StartTurn
  <2>5. RowTypes'
    BY <2>2, <2>3, <2>4 DEF RowTypes
  <2>6. MapTypes'
    BY <1>3, <2>2 DEF PumpActivate, PumpRest, StartTurn, MapTypes
  <2>7. RunTypes'
    BY <1>3, <2>2, PhaseTypes DEF PumpActivate, PumpRest, StartTurn, RunTypes
  <2>8. PiTypes'
    BY <1>3, <2>2, EmptyQueue DEF PumpActivate, PumpRest, StartTurn, PiTypes
  <2>9. PumpTypes'
    BY <1>3, <2>2 DEF PumpActivate, PumpRest, StartTurn, PumpTypes
  <2> QED BY <2>1, <2>5, <2>6, <2>7, <2>8, <2>9
<1>4. CASE PumpStops
  <2>1. RowTypes' /\ ModelTypes' /\ MapTypes' /\ RunTypes' /\ PiTypes' /\ BudgetTypes'
    BY <1>4 DEF PumpStops, RowTypes, ModelTypes, MapTypes, RunTypes, PiTypes, BudgetTypes
  <2>2. PumpTypes'
    BY <1>4 DEF PumpStops, PumpTypes, PumpRest
  <2> QED BY <2>1, <2>2
<1>5. CASE PumpRefused
  <2>1. ModelTypes' /\ MapTypes' /\ RunTypes' /\ PiTypes'
    BY <1>5 DEF PumpRefused, ModelTypes, MapTypes, RunTypes, PiTypes
  <2>2. RowTypes'
    BY <1>5
       DEF PumpRefused, RowTypes, Reconciled, Inherited, Outcomes, InputStates, Earliest, Wakeable
  <2>3. PumpTypes'
    BY <1>5 DEF PumpRefused, PumpTypes, PumpRest
  <2>4. BudgetTypes'
    BY <1>5 DEF PumpRefused, BudgetTypes
  <2> QED BY <2>1, <2>2, <2>3, <2>4
<1>6. CASE PumpContinue
  <2>1. ModelTypes' /\ MapTypes' /\ RunTypes' /\ PiTypes' /\ BudgetTypes'
    BY <1>6 DEF PumpContinue, ModelTypes, MapTypes, RunTypes, PiTypes, BudgetTypes
  <2>2. RowTypes'
    BY <1>6 DEF PumpContinue, RowTypes, Save, InputStates
  <2>3. PumpTypes'
    BY <1>6 DEF PumpContinue, PumpTypes, PumpRest, InFlight, MapTypes
  <2> QED BY <2>1, <2>2, <2>3
<1> QED BY <1>1, <1>2, <1>3, <1>4, <1>5, <1>6 DEF PumpStep

\* So do the steps that stop a run.
LEMMA StopTypeOK ==
  ASSUME TypeOK,
         (\E r \in Inputs : FinishCancel(r)) \/ UserCancel \/ CancelTimeout \/ StopRuns
  PROVE  TypeOK'
<1> USE DEF TypeOK
<1>1. CASE \E r \in Inputs : FinishCancel(r)
  <2>1. RowTypes' /\ PiTypes' /\ PumpTypes' /\ BudgetTypes'
    BY <1>1 DEF FinishCancel, RowTypes, PiTypes, PumpTypes, BudgetTypes
  <2>2. ModelTypes'
    BY <1>1 DEF FinishCancel, ModelTypes
  <2>3. MapTypes'
    BY <1>1 DEF FinishCancel, MapTypes
  <2>4. RunTypes'
    BY <1>1 DEF FinishCancel, RunTypes
  <2> QED BY <2>1, <2>2, <2>3, <2>4
<1>2. CASE UserCancel
  <2>1. ModelTypes' /\ PiTypes' /\ PumpTypes' /\ BudgetTypes'
    BY <1>2 DEF UserCancel, Stop, ModelTypes, PiTypes, PumpTypes, BudgetTypes
  <2>2. RowTypes'
    BY <1>2 DEF UserCancel, Stop, RowTypes, Outcomes
  <2>3. MapTypes'
    BY <1>2 DEF UserCancel, Stop, MapTypes
  <2>4. RunTypes'
    BY <1>2 DEF UserCancel, Stop, RunTypes, MapTypes
  <2> QED BY <2>1, <2>2, <2>3, <2>4
<1>3. CASE CancelTimeout
  <2>1. RowTypes' /\ ModelTypes' /\ RunTypes' /\ PiTypes' /\ PumpTypes' /\ BudgetTypes'
    BY <1>3 DEF CancelTimeout, RowTypes, ModelTypes, RunTypes, PiTypes, PumpTypes, BudgetTypes
  <2>2. MapTypes'
    BY <1>3 DEF CancelTimeout, MapTypes
  <2> QED BY <2>1, <2>2
<1>4. CASE StopRuns
  <2>1. ModelTypes' /\ MapTypes' /\ PiTypes' /\ PumpTypes' /\ BudgetTypes'
    BY <1>4 DEF StopRuns, Stop, ModelTypes, MapTypes, PiTypes, PumpTypes, BudgetTypes
  <2>2. RowTypes'
    BY <1>4 DEF StopRuns, Stop, RowTypes, Outcomes
  <2>3. RunTypes'
    BY <1>4 DEF StopRuns, Stop, RunTypes, MapTypes
  <2> QED BY <2>1, <2>2, <2>3
<1> QED BY <1>1, <1>2, <1>3, <1>4

\* So do shutdown, crash and restart.
LEMMA ProcessTypeOK ==
  ASSUME TypeOK, BeginShutdown \/ Crash \/ Restart
  PROVE  TypeOK'
<1> USE DEF TypeOK
<1>1. CASE BeginShutdown
  <2>1. RowTypes' /\ ModelTypes' /\ RunTypes' /\ PiTypes' /\ PumpTypes' /\ BudgetTypes'
    BY <1>1 DEF BeginShutdown, RowTypes, ModelTypes, RunTypes, PiTypes, PumpTypes, BudgetTypes
  <2>2. MapTypes'
    BY <1>1 DEF BeginShutdown, MapTypes
  <2> QED BY <2>1, <2>2
<1>2. CASE Crash
  <2>1. RowTypes' /\ ModelTypes'
    BY <1>2 DEF Crash, ForgetMemory, PumpRest, RowTypes, ModelTypes
  <2>2. MapTypes'
    BY <1>2 DEF Crash, ForgetMemory, PumpRest, MapTypes
  <2>3. RunTypes'
    BY <1>2 DEF Crash, ForgetMemory, PumpRest, RunTypes, RunPhases
  <2>4. PiTypes'
    BY <1>2, EmptyQueue DEF Crash, ForgetMemory, PumpRest, PiTypes
  <2>5. PumpTypes'
    BY <1>2 DEF Crash, ForgetMemory, PumpRest, PumpTypes
  <2>6. BudgetTypes'
    BY <1>2 DEF Crash, ForgetMemory, PumpRest, BudgetTypes
  <2> QED BY <2>1, <2>2, <2>3, <2>4, <2>5, <2>6
<1>3. CASE Restart
  <2>1. ModelTypes' /\ RunTypes' /\ PiTypes' /\ BudgetTypes'
    BY <1>3 DEF Restart, ModelTypes, RunTypes, PiTypes, BudgetTypes
  <2>2. RowTypes'
    BY <1>3 DEF Restart, RowTypes, ReconciledSnapshot, Outcomes
  <2>3. MapTypes'
    BY <1>3 DEF Restart, MapTypes
  <2>4. PumpTypes'
    BY <1>3 DEF Restart, PumpTypes
  <2> QED BY <2>1, <2>2, <2>3, <2>4
<1> QED BY <1>1, <1>2, <1>3

\* A boundary leads to user input, to the last boundary, or to the end.
LEMMA NextPhases ==
  \A phase, queue : AfterBoundary(phase, queue) \subseteq {"input", "before_settle", "draining"}
BY DEF AfterBoundary

\* A run leaves its live phases only with an outcome.
LEMMA TerminalKnownStep ==
  ASSUME TypeOK, TerminalKnown, [Next]_vars
  PROVE  TerminalKnown'
<1>1. ASSUME NEW i \in Inputs, AcceptTurn(i) PROVE TerminalKnown'
  BY <1>1 DEF AcceptTurn, StartTurn, TerminalKnown, TypeOK, RunTypes
<1>2. ASSUME NEW i \in Inputs, AcceptSupplement(i) PROVE TerminalKnown'
  BY <1>2 DEF AcceptSupplement, TerminalKnown
<1>3. ASSUME NEW i \in Inputs, AcceptDeferred(i) PROVE TerminalKnown'
  BY <1>3 DEF AcceptDeferred, TerminalKnown
<1>4. ASSUME NEW i \in Inputs, AcceptHostInput(i) PROVE TerminalKnown'
  BY <1>4 DEF AcceptHostInput, TerminalKnown
<1>5. ASSUME NEW i \in Inputs, WithdrawHostInput(i) PROVE TerminalKnown'
  BY <1>5 DEF WithdrawHostInput, TerminalKnown
<1>6. ASSUME NEW i \in Inputs, Lease(i) PROVE TerminalKnown'
  BY <1>6 DEF Lease, TerminalKnown, TypeOK, RunTypes
<1>7. ASSUME NEW i \in Inputs, OpenBoundary(i) PROVE TerminalKnown'
  BY <1>7, NextPhases DEF OpenBoundary, TerminalKnown, TypeOK, RunTypes
<1>8. ASSUME NEW i \in Inputs, CloseBoundary(i) PROVE TerminalKnown'
  BY <1>8, NextPhases DEF CloseBoundary, TerminalKnown, TypeOK, RunTypes
<1>9. ASSUME NEW i \in Inputs, RejectCaptured(i) PROVE TerminalKnown'
  BY <1>9, NextPhases DEF RejectCaptured, TerminalKnown, TypeOK, RunTypes
<1>10. ASSUME NEW i \in Inputs, CommitInput(i) PROVE TerminalKnown'
  BY <1>10 DEF CommitInput, TerminalKnown, TypeOK, RunTypes
<1>11. ASSUME NEW i \in Inputs, Observe(i) PROVE TerminalKnown'
  BY <1>11 DEF Observe, TerminalKnown, TypeOK, RunTypes
<1>12. ASSUME NEW i \in Inputs, ModelTurn(i) PROVE TerminalKnown'
  BY <1>12 DEF ModelTurn, TerminalKnown, TypeOK, RunTypes
<1>13. ASSUME NEW i \in Inputs, Return(i) PROVE TerminalKnown'
  BY <1>13 DEF Return, TerminalKnown, TypeOK, RunTypes
<1>14. ASSUME NEW i \in Inputs, RunCompletes(i) PROVE TerminalKnown'
  BY <1>14 DEF RunCompletes, CommitTerminal, TerminalKnown, TypeOK, RunTypes, Outcomes
<1>15. ASSUME NEW i \in Inputs, RunCancelled(i) PROVE TerminalKnown'
  BY <1>15 DEF RunCancelled, CommitTerminal, TerminalKnown, TypeOK, RunTypes, Outcomes
<1>16. ASSUME NEW i \in Inputs, RunFails(i) PROVE TerminalKnown'
  BY <1>16 DEF RunFails, CommitTerminal, TerminalKnown, TypeOK, RunTypes, Outcomes
<1>17. ASSUME NEW i \in Inputs, CompletionRefused(i) PROVE TerminalKnown'
  BY <1>17 DEF CompletionRefused, CommitTerminal, TerminalKnown, TypeOK, RunTypes, Outcomes
<1>18. ASSUME NEW i \in Inputs, CommitLost(i) PROVE TerminalKnown'
  BY <1>18 DEF CommitLost, TerminalKnown, TypeOK, RunTypes, Outcomes
<1>19. ASSUME NEW i \in Inputs, OpenSettlement(i) PROVE TerminalKnown'
  BY <1>19 DEF OpenSettlement, TerminalKnown, TypeOK, RunTypes, Outcomes
<1>20. ASSUME NEW i \in Inputs, SettleNext(i) PROVE TerminalKnown'
  BY <1>20 DEF SettleNext, TerminalKnown, TypeOK, RunTypes, Outcomes
<1>21. ASSUME NEW i \in Inputs, Finalize(i) PROVE TerminalKnown'
  BY <1>21 DEF Finalize, TerminalKnown, TypeOK, RunTypes, Outcomes
<1>22. ASSUME NEW i \in Inputs, FinishCancel(i) PROVE TerminalKnown'
  BY <1>22 DEF FinishCancel, TerminalKnown
<1>23. CASE Resume
  BY <1>23 DEF Resume, TerminalKnown
<1>24. CASE PumpInspect
  BY <1>24 DEF PumpInspect, PumpRest, TerminalKnown
<1>25. CASE PumpActivate
  BY <1>25 DEF PumpActivate, StartTurn, PumpRest, TerminalKnown, TypeOK, RunTypes
<1>26. CASE PumpStops
  BY <1>26 DEF PumpStops, PumpRest, TerminalKnown
<1>27. CASE PumpRefused
  BY <1>27 DEF PumpRefused, PumpRest, TerminalKnown
<1>28. CASE PumpContinue
  BY <1>28 DEF PumpContinue, PumpRest, TerminalKnown
<1>29. CASE UserCancel
  BY <1>29 DEF UserCancel, Stop, TerminalKnown
<1>30. CASE CancelTimeout
  BY <1>30 DEF CancelTimeout, TerminalKnown
<1>31. CASE BeginShutdown
  BY <1>31 DEF BeginShutdown, TerminalKnown
<1>32. CASE StopRuns
  BY <1>32 DEF StopRuns, Stop, TerminalKnown
<1>33. CASE Crash
  BY <1>33 DEF Crash, ForgetMemory, PumpRest, TerminalKnown
<1>34. CASE Restart
  BY <1>34 DEF Restart, TerminalKnown
<1>35. CASE UNCHANGED vars
  BY <1>35 DEF vars, TerminalKnown
<1> QED
  BY <1>1, <1>2, <1>3, <1>4, <1>5, <1>6, <1>7, <1>8, <1>9, <1>10, <1>11, <1>12, <1>13, <1>14,
     <1>15, <1>16, <1>17, <1>18, <1>19, <1>20, <1>21, <1>22, <1>23, <1>24, <1>25, <1>26, <1>27,
     <1>28, <1>29, <1>30, <1>31, <1>32, <1>33, <1>34, <1>35
  DEF Next, ClientStep, TurnStep, EndStep, PumpStep

\* Every step preserves the types: the cases of Next, one lemma per actor.
LEMMA TypeOKStep ==
  ASSUME TypeOK, TerminalKnown, [Next]_vars
  PROVE  TypeOK'
<1>1. CASE UNCHANGED vars
  BY <1>1
     DEF vars, TypeOK, RowTypes, ModelTypes, MapTypes, RunTypes, PiTypes, PumpTypes, BudgetTypes
<1>2. ASSUME NEW i \in Inputs, ClientStep(i) \/ TurnStep(i) \/ EndStep(i) \/ FinishCancel(i)
      PROVE  TypeOK'
  BY <1>2, ClientTypeOK, TurnTypeOK, EndTypeOK, StopTypeOK
<1>3. ASSUME \/ UserCancel \/ CancelTimeout \/ StopRuns \/ PumpStep
             \/ BeginShutdown \/ Crash \/ Restart
      PROVE  TypeOK'
  BY <1>3, StopTypeOK, PumpTypeOK, ProcessTypeOK
<1> QED
  BY <1>1, <1>2, <1>3 DEF Next

\* Every variable keeps its type, whatever the set of request ids and the
\* number of failures and restarts: rows, runs and queues of the session only
\* ever hold the states the code gives them.
THEOREM TypeCorrect == Spec => [](TypeOK /\ TerminalKnown)
<1>1. Init => TypeOK /\ TerminalKnown
  BY TypeOKInit DEF Init, TerminalKnown
<1>2. TypeOK /\ TerminalKnown /\ [Next]_vars => (TypeOK /\ TerminalKnown)'
  BY TypeOKStep, TerminalKnownStep
<1> QED
  BY <1>1, <1>2, PTL DEF Spec

-----------------------------------------------------------------------------
(***************************************************************************)
(* One live run.  What makes it inductive is admission: while the pump     *)
(* holds the lease and reads the transcript, nobody else starts a turn.    *)
(***************************************************************************)
InspectsIdle == pump = "inspect" => active = None

\* No step lets a second run live.
LEMMA OneLiveRunStep ==
  ASSUME TypeOK, OneLiveRun, InspectsIdle, [Next]_vars
  PROVE  (OneLiveRun /\ InspectsIdle)'
<1>1. ASSUME NEW i \in Inputs, AcceptTurn(i) PROVE (OneLiveRun /\ InspectsIdle)'
  BY <1>1, KindAssumption
     DEF AcceptTurn, StartTurn, OneLiveRun, InspectsIdle, TypeOK, RunTypes, AdmissionFree,
         RunInFlight
<1>2. ASSUME NEW i \in Inputs, AcceptSupplement(i) PROVE (OneLiveRun /\ InspectsIdle)'
  BY <1>2 DEF AcceptSupplement, OneLiveRun, InspectsIdle
<1>3. ASSUME NEW i \in Inputs, AcceptDeferred(i) PROVE (OneLiveRun /\ InspectsIdle)'
  BY <1>3 DEF AcceptDeferred, OneLiveRun, InspectsIdle
<1>4. ASSUME NEW i \in Inputs, AcceptHostInput(i) PROVE (OneLiveRun /\ InspectsIdle)'
  BY <1>4 DEF AcceptHostInput, OneLiveRun, InspectsIdle
<1>5. ASSUME NEW i \in Inputs, WithdrawHostInput(i) PROVE (OneLiveRun /\ InspectsIdle)'
  BY <1>5 DEF WithdrawHostInput, OneLiveRun, InspectsIdle
<1>6. ASSUME NEW i \in Inputs, Lease(i) PROVE (OneLiveRun /\ InspectsIdle)'
  BY <1>6
     DEF Lease, OneLiveRun, InspectsIdle, TypeOK, RunTypes, LivePhases, LeasedPhases, BoundaryPhases
<1>7. ASSUME NEW i \in Inputs, OpenBoundary(i) PROVE (OneLiveRun /\ InspectsIdle)'
  BY <1>7, NextPhases
     DEF OpenBoundary, OneLiveRun, InspectsIdle, TypeOK, RunTypes, LivePhases, LeasedPhases,
         BoundaryPhases
<1>8. ASSUME NEW i \in Inputs, CloseBoundary(i) PROVE (OneLiveRun /\ InspectsIdle)'
  BY <1>8, NextPhases
     DEF CloseBoundary, OneLiveRun, InspectsIdle, TypeOK, RunTypes, LivePhases, LeasedPhases,
         BoundaryPhases
<1>9. ASSUME NEW i \in Inputs, RejectCaptured(i) PROVE (OneLiveRun /\ InspectsIdle)'
  BY <1>9, NextPhases
     DEF RejectCaptured, OneLiveRun, InspectsIdle, TypeOK, RunTypes, LivePhases, LeasedPhases,
         BoundaryPhases
<1>10. ASSUME NEW i \in Inputs, CommitInput(i) PROVE (OneLiveRun /\ InspectsIdle)'
  BY <1>10
     DEF CommitInput, OneLiveRun, InspectsIdle, TypeOK, RunTypes, LivePhases, LeasedPhases,
         BoundaryPhases
<1>11. ASSUME NEW i \in Inputs, Observe(i) PROVE (OneLiveRun /\ InspectsIdle)'
  BY <1>11
     DEF Observe, OneLiveRun, InspectsIdle, TypeOK, RunTypes, LivePhases, LeasedPhases,
         BoundaryPhases
<1>12. ASSUME NEW i \in Inputs, ModelTurn(i) PROVE (OneLiveRun /\ InspectsIdle)'
  BY <1>12
     DEF ModelTurn, OneLiveRun, InspectsIdle, TypeOK, RunTypes, LivePhases, LeasedPhases,
         BoundaryPhases
<1>13. ASSUME NEW i \in Inputs, Return(i) PROVE (OneLiveRun /\ InspectsIdle)'
  BY <1>13
     DEF Return, OneLiveRun, InspectsIdle, TypeOK, RunTypes, LivePhases, LeasedPhases,
         BoundaryPhases
<1>14. ASSUME NEW i \in Inputs, RunCompletes(i) PROVE (OneLiveRun /\ InspectsIdle)'
  BY <1>14
     DEF RunCompletes, CommitTerminal, OneLiveRun, InspectsIdle, TypeOK, RunTypes, LivePhases,
         LeasedPhases, BoundaryPhases
<1>15. ASSUME NEW i \in Inputs, RunCancelled(i) PROVE (OneLiveRun /\ InspectsIdle)'
  BY <1>15
     DEF RunCancelled, CommitTerminal, OneLiveRun, InspectsIdle, TypeOK, RunTypes, LivePhases,
         LeasedPhases, BoundaryPhases, AbortablePhases
<1>16. ASSUME NEW i \in Inputs, RunFails(i) PROVE (OneLiveRun /\ InspectsIdle)'
  BY <1>16
     DEF RunFails, CommitTerminal, OneLiveRun, InspectsIdle, TypeOK, RunTypes, LivePhases,
         LeasedPhases, BoundaryPhases
<1>17. ASSUME NEW i \in Inputs, CompletionRefused(i) PROVE (OneLiveRun /\ InspectsIdle)'
  BY <1>17
     DEF CompletionRefused, CommitTerminal, OneLiveRun, InspectsIdle, TypeOK, RunTypes,
         LivePhases, LeasedPhases, BoundaryPhases
<1>18. ASSUME NEW i \in Inputs, CommitLost(i) PROVE (OneLiveRun /\ InspectsIdle)'
  BY <1>18
     DEF CommitLost, OneLiveRun, InspectsIdle, TypeOK, RunTypes, LivePhases, LeasedPhases,
         BoundaryPhases
<1>19. ASSUME NEW i \in Inputs, OpenSettlement(i) PROVE (OneLiveRun /\ InspectsIdle)'
  BY <1>19
     DEF OpenSettlement, OneLiveRun, InspectsIdle, TypeOK, RunTypes, LivePhases, LeasedPhases,
         BoundaryPhases
<1>20. ASSUME NEW i \in Inputs, SettleNext(i) PROVE (OneLiveRun /\ InspectsIdle)'
  BY <1>20
     DEF SettleNext, OneLiveRun, InspectsIdle, TypeOK, RunTypes, LivePhases, LeasedPhases,
         BoundaryPhases
<1>21. ASSUME NEW i \in Inputs, Finalize(i) PROVE (OneLiveRun /\ InspectsIdle)'
  BY <1>21
     DEF Finalize, OneLiveRun, InspectsIdle, TypeOK, RunTypes, LivePhases, LeasedPhases,
         BoundaryPhases
<1>22. ASSUME NEW i \in Inputs, FinishCancel(i) PROVE (OneLiveRun /\ InspectsIdle)'
  BY <1>22 DEF FinishCancel, OneLiveRun, InspectsIdle
<1>23. CASE Resume
  BY <1>23 DEF Resume, OneLiveRun, InspectsIdle
<1>24. CASE PumpInspect
  BY <1>24 DEF PumpInspect, PumpRest, OneLiveRun, InspectsIdle
<1>25. CASE PumpActivate
  BY <1>25, KindAssumption
     DEF PumpActivate, StartTurn, PumpRest, OneLiveRun, InspectsIdle, TypeOK, RunTypes, Earliest,
         Wakeable
<1>26. CASE PumpStops
  BY <1>26 DEF PumpStops, PumpRest, OneLiveRun, InspectsIdle
<1>27. CASE PumpRefused
  BY <1>27 DEF PumpRefused, PumpRest, OneLiveRun, InspectsIdle
<1>28. CASE PumpContinue
  BY <1>28 DEF PumpContinue, PumpRest, OneLiveRun, InspectsIdle
<1>29. CASE UserCancel
  BY <1>29 DEF UserCancel, Stop, OneLiveRun, InspectsIdle
<1>30. CASE CancelTimeout
  BY <1>30 DEF CancelTimeout, OneLiveRun, InspectsIdle
<1>31. CASE BeginShutdown
  BY <1>31 DEF BeginShutdown, OneLiveRun, InspectsIdle
<1>32. CASE StopRuns
  BY <1>32 DEF StopRuns, Stop, OneLiveRun, InspectsIdle
<1>33. CASE Crash
  BY <1>33
     DEF Crash, ForgetMemory, PumpRest, OneLiveRun, InspectsIdle, LivePhases, LeasedPhases,
         BoundaryPhases
<1>34. CASE Restart
  BY <1>34 DEF Restart, OneLiveRun, InspectsIdle
<1>35. CASE UNCHANGED vars
  BY <1>35 DEF vars, OneLiveRun, InspectsIdle
<1> QED
  BY <1>1, <1>2, <1>3, <1>4, <1>5, <1>6, <1>7, <1>8, <1>9, <1>10, <1>11, <1>12, <1>13, <1>14,
     <1>15, <1>16, <1>17, <1>18, <1>19, <1>20, <1>21, <1>22, <1>23, <1>24, <1>25, <1>26, <1>27,
     <1>28, <1>29, <1>30, <1>31, <1>32, <1>33, <1>34, <1>35
  DEF Next, ClientStep, TurnStep, EndStep, PumpStep

\* One session never executes two turns at a time, for any number of clients,
\* cancellations, lost commits, recoveries and restarts.
THEOREM SingleExecution == Spec => []OneLiveRun
<1>1. Init => OneLiveRun /\ InspectsIdle
  BY DEF Init, OneLiveRun, InspectsIdle, LivePhases, LeasedPhases, BoundaryPhases
<1>2. TypeOK /\ OneLiveRun /\ InspectsIdle /\ [Next]_vars => (OneLiveRun /\ InspectsIdle)'
  BY OneLiveRunStep
<1> QED
  BY <1>1, <1>2, TypeCorrect, PTL DEF Spec

-----------------------------------------------------------------------------
(***************************************************************************)
(* One start per request.  A snapshot, once written, stays; so a request   *)
(* without one was never started, and only such a request is.              *)
(***************************************************************************)
Unstarted == \A i \in Inputs : snapshot[i] = "none" => starts[i] = 0 /\ pc[i] = "none"

\* The pump starts a turn only for a request without a snapshot.
LEMMA PumpStarts ==
  ASSUME PumpActivate
  PROVE  \/ UNCHANGED <<snapshot, starts, pc>>
         \/ \E next \in Inputs : ~Replays(next) /\ StartTurn(next, FALSE)
BY DEF PumpActivate, Earliest, Wakeable

\* No step starts a request that has a snapshot.
LEMMA StartedOnceStep ==
  ASSUME TypeOK, StartedOnce, Unstarted, [Next]_vars
  PROVE  (StartedOnce /\ Unstarted)'
<1>1. ASSUME NEW i \in Inputs, AcceptTurn(i) PROVE (StartedOnce /\ Unstarted)'
  BY <1>1 DEF AcceptTurn, StartTurn, StartedOnce, Unstarted, TypeOK, RowTypes, RunTypes, Fresh
<1>2. ASSUME NEW i \in Inputs, AcceptSupplement(i) PROVE (StartedOnce /\ Unstarted)'
  BY <1>2 DEF AcceptSupplement, StartedOnce, Unstarted
<1>3. ASSUME NEW i \in Inputs, AcceptDeferred(i) PROVE (StartedOnce /\ Unstarted)'
  BY <1>3 DEF AcceptDeferred, StartedOnce, Unstarted
<1>4. ASSUME NEW i \in Inputs, AcceptHostInput(i) PROVE (StartedOnce /\ Unstarted)'
  BY <1>4 DEF AcceptHostInput, StartedOnce, Unstarted
<1>5. ASSUME NEW i \in Inputs, WithdrawHostInput(i) PROVE (StartedOnce /\ Unstarted)'
  BY <1>5 DEF WithdrawHostInput, StartedOnce, Unstarted
<1>6. ASSUME NEW i \in Inputs, Lease(i) PROVE (StartedOnce /\ Unstarted)'
  BY <1>6
     DEF Lease, StartedOnce, Unstarted, TypeOK, RowTypes, RunTypes, LivePhases, LeasedPhases,
         BoundaryPhases
<1>7. ASSUME NEW i \in Inputs, OpenBoundary(i) PROVE (StartedOnce /\ Unstarted)'
  BY <1>7
     DEF OpenBoundary, StartedOnce, Unstarted, TypeOK, RowTypes, RunTypes, LivePhases,
         LeasedPhases, BoundaryPhases
<1>8. ASSUME NEW i \in Inputs, CloseBoundary(i) PROVE (StartedOnce /\ Unstarted)'
  BY <1>8
     DEF CloseBoundary, StartedOnce, Unstarted, TypeOK, RowTypes, RunTypes, LivePhases,
         LeasedPhases, BoundaryPhases
<1>9. ASSUME NEW i \in Inputs, RejectCaptured(i) PROVE (StartedOnce /\ Unstarted)'
  BY <1>9
     DEF RejectCaptured, StartedOnce, Unstarted, TypeOK, RowTypes, RunTypes, LivePhases,
         LeasedPhases, BoundaryPhases
<1>10. ASSUME NEW i \in Inputs, CommitInput(i) PROVE (StartedOnce /\ Unstarted)'
  BY <1>10
     DEF CommitInput, StartedOnce, Unstarted, TypeOK, RowTypes, RunTypes, LivePhases,
         LeasedPhases, BoundaryPhases
<1>11. ASSUME NEW i \in Inputs, Observe(i) PROVE (StartedOnce /\ Unstarted)'
  BY <1>11
     DEF Observe, StartedOnce, Unstarted, TypeOK, RowTypes, RunTypes, LivePhases, LeasedPhases,
         BoundaryPhases
<1>12. ASSUME NEW i \in Inputs, ModelTurn(i) PROVE (StartedOnce /\ Unstarted)'
  BY <1>12
     DEF ModelTurn, StartedOnce, Unstarted, TypeOK, RowTypes, RunTypes, LivePhases, LeasedPhases,
         BoundaryPhases
<1>13. ASSUME NEW i \in Inputs, Return(i) PROVE (StartedOnce /\ Unstarted)'
  BY <1>13
     DEF Return, StartedOnce, Unstarted, TypeOK, RowTypes, RunTypes, LivePhases, LeasedPhases,
         BoundaryPhases
<1>14. ASSUME NEW i \in Inputs, RunCompletes(i) PROVE (StartedOnce /\ Unstarted)'
  BY <1>14
     DEF RunCompletes, CommitTerminal, StartedOnce, Unstarted, TypeOK, RowTypes, RunTypes,
         LivePhases, LeasedPhases, BoundaryPhases
<1>15. ASSUME NEW i \in Inputs, RunCancelled(i) PROVE (StartedOnce /\ Unstarted)'
  BY <1>15
     DEF RunCancelled, CommitTerminal, StartedOnce, Unstarted, TypeOK, RowTypes, RunTypes,
         LivePhases, LeasedPhases, BoundaryPhases, AbortablePhases
<1>16. ASSUME NEW i \in Inputs, RunFails(i) PROVE (StartedOnce /\ Unstarted)'
  BY <1>16
     DEF RunFails, CommitTerminal, StartedOnce, Unstarted, TypeOK, RowTypes, RunTypes, LivePhases,
         LeasedPhases, BoundaryPhases
<1>17. ASSUME NEW i \in Inputs, CompletionRefused(i) PROVE (StartedOnce /\ Unstarted)'
  BY <1>17
     DEF CompletionRefused, CommitTerminal, StartedOnce, Unstarted, TypeOK, RowTypes, RunTypes,
         LivePhases, LeasedPhases, BoundaryPhases
<1>18. ASSUME NEW i \in Inputs, CommitLost(i) PROVE (StartedOnce /\ Unstarted)'
  BY <1>18
     DEF CommitLost, StartedOnce, Unstarted, TypeOK, RowTypes, RunTypes, LivePhases, LeasedPhases,
         BoundaryPhases
<1>19. ASSUME NEW i \in Inputs, OpenSettlement(i) PROVE (StartedOnce /\ Unstarted)'
  BY <1>19
     DEF OpenSettlement, StartedOnce, Unstarted, TypeOK, RowTypes, RunTypes, LivePhases,
         LeasedPhases, BoundaryPhases
<1>20. ASSUME NEW i \in Inputs, SettleNext(i) PROVE (StartedOnce /\ Unstarted)'
  BY <1>20
     DEF SettleNext, StartedOnce, Unstarted, TypeOK, RowTypes, RunTypes, LivePhases, LeasedPhases,
         BoundaryPhases
<1>21. ASSUME NEW i \in Inputs, Finalize(i) PROVE (StartedOnce /\ Unstarted)'
  BY <1>21
     DEF Finalize, StartedOnce, Unstarted, TypeOK, RowTypes, RunTypes, LivePhases, LeasedPhases,
         BoundaryPhases
<1>22. ASSUME NEW i \in Inputs, FinishCancel(i) PROVE (StartedOnce /\ Unstarted)'
  BY <1>22 DEF FinishCancel, StartedOnce, Unstarted
<1>23. CASE Resume
  BY <1>23 DEF Resume, StartedOnce, Unstarted
<1>24. CASE PumpInspect
  BY <1>24 DEF PumpInspect, PumpRest, StartedOnce, Unstarted
<1>25. CASE PumpActivate
  <2>1. CASE UNCHANGED <<snapshot, starts, pc>>
    BY <2>1 DEF StartedOnce, Unstarted
  <2>2. ASSUME NEW next \in Inputs, ~Replays(next), StartTurn(next, FALSE)
        PROVE  (StartedOnce /\ Unstarted)'
    <3>1. snapshot' = [snapshot EXCEPT ![next] = "running"] /\ pc' = [pc EXCEPT ![next] = "preparing"]
      BY <2>2 DEF StartTurn
    <3>2. starts' = [starts EXCEPT ![next] = @ + 1] /\ starts[next] = 0
      BY <2>2 DEF StartTurn, Replays, Unstarted
    <3> QED BY <3>1, <3>2 DEF StartedOnce, Unstarted, TypeOK, RowTypes, RunTypes
  <2> QED BY <1>25, <2>1, <2>2, PumpStarts
<1>26. CASE PumpStops
  BY <1>26 DEF PumpStops, PumpRest, StartedOnce, Unstarted
<1>27. CASE PumpRefused
  BY <1>27 DEF PumpRefused, PumpRest, StartedOnce, Unstarted
<1>28. CASE PumpContinue
  BY <1>28 DEF PumpContinue, PumpRest, StartedOnce, Unstarted
<1>29. CASE UserCancel
  BY <1>29 DEF UserCancel, Stop, StartedOnce, Unstarted, TypeOK, RowTypes, RunTypes, MapTypes
<1>30. CASE CancelTimeout
  BY <1>30 DEF CancelTimeout, StartedOnce, Unstarted
<1>31. CASE BeginShutdown
  BY <1>31 DEF BeginShutdown, StartedOnce, Unstarted
<1>32. CASE StopRuns
  BY <1>32 DEF StopRuns, Stop, StartedOnce, Unstarted, TypeOK, RowTypes, RunTypes, MapTypes
<1>33. CASE Crash
  BY <1>33 DEF Crash, ForgetMemory, PumpRest, StartedOnce, Unstarted, TypeOK, RowTypes, RunTypes
<1>34. CASE Restart
  BY <1>34 DEF Restart, StartedOnce, Unstarted, TypeOK, RowTypes, RunTypes, ReconciledSnapshot
<1>35. CASE UNCHANGED vars
  BY <1>35 DEF vars, StartedOnce, Unstarted
<1> QED
  BY <1>1, <1>2, <1>3, <1>4, <1>5, <1>6, <1>7, <1>8, <1>9, <1>10, <1>11, <1>12, <1>13, <1>14,
     <1>15, <1>16, <1>17, <1>18, <1>19, <1>20, <1>21, <1>22, <1>23, <1>24, <1>25, <1>26, <1>27,
     <1>28, <1>29, <1>30, <1>31, <1>32, <1>33, <1>34, <1>35
  DEF Next, ClientStep, TurnStep, EndStep, PumpStep

\* No crash, retry or recovery starts the turn of one request id twice.
THEOREM StartsOnce == Spec => [](StartedOnce /\ Unstarted)
<1>1. Init => StartedOnce /\ Unstarted
  BY DEF Init, StartedOnce, Unstarted
<1>2. TypeOK /\ StartedOnce /\ Unstarted /\ [Next]_vars => (StartedOnce /\ Unstarted)'
  BY StartedOnceStep
<1> QED
  BY <1>1, <1>2, TypeCorrect, PTL DEF Spec

-----------------------------------------------------------------------------
(***************************************************************************)
(* Honest receipts.  The claim that a receipt stands only for an input Pi  *)
(* took is carried by every place a receipt is derived from: the wire      *)
(* batch of a row names the row, the transcript holds consumed inputs, the *)
(* pump's reading and the copies of a settling run are consumed or         *)
(* cancelled, and a prompted run has consumed its own input.               *)
(***************************************************************************)
WireNamesOwner == \A i \in Inputs : wire[i] # {} => i \in wire[i]
TranscriptConsumed == \A B \in transcript : B \subseteq consumed
PumpReadConsumed == pumpRead \subseteq consumed
PromptConsumed ==
  \A r \in Inputs : (pc[r] \in LivePhases /\ prompted) \/ pc[r] = "observe" => r \in consumed
SettlesOnlySettling == \A r \in Inputs : settles[r] # {} => pc[r] = "settling"
HonestCopy(r, row) ==
  /\ row[1] \in consumed \/ terminal[r] = "cancelled"
  /\ row[2] # {} => row[1] \in row[2]
CopiesConsumed == \A r \in Inputs : \A row \in settles[r] : HonestCopy(r, row)

ReceiptInv ==
  /\ HonestReceipts /\ WireNamesOwner /\ TranscriptConsumed /\ PumpReadConsumed
  /\ PromptConsumed /\ SettlesOnlySettling /\ CopiesConsumed

\* Only Pi and the reset of a cancelled session write the transcript.
LEMMA TranscriptWriters ==
  ASSUME [Next]_vars
  PROVE  \/ UNCHANGED <<transcript, consumed>>
         \/ \E r \in Inputs : CommitInput(r) \/ FinishCancel(r)
<1> DEFINE Goal == \/ UNCHANGED <<transcript, consumed>>
                   \/ \E r \in Inputs : CommitInput(r) \/ FinishCancel(r)
<1>1. ASSUME NEW i \in Inputs, ClientStep(i) PROVE Goal
  <2>1. CASE AcceptTurn(i)
    BY <2>1 DEF AcceptTurn, StartTurn
  <2>2. CASE AcceptSupplement(i)
    BY <2>2 DEF AcceptSupplement, Enqueue
  <2>3. CASE AcceptDeferred(i)
    BY <2>3 DEF AcceptDeferred, Enqueue
  <2>4. CASE AcceptHostInput(i)
    BY <2>4 DEF AcceptHostInput, Enqueue
  <2>5. CASE WithdrawHostInput(i)
    BY <2>5 DEF WithdrawHostInput, Save
  <2> QED
    BY <1>1, <2>1, <2>2, <2>3, <2>4, <2>5 DEF ClientStep
<1>2. ASSUME NEW i \in Inputs, TurnStep(i) PROVE Goal
  <2>1. CASE Lease(i)
    BY <2>1 DEF Lease
  <2>2. CASE OpenBoundary(i)
    BY <2>2 DEF OpenBoundary, Acknowledge
  <2>3. CASE CloseBoundary(i)
    BY <2>3 DEF CloseBoundary
  <2>4. CASE RejectCaptured(i)
    BY <2>4 DEF RejectCaptured, Save
  <2>5. CASE Observe(i)
    BY <2>5 DEF Observe, Acknowledge
  <2>6. CASE ModelTurn(i)
    BY <2>6 DEF ModelTurn
  <2>7. CASE Return(i)
    BY <2>7 DEF Return
  <2>8. CASE CommitInput(i)
    BY <2>8, Zenon
  <2> QED
    BY <1>2, <2>1, <2>2, <2>3, <2>4, <2>5, <2>6, <2>7, <2>8 DEF TurnStep
<1>3. ASSUME NEW i \in Inputs, EndStep(i) PROVE Goal
  <2>1. CASE RunCompletes(i)
    BY <2>1 DEF RunCompletes, CommitTerminal
  <2>2. CASE RunCancelled(i)
    BY <2>2 DEF RunCancelled, CommitTerminal
  <2>3. CASE RunFails(i)
    BY <2>3 DEF RunFails, CommitTerminal
  <2>4. CASE CompletionRefused(i)
    BY <2>4 DEF CompletionRefused, CommitTerminal
  <2>5. CASE CommitLost(i)
    BY <2>5 DEF CommitLost
  <2>6. CASE OpenSettlement(i)
    BY <2>6 DEF OpenSettlement
  <2>7. CASE SettleNext(i)
    BY <2>7 DEF SettleNext
  <2>8. CASE Finalize(i)
    BY <2>8 DEF Finalize
  <2> QED
    BY <1>3, <2>1, <2>2, <2>3, <2>4, <2>5, <2>6, <2>7, <2>8 DEF EndStep
<1>4. ASSUME NEW i \in Inputs, FinishCancel(i) PROVE Goal
  BY <1>4
<1>5. CASE PumpStep
  BY <1>5, SMTT(30)
     DEF PumpStep, Resume, PumpInspect, PumpRest, PumpActivate, StartTurn, PumpStops, PumpRefused,
         PumpContinue, Save
<1>6. CASE UserCancel \/ CancelTimeout \/ BeginShutdown \/ StopRuns \/ Crash \/ Restart
  BY <1>6, SMTT(30)
     DEF UserCancel, Stop, CancelTimeout, BeginShutdown, StopRuns, Crash, ForgetMemory, PumpRest,
         Restart
<1>7. CASE UNCHANGED vars
  BY <1>7 DEF vars
<1> QED
  BY <1>1, <1>2, <1>3, <1>4, <1>5, <1>6, <1>7 DEF Next

\* Which actions write the wire batches of rows and the copies of settling runs.
LEMMA WireWriters ==
  ASSUME [Next]_vars
  PROVE  \/ UNCHANGED <<wire, settles>>
         \/ \E r \in Inputs : CloseBoundary(r) \/ OpenSettlement(r) \/ SettleNext(r)
         \/ Crash
<1> DEFINE Goal == \/ UNCHANGED <<wire, settles>>
                   \/ \E r \in Inputs : CloseBoundary(r) \/ OpenSettlement(r) \/ SettleNext(r)
                   \/ Crash
<1>1. ASSUME NEW i \in Inputs, ClientStep(i) PROVE Goal
  <2>1. CASE AcceptTurn(i)
    BY <2>1 DEF AcceptTurn, StartTurn
  <2>2. CASE AcceptSupplement(i)
    BY <2>2 DEF AcceptSupplement, Enqueue
  <2>3. CASE AcceptDeferred(i)
    BY <2>3 DEF AcceptDeferred, Enqueue
  <2>4. CASE AcceptHostInput(i)
    BY <2>4 DEF AcceptHostInput, Enqueue
  <2>5. CASE WithdrawHostInput(i)
    BY <2>5 DEF WithdrawHostInput, Save
  <2> QED
    BY <1>1, <2>1, <2>2, <2>3, <2>4, <2>5 DEF ClientStep
<1>2. ASSUME NEW i \in Inputs, TurnStep(i) PROVE Goal
  <2>1. CASE Lease(i)
    BY <2>1 DEF Lease
  <2>2. CASE OpenBoundary(i)
    BY <2>2 DEF OpenBoundary, Acknowledge
  <2>3. CASE RejectCaptured(i)
    BY <2>3 DEF RejectCaptured, Save
  <2>4. CASE CommitInput(i)
    BY <2>4 DEF CommitInput
  <2>5. CASE Observe(i)
    BY <2>5 DEF Observe, Acknowledge
  <2>6. CASE ModelTurn(i)
    BY <2>6 DEF ModelTurn
  <2>7. CASE Return(i)
    BY <2>7 DEF Return
  <2>8. CASE CloseBoundary(i)
    BY <2>8, Zenon
  <2> QED
    BY <1>2, <2>1, <2>2, <2>3, <2>4, <2>5, <2>6, <2>7, <2>8 DEF TurnStep
<1>3. ASSUME NEW i \in Inputs, EndStep(i) PROVE Goal
  <2>1. CASE RunCompletes(i)
    BY <2>1 DEF RunCompletes, CommitTerminal
  <2>2. CASE RunCancelled(i)
    BY <2>2 DEF RunCancelled, CommitTerminal
  <2>3. CASE RunFails(i)
    BY <2>3 DEF RunFails, CommitTerminal
  <2>4. CASE CompletionRefused(i)
    BY <2>4 DEF CompletionRefused, CommitTerminal
  <2>5. CASE CommitLost(i)
    BY <2>5 DEF CommitLost
  <2>6. CASE Finalize(i)
    BY <2>6 DEF Finalize
  <2>7. CASE OpenSettlement(i) \/ SettleNext(i)
    BY <2>7, Zenon
  <2> QED
    BY <1>3, <2>1, <2>2, <2>3, <2>4, <2>5, <2>6, <2>7 DEF EndStep
<1>4. ASSUME NEW i \in Inputs, FinishCancel(i) PROVE Goal
  BY <1>4 DEF FinishCancel
<1>5. CASE PumpStep
  BY <1>5, SMTT(30)
     DEF PumpStep, Resume, PumpInspect, PumpRest, PumpActivate, StartTurn, PumpStops, PumpRefused,
         PumpContinue, Save
<1>6. CASE UserCancel \/ CancelTimeout \/ BeginShutdown \/ StopRuns \/ Crash \/ Restart
  BY <1>6, SMTT(30) DEF UserCancel, Stop, CancelTimeout, BeginShutdown, StopRuns, Restart
<1>7. CASE UNCHANGED vars
  BY <1>7 DEF vars
<1> QED
  BY <1>1, <1>2, <1>3, <1>4, <1>5, <1>6, <1>7 DEF Next

\* An input that was consumed stays consumed.
LEMMA ConsumedGrows ==
  ASSUME [Next]_vars
  PROVE  consumed \subseteq consumed'
BY TranscriptWriters DEF CommitInput, FinishCancel

\* A settling run saves one of the honest copies it holds.
LEMMA SettlesHonestCopies ==
  ASSUME TypeOK, ReceiptInv, NEW r \in Inputs, OpenSettlement(r) \/ SettleNext(r)
  PROVE  \E listed \in SUBSET (Inputs \X SUBSET Inputs) :
           SettleFirst(r, listed) /\ \A row \in listed : HonestCopy(r, row)
<1>1. CASE OpenSettlement(r)
  <2>1. Copies(Unsettled(r)) \in SUBSET (Inputs \X SUBSET Inputs)
    BY DEF Copies, Unsettled, Listed, TypeOK, RowTypes
  <2>2. \A row \in Copies(Unsettled(r)) : HonestCopy(r, row)
    BY DEF Copies, Unsettled, Listed, HonestCopy, ReceiptInv, HonestReceipts, WireNamesOwner
  <2> QED BY <1>1, <2>1, <2>2 DEF OpenSettlement
<1>2. CASE SettleNext(r)
  <2>1. settles[r] \in SUBSET (Inputs \X SUBSET Inputs)
    BY DEF TypeOK, RunTypes
  <2>2. SettleFirst(r, settles[r])
    BY <1>2 DEF SettleNext
  <2> QED BY <2>1, <2>2 DEF ReceiptInv, CopiesConsumed
<1> QED BY <1>1, <1>2

\* Every batch written to a row names the row.
LEMMA WireNamesOwnerStep ==
  ASSUME TypeOK, ReceiptInv, [Next]_vars
  PROVE  WireNamesOwner'
<1>1. CASE UNCHANGED wire
  BY <1>1 DEF ReceiptInv, WireNamesOwner
<1>2. ASSUME NEW r \in Inputs, CloseBoundary(r) PROVE WireNamesOwner'
  BY <1>2 DEF CloseBoundary, ReceiptInv, WireNamesOwner
<1>3. ASSUME NEW r \in Inputs, OpenSettlement(r) \/ SettleNext(r) PROVE WireNamesOwner'
  <2>1. PICK listed \in SUBSET (Inputs \X SUBSET Inputs) :
          SettleFirst(r, listed) /\ \A row \in listed : HonestCopy(r, row)
    BY <1>3, SettlesHonestCopies
  <2>2. CASE UNCHANGED wire
    BY <2>2, <1>1
  <2>3. ASSUME NEW row \in listed, wire' = [wire EXCEPT ![row[1]] = row[2]]
        PROVE  WireNamesOwner'
    <3>1. row[1] \in Inputs /\ HonestCopy(r, row)
      BY <2>1, <2>3
    <3> QED BY <2>3, <3>1 DEF HonestCopy, ReceiptInv, WireNamesOwner, TypeOK, RowTypes
  <2> QED BY <2>1, <2>2, <2>3 DEF SettleFirst, FirstCopies
<1>4. CASE Crash
  BY <1>4, <1>1 DEF Crash
<1> QED
  BY <1>1, <1>2, <1>3, <1>4, WireWriters

\* Pi commits only batches whose inputs it consumes.
LEMMA TranscriptConsumedStep ==
  ASSUME TypeOK, ReceiptInv, [Next]_vars
  PROVE  TranscriptConsumed'
<1>1. CASE UNCHANGED <<transcript, consumed>>
  BY <1>1 DEF ReceiptInv, TranscriptConsumed
<1>2. ASSUME NEW r \in Inputs, CommitInput(r) PROVE TranscriptConsumed'
  BY <1>2 DEF CommitInput, ReceiptInv, TranscriptConsumed
<1>3. ASSUME NEW r \in Inputs, FinishCancel(r) PROVE TranscriptConsumed'
  BY <1>3 DEF FinishCancel, ReceiptInv, TranscriptConsumed
<1> QED
  BY <1>1, <1>2, <1>3, TranscriptWriters

\* Only an inspection fills the set of inputs the pump will reconcile.
LEMMA PumpReaders ==
  ASSUME [Next]_vars
  PROVE  \/ UNCHANGED pumpRead
         \/ PumpInspect
         \/ pumpRead' = {}
<1> DEFINE Goal == \/ UNCHANGED pumpRead
                   \/ PumpInspect
                   \/ pumpRead' = {}
<1>1. ASSUME NEW i \in Inputs, ClientStep(i) PROVE Goal
  <2>1. CASE AcceptTurn(i)
    BY <2>1 DEF AcceptTurn, StartTurn
  <2>2. CASE AcceptSupplement(i)
    BY <2>2 DEF AcceptSupplement, Enqueue
  <2>3. CASE AcceptDeferred(i)
    BY <2>3 DEF AcceptDeferred, Enqueue
  <2>4. CASE AcceptHostInput(i)
    BY <2>4 DEF AcceptHostInput, Enqueue
  <2>5. CASE WithdrawHostInput(i)
    BY <2>5 DEF WithdrawHostInput, Save
  <2> QED
    BY <1>1, <2>1, <2>2, <2>3, <2>4, <2>5 DEF ClientStep
<1>2. ASSUME NEW i \in Inputs, TurnStep(i) PROVE Goal
  <2>1. CASE Lease(i)
    BY <2>1 DEF Lease
  <2>2. CASE OpenBoundary(i)
    BY <2>2 DEF OpenBoundary, Acknowledge
  <2>3. CASE CloseBoundary(i)
    BY <2>3 DEF CloseBoundary
  <2>4. CASE RejectCaptured(i)
    BY <2>4 DEF RejectCaptured, Save
  <2>5. CASE CommitInput(i)
    BY <2>5 DEF CommitInput
  <2>6. CASE Observe(i)
    BY <2>6 DEF Observe, Acknowledge
  <2>7. CASE ModelTurn(i)
    BY <2>7 DEF ModelTurn
  <2>8. CASE Return(i)
    BY <2>8 DEF Return
  <2> QED
    BY <1>2, <2>1, <2>2, <2>3, <2>4, <2>5, <2>6, <2>7, <2>8 DEF TurnStep
<1>3. ASSUME NEW i \in Inputs, EndStep(i) PROVE Goal
  <2>1. CASE RunCompletes(i)
    BY <2>1 DEF RunCompletes, CommitTerminal
  <2>2. CASE RunCancelled(i)
    BY <2>2 DEF RunCancelled, CommitTerminal
  <2>3. CASE RunFails(i)
    BY <2>3 DEF RunFails, CommitTerminal
  <2>4. CASE CompletionRefused(i)
    BY <2>4 DEF CompletionRefused, CommitTerminal
  <2>5. CASE CommitLost(i)
    BY <2>5 DEF CommitLost
  <2>6. CASE OpenSettlement(i)
    BY <2>6 DEF OpenSettlement
  <2>7. CASE SettleNext(i)
    BY <2>7 DEF SettleNext
  <2>8. CASE Finalize(i)
    BY <2>8 DEF Finalize
  <2> QED
    BY <1>3, <2>1, <2>2, <2>3, <2>4, <2>5, <2>6, <2>7, <2>8 DEF EndStep
<1>4. ASSUME NEW i \in Inputs, FinishCancel(i) PROVE Goal
  BY <1>4 DEF FinishCancel
<1>5. CASE PumpStep
  BY <1>5, SMTT(30)
     DEF PumpStep, Resume, PumpActivate, StartTurn, PumpRest, PumpStops, PumpRefused,
         PumpContinue, Save
<1>6. CASE UserCancel \/ CancelTimeout \/ BeginShutdown \/ StopRuns \/ Crash \/ Restart
  BY <1>6, SMTT(30)
     DEF UserCancel, Stop, CancelTimeout, BeginShutdown, StopRuns, Crash, ForgetMemory, PumpRest,
         Restart
<1>7. CASE UNCHANGED vars
  BY <1>7 DEF vars
<1> QED
  BY <1>1, <1>2, <1>3, <1>4, <1>5, <1>6, <1>7 DEF Next

\* What an inspection reads is consumed, and stays so until it is acted upon.
LEMMA PumpReadConsumedStep ==
  ASSUME TypeOK, ReceiptInv, [Next]_vars
  PROVE  PumpReadConsumed'
<1>1. CASE UNCHANGED pumpRead
  BY <1>1, ConsumedGrows DEF ReceiptInv, PumpReadConsumed
<1>2. CASE PumpInspect
  <2>1. FoundConsumed \subseteq consumed
    BY DEF FoundConsumed, Listed, InTranscript, ReceiptInv, HonestReceipts, WireNamesOwner,
           TranscriptConsumed
  <2> QED BY <1>2, <2>1, ConsumedGrows DEF PumpInspect, PumpRest, ReceiptInv, PumpReadConsumed
<1>3. CASE pumpRead' = {}
  BY <1>3 DEF PumpReadConsumed
<1> QED
  BY <1>1, <1>2, <1>3, PumpReaders

\* A prompted run has consumed its own input.
LEMMA PromptConsumedStep ==
  ASSUME TypeOK, OneLiveRun, Unstarted, ReceiptInv, [Next]_vars
  PROVE  PromptConsumed'
<1>1. ASSUME NEW i \in Inputs, AcceptTurn(i) PROVE PromptConsumed'
  BY <1>1
     DEF AcceptTurn, StartTurn, ReceiptInv, PromptConsumed, TypeOK, RunTypes, LivePhases,
         LeasedPhases, BoundaryPhases
<1>2. ASSUME NEW i \in Inputs, AcceptSupplement(i) PROVE PromptConsumed'
  BY <1>2 DEF AcceptSupplement, ReceiptInv, PromptConsumed
<1>3. ASSUME NEW i \in Inputs, AcceptDeferred(i) PROVE PromptConsumed'
  BY <1>3 DEF AcceptDeferred, ReceiptInv, PromptConsumed
<1>4. ASSUME NEW i \in Inputs, AcceptHostInput(i) PROVE PromptConsumed'
  BY <1>4 DEF AcceptHostInput, ReceiptInv, PromptConsumed
<1>5. ASSUME NEW i \in Inputs, WithdrawHostInput(i) PROVE PromptConsumed'
  BY <1>5 DEF WithdrawHostInput, ReceiptInv, PromptConsumed
<1>6. ASSUME NEW i \in Inputs, Lease(i) PROVE PromptConsumed'
  BY <1>6
     DEF Lease, ReceiptInv, PromptConsumed, TypeOK, RunTypes, LivePhases, LeasedPhases,
         BoundaryPhases
<1>7. ASSUME NEW i \in Inputs, OpenBoundary(i) PROVE PromptConsumed'
  BY <1>7, NextPhases
     DEF OpenBoundary, ReceiptInv, PromptConsumed, TypeOK, RunTypes, LivePhases, LeasedPhases,
         BoundaryPhases
<1>8. ASSUME NEW i \in Inputs, CloseBoundary(i) PROVE PromptConsumed'
  BY <1>8, NextPhases
     DEF CloseBoundary, ReceiptInv, PromptConsumed, TypeOK, RunTypes, LivePhases, LeasedPhases,
         BoundaryPhases
<1>9. ASSUME NEW i \in Inputs, RejectCaptured(i) PROVE PromptConsumed'
  BY <1>9, NextPhases
     DEF RejectCaptured, ReceiptInv, PromptConsumed, TypeOK, RunTypes, LivePhases, LeasedPhases,
         BoundaryPhases
<1>10. ASSUME NEW i \in Inputs, CommitInput(i) PROVE PromptConsumed'
  BY <1>10
     DEF CommitInput, ReceiptInv, PromptConsumed, TypeOK, RunTypes, LivePhases, LeasedPhases,
         BoundaryPhases, OneLiveRun
<1>11. ASSUME NEW i \in Inputs, Observe(i) PROVE PromptConsumed'
  BY <1>11
     DEF Observe, ReceiptInv, PromptConsumed, TypeOK, RunTypes, LivePhases, LeasedPhases,
         BoundaryPhases
<1>12. ASSUME NEW i \in Inputs, ModelTurn(i) PROVE PromptConsumed'
  BY <1>12
     DEF ModelTurn, ReceiptInv, PromptConsumed, TypeOK, RunTypes, LivePhases, LeasedPhases,
         BoundaryPhases
<1>13. ASSUME NEW i \in Inputs, Return(i) PROVE PromptConsumed'
  BY <1>13
     DEF Return, ReceiptInv, PromptConsumed, TypeOK, RunTypes, LivePhases, LeasedPhases,
         BoundaryPhases
<1>14. ASSUME NEW i \in Inputs, RunCompletes(i) PROVE PromptConsumed'
  BY <1>14
     DEF RunCompletes, CommitTerminal, ReceiptInv, PromptConsumed, TypeOK, RunTypes, LivePhases,
         LeasedPhases, BoundaryPhases
<1>15. ASSUME NEW i \in Inputs, RunCancelled(i) PROVE PromptConsumed'
  BY <1>15
     DEF RunCancelled, CommitTerminal, ReceiptInv, PromptConsumed, TypeOK, RunTypes, LivePhases,
         LeasedPhases, BoundaryPhases
<1>16. ASSUME NEW i \in Inputs, RunFails(i) PROVE PromptConsumed'
  BY <1>16
     DEF RunFails, CommitTerminal, ReceiptInv, PromptConsumed, TypeOK, RunTypes, LivePhases,
         LeasedPhases, BoundaryPhases
<1>17. ASSUME NEW i \in Inputs, CompletionRefused(i) PROVE PromptConsumed'
  BY <1>17
     DEF CompletionRefused, CommitTerminal, ReceiptInv, PromptConsumed, TypeOK, RunTypes,
         LivePhases, LeasedPhases, BoundaryPhases
<1>18. ASSUME NEW i \in Inputs, CommitLost(i) PROVE PromptConsumed'
  BY <1>18
     DEF CommitLost, ReceiptInv, PromptConsumed, TypeOK, RunTypes, LivePhases, LeasedPhases,
         BoundaryPhases
<1>19. ASSUME NEW i \in Inputs, OpenSettlement(i) PROVE PromptConsumed'
  BY <1>19
     DEF OpenSettlement, ReceiptInv, PromptConsumed, TypeOK, RunTypes, LivePhases, LeasedPhases,
         BoundaryPhases
<1>20. ASSUME NEW i \in Inputs, SettleNext(i) PROVE PromptConsumed'
  BY <1>20
     DEF SettleNext, ReceiptInv, PromptConsumed, TypeOK, RunTypes, LivePhases, LeasedPhases,
         BoundaryPhases
<1>21. ASSUME NEW i \in Inputs, Finalize(i) PROVE PromptConsumed'
  BY <1>21
     DEF Finalize, ReceiptInv, PromptConsumed, TypeOK, RunTypes, LivePhases, LeasedPhases,
         BoundaryPhases
<1>22. ASSUME NEW i \in Inputs, FinishCancel(i) PROVE PromptConsumed'
  BY <1>22 DEF FinishCancel, ReceiptInv, PromptConsumed
<1>23. CASE Resume
  BY <1>23 DEF Resume, ReceiptInv, PromptConsumed
<1>24. CASE PumpInspect
  BY <1>24 DEF PumpInspect, PumpRest, ReceiptInv, PromptConsumed
<1>25. CASE PumpActivate
  <2>1. CASE UNCHANGED <<pc, prompted>>
    BY <1>25, <2>1, ConsumedGrows DEF ReceiptInv, PromptConsumed
  <2>2. ASSUME NEW next \in Inputs, StartTurn(next, FALSE) PROVE PromptConsumed'
    BY <2>2, ConsumedGrows
       DEF StartTurn, ReceiptInv, PromptConsumed, TypeOK, RunTypes, LivePhases, LeasedPhases,
           BoundaryPhases
  <2> QED BY <1>25, <2>1, <2>2 DEF PumpActivate, Earliest, Wakeable
<1>26. CASE PumpStops
  BY <1>26 DEF PumpStops, PumpRest, ReceiptInv, PromptConsumed
<1>27. CASE PumpRefused
  BY <1>27 DEF PumpRefused, PumpRest, ReceiptInv, PromptConsumed
<1>28. CASE PumpContinue
  BY <1>28 DEF PumpContinue, PumpRest, ReceiptInv, PromptConsumed
<1>29. CASE UserCancel
  BY <1>29 DEF UserCancel, Stop, ReceiptInv, PromptConsumed
<1>30. CASE CancelTimeout
  BY <1>30 DEF CancelTimeout, ReceiptInv, PromptConsumed
<1>31. CASE BeginShutdown
  BY <1>31 DEF BeginShutdown, ReceiptInv, PromptConsumed
<1>32. CASE StopRuns
  BY <1>32 DEF StopRuns, Stop, ReceiptInv, PromptConsumed
<1>33. CASE Crash
  BY <1>33
     DEF Crash, ForgetMemory, PumpRest, ReceiptInv, PromptConsumed, LivePhases, LeasedPhases,
         BoundaryPhases
<1>34. CASE Restart
  BY <1>34 DEF Restart, ReceiptInv, PromptConsumed
<1>35. CASE UNCHANGED vars
  BY <1>35 DEF vars, ReceiptInv, PromptConsumed
<1> QED
  BY <1>1, <1>2, <1>3, <1>4, <1>5, <1>6, <1>7, <1>8, <1>9, <1>10, <1>11, <1>12, <1>13, <1>14,
     <1>15, <1>16, <1>17, <1>18, <1>19, <1>20, <1>21, <1>22, <1>23, <1>24, <1>25, <1>26, <1>27,
     <1>28, <1>29, <1>30, <1>31, <1>32, <1>33, <1>34, <1>35
  DEF Next, ClientStep, TurnStep, EndStep, PumpStep

\* Only a settling run holds copies.
LEMMA SettlesOnlySettlingStep ==
  ASSUME TypeOK, OneLiveRun, Unstarted, ReceiptInv, [Next]_vars
  PROVE  SettlesOnlySettling'
<1>1. ASSUME NEW i \in Inputs, AcceptTurn(i) PROVE SettlesOnlySettling'
  BY <1>1
     DEF AcceptTurn, StartTurn, ReceiptInv, SettlesOnlySettling, TypeOK, RunTypes, Unstarted,
         Fresh, LivePhases, LeasedPhases, BoundaryPhases
<1>2. ASSUME NEW i \in Inputs, AcceptSupplement(i) PROVE SettlesOnlySettling'
  BY <1>2 DEF AcceptSupplement, ReceiptInv, SettlesOnlySettling
<1>3. ASSUME NEW i \in Inputs, AcceptDeferred(i) PROVE SettlesOnlySettling'
  BY <1>3 DEF AcceptDeferred, ReceiptInv, SettlesOnlySettling
<1>4. ASSUME NEW i \in Inputs, AcceptHostInput(i) PROVE SettlesOnlySettling'
  BY <1>4 DEF AcceptHostInput, ReceiptInv, SettlesOnlySettling
<1>5. ASSUME NEW i \in Inputs, WithdrawHostInput(i) PROVE SettlesOnlySettling'
  BY <1>5 DEF WithdrawHostInput, ReceiptInv, SettlesOnlySettling
<1>6. ASSUME NEW i \in Inputs, Lease(i) PROVE SettlesOnlySettling'
  BY <1>6
     DEF Lease, ReceiptInv, SettlesOnlySettling, TypeOK, RunTypes, SettlesOnlySettling,
         LivePhases, LeasedPhases, BoundaryPhases
<1>7. ASSUME NEW i \in Inputs, OpenBoundary(i) PROVE SettlesOnlySettling'
  BY <1>7, NextPhases
     DEF OpenBoundary, ReceiptInv, SettlesOnlySettling, TypeOK, RunTypes, SettlesOnlySettling,
         LivePhases, LeasedPhases, BoundaryPhases
<1>8. ASSUME NEW i \in Inputs, CloseBoundary(i) PROVE SettlesOnlySettling'
  BY <1>8, NextPhases
     DEF CloseBoundary, ReceiptInv, SettlesOnlySettling, TypeOK, RunTypes, SettlesOnlySettling,
         LivePhases, LeasedPhases, BoundaryPhases
<1>9. ASSUME NEW i \in Inputs, RejectCaptured(i) PROVE SettlesOnlySettling'
  BY <1>9, NextPhases
     DEF RejectCaptured, ReceiptInv, SettlesOnlySettling, TypeOK, RunTypes, SettlesOnlySettling,
         LivePhases, LeasedPhases, BoundaryPhases
<1>10. ASSUME NEW i \in Inputs, CommitInput(i) PROVE SettlesOnlySettling'
  BY <1>10
     DEF CommitInput, ReceiptInv, SettlesOnlySettling, TypeOK, RunTypes, SettlesOnlySettling,
         LivePhases, LeasedPhases, BoundaryPhases
<1>11. ASSUME NEW i \in Inputs, Observe(i) PROVE SettlesOnlySettling'
  BY <1>11
     DEF Observe, ReceiptInv, SettlesOnlySettling, TypeOK, RunTypes, SettlesOnlySettling,
         LivePhases, LeasedPhases, BoundaryPhases
<1>12. ASSUME NEW i \in Inputs, ModelTurn(i) PROVE SettlesOnlySettling'
  BY <1>12
     DEF ModelTurn, ReceiptInv, SettlesOnlySettling, TypeOK, RunTypes, SettlesOnlySettling,
         LivePhases, LeasedPhases, BoundaryPhases
<1>13. ASSUME NEW i \in Inputs, Return(i) PROVE SettlesOnlySettling'
  BY <1>13
     DEF Return, ReceiptInv, SettlesOnlySettling, TypeOK, RunTypes, SettlesOnlySettling,
         LivePhases, LeasedPhases, BoundaryPhases
<1>14. ASSUME NEW i \in Inputs, RunCompletes(i) PROVE SettlesOnlySettling'
  BY <1>14
     DEF RunCompletes, CommitTerminal, ReceiptInv, SettlesOnlySettling, TypeOK, RunTypes,
         SettlesOnlySettling, LivePhases, LeasedPhases, BoundaryPhases
<1>15. ASSUME NEW i \in Inputs, RunCancelled(i) PROVE SettlesOnlySettling'
  BY <1>15
     DEF RunCancelled, CommitTerminal, ReceiptInv, SettlesOnlySettling, TypeOK, RunTypes,
         SettlesOnlySettling, LivePhases, LeasedPhases, BoundaryPhases, AbortablePhases
<1>16. ASSUME NEW i \in Inputs, RunFails(i) PROVE SettlesOnlySettling'
  BY <1>16
     DEF RunFails, CommitTerminal, ReceiptInv, SettlesOnlySettling, TypeOK, RunTypes,
         SettlesOnlySettling, LivePhases, LeasedPhases, BoundaryPhases
<1>17. ASSUME NEW i \in Inputs, CompletionRefused(i) PROVE SettlesOnlySettling'
  BY <1>17
     DEF CompletionRefused, CommitTerminal, ReceiptInv, SettlesOnlySettling, TypeOK, RunTypes,
         SettlesOnlySettling, LivePhases, LeasedPhases, BoundaryPhases
<1>18. ASSUME NEW i \in Inputs, CommitLost(i) PROVE SettlesOnlySettling'
  BY <1>18
     DEF CommitLost, ReceiptInv, SettlesOnlySettling, TypeOK, RunTypes, SettlesOnlySettling,
         LivePhases, LeasedPhases, BoundaryPhases
<1>19. ASSUME NEW i \in Inputs, OpenSettlement(i) PROVE SettlesOnlySettling'
  BY <1>19
     DEF OpenSettlement, ReceiptInv, SettlesOnlySettling, TypeOK, RunTypes, SettlesOnlySettling,
         LivePhases, LeasedPhases, BoundaryPhases, SettleFirst
<1>20. ASSUME NEW i \in Inputs, SettleNext(i) PROVE SettlesOnlySettling'
  BY <1>20
     DEF SettleNext, ReceiptInv, SettlesOnlySettling, TypeOK, RunTypes, SettlesOnlySettling,
         LivePhases, LeasedPhases, BoundaryPhases, SettleFirst
<1>21. ASSUME NEW i \in Inputs, Finalize(i) PROVE SettlesOnlySettling'
  BY <1>21
     DEF Finalize, ReceiptInv, SettlesOnlySettling, TypeOK, RunTypes, SettlesOnlySettling,
         LivePhases, LeasedPhases, BoundaryPhases
<1>22. ASSUME NEW i \in Inputs, FinishCancel(i) PROVE SettlesOnlySettling'
  BY <1>22 DEF FinishCancel, ReceiptInv, SettlesOnlySettling
<1>23. CASE Resume
  BY <1>23 DEF Resume, ReceiptInv, SettlesOnlySettling
<1>24. CASE PumpInspect
  BY <1>24 DEF PumpInspect, PumpRest, ReceiptInv, SettlesOnlySettling
<1>25. CASE PumpActivate
  <2>1. CASE UNCHANGED pc
    BY <1>25, <2>1 DEF PumpActivate, StartTurn, ReceiptInv, SettlesOnlySettling
  <2>2. ASSUME NEW next \in Inputs, ~Replays(next), StartTurn(next,
  FALSE) PROVE SettlesOnlySettling'
    BY <1>25, <2>2
       DEF PumpActivate, StartTurn, Replays, Unstarted, ReceiptInv, SettlesOnlySettling, TypeOK,
           RunTypes
  <2> QED BY <1>25, <2>1, <2>2, PumpStarts
<1>26. CASE PumpStops
  BY <1>26 DEF PumpStops, PumpRest, ReceiptInv, SettlesOnlySettling
<1>27. CASE PumpRefused
  BY <1>27 DEF PumpRefused, PumpRest, ReceiptInv, SettlesOnlySettling
<1>28. CASE PumpContinue
  BY <1>28 DEF PumpContinue, PumpRest, ReceiptInv, SettlesOnlySettling
<1>29. CASE UserCancel
  BY <1>29 DEF UserCancel, Stop, ReceiptInv, SettlesOnlySettling
<1>30. CASE CancelTimeout
  BY <1>30 DEF CancelTimeout, ReceiptInv, SettlesOnlySettling
<1>31. CASE BeginShutdown
  BY <1>31 DEF BeginShutdown, ReceiptInv, SettlesOnlySettling
<1>32. CASE StopRuns
  BY <1>32 DEF StopRuns, Stop, ReceiptInv, SettlesOnlySettling
<1>33. CASE Crash
  BY <1>33 DEF Crash, ForgetMemory, PumpRest, ReceiptInv, SettlesOnlySettling
<1>34. CASE Restart
  BY <1>34 DEF Restart, ReceiptInv, SettlesOnlySettling
<1>35. CASE UNCHANGED vars
  BY <1>35 DEF vars, ReceiptInv, SettlesOnlySettling
<1> QED
  BY <1>1, <1>2, <1>3, <1>4, <1>5, <1>6, <1>7, <1>8, <1>9, <1>10, <1>11, <1>12, <1>13, <1>14,
     <1>15, <1>16, <1>17, <1>18, <1>19, <1>20, <1>21, <1>22, <1>23, <1>24, <1>25, <1>26, <1>27,
     <1>28, <1>29, <1>30, <1>31, <1>32, <1>33, <1>34, <1>35
  DEF Next, ClientStep, TurnStep, EndStep, PumpStep

\* An outcome is written at the end of the live phases and forgotten with the run.
LEMMA TerminalWriters ==
  ASSUME [Next]_vars
  PROVE  \/ UNCHANGED terminal
         \/ \E r \in Inputs : /\ pc[r] \in LivePhases \/ settles[r] = {}
                              /\ \E o \in Outcomes \cup {"none"} : terminal' = [terminal EXCEPT ![r] = o]
         \/ Crash
<1> DEFINE Goal == \/ UNCHANGED terminal
                   \/ \E r \in Inputs : /\ pc[r] \in LivePhases \/ settles[r] = {}
                                        /\ \E o \in Outcomes \cup {"none"} : terminal' = [terminal EXCEPT ![r] = o]
                   \/ Crash
<1>1. ASSUME NEW i \in Inputs, ClientStep(i) PROVE Goal
  <2>1. CASE AcceptTurn(i)
    BY <2>1 DEF AcceptTurn, StartTurn
  <2>2. CASE AcceptSupplement(i)
    BY <2>2 DEF AcceptSupplement, Enqueue
  <2>3. CASE AcceptDeferred(i)
    BY <2>3 DEF AcceptDeferred, Enqueue
  <2>4. CASE AcceptHostInput(i)
    BY <2>4 DEF AcceptHostInput, Enqueue
  <2>5. CASE WithdrawHostInput(i)
    BY <2>5 DEF WithdrawHostInput, Save
  <2> QED
    BY <1>1, <2>1, <2>2, <2>3, <2>4, <2>5 DEF ClientStep
<1>2. ASSUME NEW i \in Inputs, TurnStep(i) PROVE Goal
  <2>1. CASE Lease(i)
    BY <2>1 DEF Lease
  <2>2. CASE OpenBoundary(i)
    BY <2>2 DEF OpenBoundary, Acknowledge
  <2>3. CASE CloseBoundary(i)
    BY <2>3 DEF CloseBoundary
  <2>4. CASE RejectCaptured(i)
    BY <2>4 DEF RejectCaptured, Save
  <2>5. CASE CommitInput(i)
    BY <2>5 DEF CommitInput
  <2>6. CASE Observe(i)
    BY <2>6 DEF Observe, Acknowledge
  <2>7. CASE ModelTurn(i)
    BY <2>7 DEF ModelTurn
  <2>8. CASE Return(i)
    BY <2>8 DEF Return
  <2> QED
    BY <1>2, <2>1, <2>2, <2>3, <2>4, <2>5, <2>6, <2>7, <2>8 DEF TurnStep
<1>3. ASSUME NEW i \in Inputs, EndStep(i) PROVE Goal
  <2>1. CASE RunCompletes(i)
    BY <2>1
       DEF RunCompletes, CommitTerminal, AbortablePhases, Outcomes, LivePhases, LeasedPhases,
           BoundaryPhases
  <2>2. CASE RunCancelled(i)
    BY <2>2
       DEF RunCancelled, CommitTerminal, AbortablePhases, Outcomes, LivePhases, LeasedPhases,
           BoundaryPhases
  <2>3. CASE RunFails(i)
    BY <2>3
       DEF RunFails, CommitTerminal, AbortablePhases, Outcomes, LivePhases, LeasedPhases,
           BoundaryPhases
  <2>4. CASE CompletionRefused(i)
    BY <2>4
       DEF CompletionRefused, CommitTerminal, AbortablePhases, Outcomes, LivePhases, LeasedPhases,
           BoundaryPhases
  <2>5. CASE CommitLost(i)
    BY <2>5 DEF CommitLost, AbortablePhases, Outcomes, LivePhases, LeasedPhases, BoundaryPhases
  <2>6. CASE OpenSettlement(i)
    BY <2>6 DEF OpenSettlement, AbortablePhases, Outcomes, LivePhases, LeasedPhases, BoundaryPhases
  <2>7. CASE SettleNext(i)
    BY <2>7 DEF SettleNext, AbortablePhases, Outcomes, LivePhases, LeasedPhases, BoundaryPhases
  <2>8. CASE Finalize(i)
    BY <2>8 DEF Finalize, AbortablePhases, Outcomes, LivePhases, LeasedPhases, BoundaryPhases
  <2> QED
    BY <1>3, <2>1, <2>2, <2>3, <2>4, <2>5, <2>6, <2>7, <2>8 DEF EndStep
<1>4. ASSUME NEW i \in Inputs, FinishCancel(i) PROVE Goal
  BY <1>4 DEF FinishCancel
<1>5. CASE PumpStep
  BY <1>5, SMTT(30)
     DEF PumpStep, Resume, PumpInspect, PumpRest, PumpActivate, StartTurn, PumpStops, PumpRefused,
         PumpContinue, Save
<1>6. CASE UserCancel \/ CancelTimeout \/ BeginShutdown \/ StopRuns \/ Crash \/ Restart
  BY <1>6, SMTT(30) DEF UserCancel, Stop, CancelTimeout, BeginShutdown, StopRuns, Restart
<1>7. CASE UNCHANGED vars
  BY <1>7 DEF vars
<1> QED
  BY <1>1, <1>2, <1>3, <1>4, <1>5, <1>6, <1>7 DEF Next

\* Copies are honest when they are listed and stay so until they are saved.
LEMMA CopiesConsumedStep ==
  ASSUME TypeOK, ReceiptInv, [Next]_vars
  PROVE  CopiesConsumed'
<1>1. CASE Crash
  BY <1>1 DEF Crash, ForgetMemory, CopiesConsumed
<1>2. ASSUME NEW r \in Inputs, OpenSettlement(r) \/ SettleNext(r) PROVE CopiesConsumed'
  <2>1. PICK listed \in SUBSET (Inputs \X SUBSET Inputs) :
          SettleFirst(r, listed) /\ \A row \in listed : HonestCopy(r, row)
    BY <1>2, SettlesHonestCopies
  <2>2. UNCHANGED <<terminal, consumed>>
    BY <1>2 DEF OpenSettlement, SettleNext
  <2>3. \E left \in SUBSET listed : settles' = [settles EXCEPT ![r] = left]
    BY <2>1 DEF SettleFirst
  <2>4. \A q \in Inputs : \A row \in settles'[q] : HonestCopy(q, row)
    BY <2>1, <2>3 DEF ReceiptInv, CopiesConsumed, TypeOK, RunTypes
  <2> QED BY <2>2, <2>4 DEF CopiesConsumed, HonestCopy
<1>3. CASE UNCHANGED settles
  <2>1. CASE UNCHANGED terminal
    BY <1>3, <2>1, ConsumedGrows DEF ReceiptInv, CopiesConsumed, HonestCopy
  <2>2. ASSUME NEW r \in Inputs, pc[r] \in LivePhases \/ settles[r] = {},
               NEW o \in Outcomes \cup {"none"}, terminal' = [terminal EXCEPT ![r] = o]
        PROVE  CopiesConsumed'
    <3>1. settles[r] = {}
      BY <2>2 DEF ReceiptInv, SettlesOnlySettling, LivePhases, LeasedPhases, BoundaryPhases
    <3>2. \A q \in Inputs : q # r => terminal'[q] = terminal[q]
      BY <2>2 DEF TypeOK, RunTypes
    <3> QED BY <1>3, <3>1, <3>2, ConsumedGrows DEF ReceiptInv, CopiesConsumed, HonestCopy
  <2> QED BY <2>1, <2>2, <1>1, TerminalWriters
<1>4. ASSUME NEW r \in Inputs, CloseBoundary(r) PROVE CopiesConsumed'
  BY <1>3, <1>4 DEF CloseBoundary
<1> QED
  BY <1>1, <1>2, <1>3, <1>4, WireWriters

\* Which actions may write a receipt: boundaries, settlement, and recovery.
LEMMA ReceiptWriters ==
  ASSUME TypeOK, [Next]_vars
  PROVE  \/ \A i \in Inputs : state'[i] \in {"delivered", "completed"} => state[i] = state'[i]
         \/ \E r \in Inputs : \/ OpenBoundary(r) \/ Observe(r)
                              \/ OpenSettlement(r) \/ SettleNext(r)
         \/ PumpActivate \/ PumpRefused
<1> DEFINE Goal == \/ \A i \in Inputs : state'[i] \in {"delivered", "completed"} => state[i] = state'[i]
                   \/ \E r \in Inputs : \/ OpenBoundary(r) \/ Observe(r)
                                        \/ OpenSettlement(r) \/ SettleNext(r)
                   \/ PumpActivate \/ PumpRefused
<1>1. ASSUME NEW i \in Inputs, ClientStep(i) PROVE Goal
  <2>1. CASE AcceptTurn(i)
    BY <2>1 DEF AcceptTurn, StartTurn, TypeOK, RowTypes
  <2>2. CASE AcceptSupplement(i)
    BY <2>2 DEF AcceptSupplement, Enqueue, TypeOK, RowTypes
  <2>3. CASE AcceptDeferred(i)
    BY <2>3 DEF AcceptDeferred, Enqueue, TypeOK, RowTypes
  <2>4. CASE AcceptHostInput(i)
    BY <2>4 DEF AcceptHostInput, Enqueue, TypeOK, RowTypes
  <2>5. CASE WithdrawHostInput(i)
    BY <2>5 DEF WithdrawHostInput, Save, TypeOK, RowTypes
  <2> QED
    BY <1>1, <2>1, <2>2, <2>3, <2>4, <2>5 DEF ClientStep
<1>2. ASSUME NEW i \in Inputs, TurnStep(i) PROVE Goal
  <2>1. CASE Lease(i)
    BY <2>1 DEF Lease, TypeOK, RowTypes
  <2>2. CASE CloseBoundary(i)
    BY <2>2 DEF CloseBoundary, TypeOK, RowTypes
  <2>3. CASE RejectCaptured(i)
    BY <2>3 DEF RejectCaptured, Save, TypeOK, RowTypes
  <2>4. CASE CommitInput(i)
    BY <2>4 DEF CommitInput, TypeOK, RowTypes
  <2>5. CASE ModelTurn(i)
    BY <2>5 DEF ModelTurn, TypeOK, RowTypes
  <2>6. CASE Return(i)
    BY <2>6 DEF Return, TypeOK, RowTypes
  <2>7. CASE OpenBoundary(i) \/ Observe(i)
    BY <2>7, Zenon
  <2> QED
    BY <1>2, <2>1, <2>2, <2>3, <2>4, <2>5, <2>6, <2>7 DEF TurnStep
<1>3. ASSUME NEW i \in Inputs, EndStep(i) PROVE Goal
  <2>1. CASE RunCompletes(i)
    BY <2>1 DEF RunCompletes, CommitTerminal, TypeOK, RowTypes
  <2>2. CASE RunCancelled(i)
    BY <2>2 DEF RunCancelled, CommitTerminal, TypeOK, RowTypes
  <2>3. CASE RunFails(i)
    BY <2>3 DEF RunFails, CommitTerminal, TypeOK, RowTypes
  <2>4. CASE CompletionRefused(i)
    BY <2>4 DEF CompletionRefused, CommitTerminal, TypeOK, RowTypes
  <2>5. CASE CommitLost(i)
    BY <2>5 DEF CommitLost, TypeOK, RowTypes
  <2>6. CASE Finalize(i)
    BY <2>6 DEF Finalize, TypeOK, RowTypes
  <2>7. CASE OpenSettlement(i) \/ SettleNext(i)
    BY <2>7, Zenon
  <2> QED
    BY <1>3, <2>1, <2>2, <2>3, <2>4, <2>5, <2>6, <2>7 DEF EndStep
<1>4. ASSUME NEW i \in Inputs, FinishCancel(i) PROVE Goal
  BY <1>4 DEF FinishCancel
<1>5. CASE PumpStep
  BY <1>5, SMTT(30)
     DEF PumpStep, Resume, TypeOK, RowTypes, PumpInspect, PumpRest, PumpStops, PumpContinue, Save
<1>6. CASE UserCancel \/ CancelTimeout \/ BeginShutdown \/ StopRuns \/ Crash \/ Restart
  BY <1>6, SMTT(30)
     DEF UserCancel, Stop, CancelTimeout, BeginShutdown, StopRuns, Crash, ForgetMemory, PumpRest,
         Restart
<1>7. CASE UNCHANGED vars
  BY <1>7 DEF vars
<1> QED
  BY <1>1, <1>2, <1>3, <1>4, <1>5, <1>6, <1>7 DEF Next

\* Each of them writes it only for an input Pi took.
LEMMA HonestReceiptsStep ==
  ASSUME TypeOK, ReceiptInv, [Next]_vars
  PROVE  HonestReceipts'
<1>1. CASE \A i \in Inputs : state'[i] \in {"delivered", "completed"} => state[i] = state'[i]
  BY <1>1, ConsumedGrows DEF ReceiptInv, HonestReceipts
<1>2. ASSUME NEW r \in Inputs, OpenBoundary(r) PROVE HonestReceipts'
  <2>1. Receipts(r, FALSE) \subseteq consumed
    BY DEF Receipts, InTranscript, ReceiptInv, WireNamesOwner, TranscriptConsumed
  <2> QED BY <1>2, <2>1, ConsumedGrows DEF OpenBoundary, Acknowledge, ReceiptInv, HonestReceipts
<1>3. ASSUME NEW r \in Inputs, Observe(r) PROVE HonestReceipts'
  <2>1. r \in consumed
    BY <1>3 DEF Observe, ReceiptInv, PromptConsumed
  <2>2. Receipts(r, TRUE) \subseteq consumed
    BY <2>1 DEF Receipts, InTranscript, ReceiptInv, WireNamesOwner, TranscriptConsumed
  <2> QED BY <1>3, <2>2, ConsumedGrows DEF Observe, Acknowledge, ReceiptInv, HonestReceipts
<1>4. ASSUME NEW r \in Inputs, OpenSettlement(r) \/ SettleNext(r) PROVE HonestReceipts'
  <2>1. PICK listed \in SUBSET (Inputs \X SUBSET Inputs) :
          SettleFirst(r, listed) /\ \A row \in listed : HonestCopy(r, row)
    BY <1>4, SettlesHonestCopies
  <2>2. CASE UNCHANGED state
    BY <2>2, ConsumedGrows DEF ReceiptInv, HonestReceipts
  <2>3. ASSUME NEW row \in listed, Save(row[1], terminal[r]) PROVE HonestReceipts'
    <3>1. row[1] \in consumed \/ terminal[r] = "cancelled"
      BY <2>1, <2>3 DEF HonestCopy
    <3> QED BY <2>3, <3>1, ConsumedGrows DEF Save, ReceiptInv, HonestReceipts, TypeOK, RowTypes
  <2> QED BY <2>1, <2>2, <2>3 DEF SettleFirst, FirstCopies
<1>5. CASE PumpActivate \/ PumpRefused
  <2>1. \A i \in Inputs : Reconciled[i] \in {"delivered", "completed"} => i \in consumed
    BY DEF Reconciled, ReceiptInv, HonestReceipts, PumpReadConsumed
  <2>2. state' = Reconciled \/ \E next \in Inputs : state' = [Reconciled EXCEPT ![next] = "failed"]
    BY <1>5 DEF PumpActivate, PumpRefused, Earliest, Wakeable
  <2> QED BY <2>1, <2>2, ConsumedGrows DEF Reconciled, HonestReceipts
<1> QED
  BY <1>1, <1>2, <1>3, <1>4, <1>5, ReceiptWriters

\* What carries the honesty of receipts holds in every state.
LEMMA ReceiptInvAlways == Spec => []ReceiptInv
<1>1. Init => ReceiptInv
  BY DEF Init, ReceiptInv, HonestReceipts, WireNamesOwner, TranscriptConsumed, PumpReadConsumed,
         PromptConsumed, SettlesOnlySettling, CopiesConsumed
<1>2. TypeOK /\ OneLiveRun /\ StartedOnce /\ Unstarted /\ ReceiptInv /\ [Next]_vars => ReceiptInv'
  BY HonestReceiptsStep, WireNamesOwnerStep, TranscriptConsumedStep, PumpReadConsumedStep,
     PromptConsumedStep, SettlesOnlySettlingStep, CopiesConsumedStep DEF ReceiptInv
<1> QED
  BY <1>1, <1>2, TypeCorrect, SingleExecution, StartsOnce, PTL DEF Spec

\* A receipt, delivered or completed, is only ever shown for an input Pi took
\* as user input: through retries, refused commits, crashes between Pi's
\* commit and the receipt, and recoveries that reconcile the queue.
THEOREM ReceiptsAreHonest == Spec => []HonestReceipts
BY ReceiptInvAlways, PTL DEF ReceiptInv

=============================================================================
