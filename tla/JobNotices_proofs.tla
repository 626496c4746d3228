---------------------------- MODULE JobNotices_proofs ----------------------------
(***************************************************************************)
(* Proofs about JobNotices, for all jobs, calls and bounds: no wake-up of  *)
(* the outbox is lost, a notice is silenced only for a model that has the  *)
(* result, one that counts as observed is never steered, and no job is     *)
(* forgotten on its way to the inbox.                                      *)
(*                                                                         *)
(* The argument of the third: as long as the input of an observed notice   *)
(* is pending, or on its way, the acknowledged observation is still there  *)
(* to withdraw it (Recallable), and a boundary gives the inbox its part    *)
(* only when no observation is left (FlushedClean).  A recovery that met   *)
(* the calls of its own process would remove that observation, so this one *)
(* is proved without LiveRecoveries.                                       *)
(*                                                                         *)
(* The last rests on HeldIsSettled: an observation that holds a notice     *)
(* back is always before a boundary or a replay that settles it and then   *)
(* flushes what it held back.                                              *)
(***************************************************************************)
EXTENDS JobNotices, TLAPS

Typed == TypeOK /\ (recalling # None => recalling \in todo)

-----------------------------------------------------------------------------
(* Type correctness *)

\* Every step keeps the types.
LEMMA TypeKept ==
  ASSUME Typed, [Next]_vars
  PROVE  Typed'
<1> USE NoticeAssumption DEF Typed, TypeOK, OutboxTypeOK, Jobs, CallStates, InputStates, Unread, RowStates, Later
<1>1. ASSUME NEW j \in Jobs, Accept(j) PROVE Typed'
  BY <1>1 DEF Accept, Admit, notices, session, recovery, outbox
<1>2. ASSUME NEW j \in Jobs, Admitted(j) PROVE Typed'
  BY <1>2 DEF Admitted, notices, session, recovery, outbox
<1>3. ASSUME NEW j \in Jobs, AcceptFails(j) PROVE Typed'
  BY <1>3 DEF AcceptFails, Admit, notices, session, recovery, outbox
<1>4. ASSUME NEW j \in Processes, ProcessEnds(j) PROVE Typed'
  BY <1>4 DEF ProcessEnds, Publish, Deliver, notices, session, recovery, outbox
<1>5. ASSUME NEW c \in Completions, ChildRunEnds(c) PROVE Typed'
  BY <1>5 DEF ChildRunEnds, Finish, notices, session, recovery, outbox
<1>6. ASSUME NEW c \in Completions, EnqueueCompletion(c) PROVE Typed'
  <2>1. late' \in Nat /\ pump' \in {"off", "drain", "hand", "ended"} /\ timer' \in BOOLEAN
    <3>1. late' = late \/ late' = late + 1
      BY <1>6 DEF EnqueueCompletion, Enqueue
    <3>2. CASE pump = "off"
      BY <1>6, <3>1, <3>2 DEF EnqueueCompletion, Enqueue
    <3>3. CASE pump # "off"
      BY <1>6, <3>1, <3>3 DEF EnqueueCompletion, Enqueue
    <3> QED BY <3>2, <3>3
  <2>2. row' \in [Completions -> RowStates]
    BY <1>6 DEF EnqueueCompletion, Enqueue
  <2> QED BY <1>6, <2>1, <2>2 DEF EnqueueCompletion, Enqueue, notices, session, recovery
<1>7. ASSUME NEW c \in Completions, HandCompletion(c) PROVE Typed'
  BY <1>7 DEF HandCompletion, Publish, Deliver, Claim, notices, session, recovery, outbox
<1>8. ASSUME NEW c \in Completions, CompletionHanded(c) PROVE Typed'
  BY <1>8 DEF CompletionHanded, Handed, notices, session, recovery, outbox
<1>9. ASSUME NEW c \in Completions, CompletionNotHanded(c) PROVE Typed'
  BY <1>9 DEF CompletionNotHanded, HandFails, notices, session, recovery, outbox
<1>10. ASSUME NEW c \in Completions, OutboxFallsDue(c) PROVE Typed'
  BY <1>10 DEF OutboxFallsDue, FallDue, notices, session, recovery, outbox
<1>11. ASSUME NEW c \in Calls, BeginRead(c) PROVE Typed'
  BY <1>11 DEF BeginRead, notices, session, recovery, outbox
<1>12. ASSUME NEW c \in Calls, FinishRead(c) PROVE Typed'
  BY <1>12 DEF FinishRead, notices, session, recovery, outbox
<1>13. ASSUME NEW c \in Calls, ReadFails(c) PROVE Typed'
  BY <1>13 DEF ReadFails, Deliver, notices, session, recovery, outbox
<1>14. ASSUME NEW c \in Calls, CommitResult(c) PROVE Typed'
  BY <1>14 DEF CommitResult, notices, session, recovery, outbox
<1>15. ASSUME NEW c \in Calls, Reconcile(c) PROVE Typed'
  BY <1>15 DEF Reconcile, Silence, Observed, notices, session, recovery, outbox
<1>16. ASSUME NEW c \in Calls, Withdraw(c) PROVE Typed'
  BY <1>16 DEF Withdraw, Withdrawn, notices, session, recovery, outbox
<1>17. ASSUME NEW c \in Calls, Recover(c) PROVE Typed'
  BY <1>17 DEF Recover, Observed, notices, session, recovery, outbox
<1>18. ASSUME NEW c \in Calls, Recall(c) PROVE Typed'
  BY <1>18 DEF Recall, Withdrawn, notices, session, recovery, outbox
<1>19. ASSUME NEW j \in Jobs \cup {None}, StartTurn(j) PROVE Typed'
  BY <1>19 DEF StartTurn, notices, session, recovery, outbox
<1>20. ASSUME OutboxRests PROVE Typed'
  BY <1>20 DEF OutboxRests, NothingDue, Schedules, Rows, notices, session, recovery, outbox
<1>21. ASSUME OutboxEnds PROVE Typed'
  BY <1>21 DEF OutboxEnds, PumpEnds, notices, session, recovery, outbox
<1>22. ASSUME OutboxWakes PROVE Typed'
  BY <1>22 DEF OutboxWakes, TimerFires, notices, session, recovery, outbox
<1>23. ASSUME Flush PROVE Typed'
  BY <1>23 DEF Flush, Deliver, notices, session, recovery, outbox
<1>24. ASSUME Boundary PROVE Typed'
  BY <1>24 DEF Boundary, notices, session, recovery, outbox
<1>25. ASSUME ModelTurn PROVE Typed'
  BY <1>25 DEF ModelTurn, notices, session, recovery, outbox
<1>26. ASSUME StepEnds PROVE Typed'
  BY <1>26 DEF StepEnds, notices, session, recovery, outbox
<1>27. ASSUME TurnEnds PROVE Typed'
  BY <1>27 DEF TurnEnds, notices, session, recovery, outbox
<1>28. ASSUME TurnFails PROVE Typed'
  BY <1>28 DEF TurnFails, notices, session, recovery, outbox
<1>29. ASSUME RetryFlush PROVE Typed'
  BY <1>29 DEF RetryFlush, Deliver, notices, session, recovery, outbox
<1>30. ASSUME BeginReplay PROVE Typed'
  BY <1>30 DEF BeginReplay, Deliver, notices, session, recovery, outbox
<1>31. ASSUME ReadTranscript PROVE Typed'
  BY <1>31 DEF ReadTranscript, Observed, notices, session, recovery, outbox
<1>32. ASSUME EndReplay PROVE Typed'
  BY <1>32 DEF EndReplay, Deliver, notices, session, recovery, outbox
<1>33. ASSUME PublishRest PROVE Typed'
  BY <1>33 DEF PublishRest, Deliver, notices, session, recovery, outbox
<1>34. ASSUME Restart PROVE Typed'
  <2>1. /\ row' \in [Completions -> RowStates] /\ restarts' \in Nat
        /\ pump' = "drain" /\ timer' = FALSE /\ UNCHANGED <<finished, attempt, late>>
    BY <1>34 DEF Restart, RestartOutbox
  <2>2. /\ call' \in [Calls -> CallStates] /\ delivery' \in [Jobs -> {"off", "accepting", "accepted"}]
        /\ ended' \subseteq Processes /\ quiet' \subseteq Processes
    BY <1>34 DEF Restart
  <2>3. input' \in [Jobs -> InputStates]
    BY <1>34 DEF Restart
  <2> QED BY <1>34, <2>1, <2>2, <2>3 DEF Restart
<1>35. ASSUME UNCHANGED vars PROVE Typed'
  BY <1>35 DEF vars, notices, session, recovery, outbox
<1> QED
  BY <1>1, <1>2, <1>3, <1>4, <1>5, <1>6, <1>7, <1>8, <1>9, <1>10, <1>11,
     <1>12, <1>13, <1>14, <1>15, <1>16, <1>17, <1>18, <1>19, <1>20, <1>21,
     <1>22, <1>23, <1>24, <1>25, <1>26, <1>27, <1>28, <1>29, <1>30, <1>31,
     <1>32, <1>33, <1>34, <1>35 DEF Next

\* Every reachable state is well typed.
LEMMA TypedAlways == Spec => []Typed
<1>1. Init => Typed
  <2> SUFFICES ASSUME Init PROVE Typed
    OBVIOUS
  <2>1. OutboxTypeOK
    BY DEF Init, InitOutbox, OutboxTypeOK, RowStates
  <2>2. /\ call \in [Calls -> CallStates] /\ input \in [Jobs -> InputStates]
    BY DEF Init, InputStates, CallStates
  <2> QED BY <2>1, <2>2 DEF Init, Typed, TypeOK
<1> QED BY <1>1, TypeKept, PTL DEF Spec

\* Type correctness.
THEOREM TypeCorrect == Spec => []TypeOK
BY TypedAlways, PTL DEF Typed

-----------------------------------------------------------------------------
(* The outbox *)

Open == Rows({"due", "waiting", "claimed", "orphaned"})

\* A completion that was claimed once, and that is still owed, has a pump or a
\* timer.
TriedIsWatched == \A c \in Open : attempt[c] > 0 => pump \in {"drain", "hand"} \/ timer

\* One row is claimed at a time, by a pump that hands it over; a pump that
\* found nothing due has left a timer for what comes later.
Watched ==
  /\ \A c \in Completions : row[c] = "claimed" => pump = "hand"
  /\ \A c, d \in Completions : row[c] = "claimed" /\ row[d] = "claimed" => c = d
  /\ \A c \in Completions : row[c] = "none" => attempt[c] = 0
  /\ TriedIsWatched
  /\ late = 0 => OwedIsWatched
  /\ late <= LateJoins

\* No step of the outbox, or of anything beside it, loses a wake-up.
LEMMA WatchedKept ==
  ASSUME OutboxTypeOK, Watched, [Next]_vars
  PROVE  Watched'
<1> USE OutboxAssumption DEF Watched, TriedIsWatched, Open, OwedIsWatched, Rows, OutboxTypeOK
<1>1. CASE UNCHANGED outbox
  BY <1>1 DEF outbox
<1>2. ASSUME NEW c \in Completions, Finish(c) PROVE Watched'
  BY <1>2 DEF Finish
<1>3. ASSUME NEW c \in Completions, Enqueue(c) PROVE Watched'
  <2>1. CASE pump = "ended"
    BY <1>3, <2>1 DEF Enqueue
  <2>2. CASE pump = "off"
    BY <1>3, <2>2 DEF Enqueue
  <2>3. CASE pump \in {"drain", "hand"}
    BY <1>3, <2>3 DEF Enqueue
  <2> QED BY <2>1, <2>2, <2>3
<1>4. ASSUME NEW c \in Completions, Claim(c) PROVE Watched'
  BY <1>4 DEF Claim
<1>5. ASSUME NEW c \in Completions, Handed(c) \/ HandFails(c) PROVE Watched'
  BY <1>5 DEF Handed, HandFails
<1>6. ASSUME NEW c \in Completions, FallDue(c) PROVE Watched'
  <2>1. /\ \A d \in Completions : row'[d] = "claimed" => row[d] = "claimed"
        /\ \A d \in Completions : row'[d] = "none" => row[d] = "none"
        /\ Open' = Open /\ Open # {}
    BY <1>6 DEF FallDue, Later
  <2>2. UNCHANGED <<attempt, pump, timer, late>>
    BY <1>6 DEF FallDue
  <2>3. OwedIsWatched => OwedIsWatched'
    BY <2>1, <2>2
  <2>4. TriedIsWatched'
    BY <2>1, <2>2
  <2> QED BY <2>1, <2>2, <2>3, <2>4
<1>7. CASE NothingDue
  <2>1. ASSUME NEW c \in Completions, row[c] \in {"due", "waiting", "claimed", "orphaned"} PROVE timer'
    <3>1. row[c] \in Later
      BY <1>7, <2>1 DEF NothingDue, Later
    <3> QED BY <1>7, <3>1 DEF NothingDue, Schedules
  <2> QED BY <1>7, <2>1 DEF NothingDue
<1>8. CASE PumpEnds
  BY <1>8 DEF PumpEnds
<1>9. CASE TimerFires
  BY <1>9 DEF TimerFires
<1>10. CASE RestartOutbox
  BY <1>10 DEF RestartOutbox
<1>11. \/ UNCHANGED outbox \/ NothingDue \/ PumpEnds \/ TimerFires \/ RestartOutbox
       \/ \E c \in Completions : Finish(c) \/ Enqueue(c) \/ Claim(c) \/ Handed(c) \/ HandFails(c) \/ FallDue(c)
  BY DEF Next, vars, ChildRunEnds, EnqueueCompletion, HandCompletion, CompletionHanded, CompletionNotHanded,
         OutboxFallsDue, OutboxRests, OutboxEnds, OutboxWakes, Restart, Accept, Admitted, AcceptFails,
         RetryFlush, ProcessEnds, BeginRead, FinishRead, ReadFails, CommitResult, StartTurn, Reconcile,
         Withdraw, Flush, Boundary, ModelTurn, StepEnds, TurnEnds, TurnFails, BeginReplay, ReadTranscript,
         Recover, Recall, EndReplay, PublishRest
<1> QED BY <1>1, <1>2, <1>3, <1>4, <1>5, <1>6, <1>7, <1>8, <1>9, <1>10, <1>11

\* The outbox is watched in every reachable state.
LEMMA WatchedAlways == Spec => []Watched
<1>1. Init => Watched
  BY OutboxAssumption DEF Init, InitOutbox, Watched, TriedIsWatched, Open, OwedIsWatched, Rows
<1>2. Typed /\ Watched /\ [Next]_vars => Watched'
  BY WatchedKept DEF Typed, TypeOK
<1> QED BY <1>1, <1>2, TypedAlways, PTL DEF Spec

\* A delivery that failed, or whose process died, is always tried again,
\* whatever joins the port in between.
THEOREM RetriesWatched == Spec => []TriedIsWatched
BY WatchedAlways, PTL DEF Watched

\* No wake-up of the outbox is lost until a completion joins a pump whose
\* drain has already returned.
THEOREM OutboxWatched == Spec => [](late = 0 => OwedIsWatched)
BY WatchedAlways, PTL DEF Watched

\* In particular none is lost where no completion ever does.
THEOREM NeverLate ==
  ASSUME LateJoins = 0 PROVE Spec => []OwedIsWatched
<1>1. Typed /\ Watched => OwedIsWatched
  BY OutboxAssumption DEF Watched, Typed, TypeOK, OutboxTypeOK
<1> QED BY <1>1, WatchedAlways, TypedAlways, PTL

-----------------------------------------------------------------------------
(* Silencing *)

\* What is being withdrawn, and what a recovery saw, is in the transcript.
Answered ==
  /\ asking # None => call[asking] = "committed" /\ notice[Of[asking]] = "observed"
  /\ recalling # None => call[recalling] = "committed" /\ notice[Of[recalling]] = "observed"
  /\ \A c \in seen : call[c] = "committed" /\ (Observed(c) \/ notice[Of[c]] = "observed")
  /\ recalling # None => recalling \in seen
  /\ SilencedWasRead

\* No step silences a notice the model has no result for.
LEMMA AnsweredKept ==
  ASSUME Typed, Answered, [Next]_vars
  PROVE  Answered'
<1> USE NoticeAssumption DEF Typed, TypeOK, OutboxTypeOK, Answered, SilencedWasRead, Read, Observed, Jobs, CallStates, Unread
<1>1. ASSUME NEW j \in Jobs, Accept(j) PROVE Answered'
  BY <1>1 DEF Accept, Admit, notices, session, recovery, outbox
<1>2. ASSUME NEW j \in Jobs, Admitted(j) PROVE Answered'
  BY <1>2 DEF Admitted, notices, session, recovery, outbox
<1>3. ASSUME NEW j \in Jobs, AcceptFails(j) PROVE Answered'
  BY <1>3 DEF AcceptFails, Admit, notices, session, recovery, outbox
<1>4. ASSUME NEW j \in Processes, ProcessEnds(j) PROVE Answered'
  BY <1>4 DEF ProcessEnds, Publish, Deliver, notices, session, recovery, outbox
<1>5. ASSUME NEW c \in Completions, ChildRunEnds(c) PROVE Answered'
  BY <1>5 DEF ChildRunEnds, Finish, notices, session, recovery, outbox
<1>6. ASSUME NEW c \in Completions, EnqueueCompletion(c) PROVE Answered'
  BY <1>6 DEF EnqueueCompletion, Enqueue, notices, session, recovery, outbox
<1>7. ASSUME NEW c \in Completions, HandCompletion(c) PROVE Answered'
  BY <1>7 DEF HandCompletion, Publish, Deliver, Claim, notices, session, recovery, outbox
<1>8. ASSUME NEW c \in Completions, CompletionHanded(c) PROVE Answered'
  BY <1>8 DEF CompletionHanded, Handed, notices, session, recovery, outbox
<1>9. ASSUME NEW c \in Completions, CompletionNotHanded(c) PROVE Answered'
  BY <1>9 DEF CompletionNotHanded, HandFails, notices, session, recovery, outbox
<1>10. ASSUME NEW c \in Completions, OutboxFallsDue(c) PROVE Answered'
  BY <1>10 DEF OutboxFallsDue, FallDue, notices, session, recovery, outbox
<1>11. ASSUME NEW c \in Calls, BeginRead(c) PROVE Answered'
  BY <1>11 DEF BeginRead, notices, session, recovery, outbox
<1>12. ASSUME NEW c \in Calls, FinishRead(c) PROVE Answered'
  BY <1>12 DEF FinishRead, notices, session, recovery, outbox
<1>13. ASSUME NEW c \in Calls, ReadFails(c) PROVE Answered'
  BY <1>13 DEF ReadFails, Deliver, notices, session, recovery, outbox
<1>14. ASSUME NEW c \in Calls, CommitResult(c) PROVE Answered'
  BY <1>14 DEF CommitResult, notices, session, recovery, outbox
<1>15. ASSUME NEW c \in Calls, Reconcile(c) PROVE Answered'
  BY <1>15 DEF Reconcile, Silence, Observed, notices, session, recovery, outbox
<1>16. ASSUME NEW c \in Calls, Withdraw(c) PROVE Answered'
  BY <1>16 DEF Withdraw, Withdrawn, notices, session, recovery, outbox
<1>17. ASSUME NEW c \in Calls, Recover(c) PROVE Answered'
  BY <1>17 DEF Recover, Observed, notices, session, recovery, outbox
<1>18. ASSUME NEW c \in Calls, Recall(c) PROVE Answered'
  <2>1. call[c] = "committed" /\ c \in Calls
    BY <1>18 DEF Recall
  <2>2. \A j \in Jobs : input'[j] = "cancelled" => input[j] = "cancelled" \/ j = Of[c]
    BY <1>18 DEF Recall, Withdrawn
  <2>3. /\ notice' = notice /\ call' = call /\ seen' = seen /\ asking' = asking /\ recalling' = None
        /\ \A d \in Calls : d # c => obs'[d] = obs[d]
    BY <1>18 DEF Recall
  <2>4. SilencedWasRead'
    BY <2>1, <2>2, <2>3
  <2>5. \A d \in seen' : call'[d] = "committed" /\ (Observed(d)' \/ notice'[Of[d]] = "observed")
    BY <1>18, <2>3 DEF Recall
  <2> QED BY <2>3, <2>4, <2>5
<1>19. ASSUME NEW j \in Jobs \cup {None}, StartTurn(j) PROVE Answered'
  BY <1>19 DEF StartTurn, notices, session, recovery, outbox
<1>20. ASSUME OutboxRests PROVE Answered'
  BY <1>20 DEF OutboxRests, NothingDue, Schedules, Rows, notices, session, recovery, outbox
<1>21. ASSUME OutboxEnds PROVE Answered'
  BY <1>21 DEF OutboxEnds, PumpEnds, notices, session, recovery, outbox
<1>22. ASSUME OutboxWakes PROVE Answered'
  BY <1>22 DEF OutboxWakes, TimerFires, notices, session, recovery, outbox
<1>23. ASSUME Flush PROVE Answered'
  BY <1>23 DEF Flush, Deliver, notices, session, recovery, outbox
<1>24. ASSUME Boundary PROVE Answered'
  BY <1>24 DEF Boundary, notices, session, recovery, outbox
<1>25. ASSUME ModelTurn PROVE Answered'
  BY <1>25 DEF ModelTurn, notices, session, recovery, outbox
<1>26. ASSUME StepEnds PROVE Answered'
  BY <1>26 DEF StepEnds, notices, session, recovery, outbox
<1>27. ASSUME TurnEnds PROVE Answered'
  BY <1>27 DEF TurnEnds, notices, session, recovery, outbox
<1>28. ASSUME TurnFails PROVE Answered'
  BY <1>28 DEF TurnFails, notices, session, recovery, outbox
<1>29. ASSUME RetryFlush PROVE Answered'
  BY <1>29 DEF RetryFlush, Deliver, notices, session, recovery, outbox
<1>30. ASSUME BeginReplay PROVE Answered'
  BY <1>30 DEF BeginReplay, Deliver, notices, session, recovery, outbox
<1>31. ASSUME ReadTranscript PROVE Answered'
  BY <1>31 DEF ReadTranscript, Observed, notices, session, recovery, outbox
<1>32. ASSUME EndReplay PROVE Answered'
  BY <1>32 DEF EndReplay, Deliver, notices, session, recovery, outbox
<1>33. ASSUME PublishRest PROVE Answered'
  BY <1>33 DEF PublishRest, Deliver, notices, session, recovery, outbox
<1>34. ASSUME Restart PROVE Answered'
  BY <1>34 DEF Restart, RestartOutbox, notices, session, recovery, outbox
<1>35. ASSUME UNCHANGED vars PROVE Answered'
  BY <1>35 DEF vars, notices, session, recovery, outbox
<1> QED
  BY <1>1, <1>2, <1>3, <1>4, <1>5, <1>6, <1>7, <1>8, <1>9, <1>10, <1>11,
     <1>12, <1>13, <1>14, <1>15, <1>16, <1>17, <1>18, <1>19, <1>20, <1>21,
     <1>22, <1>23, <1>24, <1>25, <1>26, <1>27, <1>28, <1>29, <1>30, <1>31,
     <1>32, <1>33, <1>34, <1>35 DEF Next

\* Whatever is silenced, or about to be, was read.
LEMMA AnsweredAlways == Spec => []Answered
<1>1. Init => Answered
  BY DEF Init, Answered, SilencedWasRead
<1> QED BY <1>1, AnsweredKept, TypedAlways, PTL DEF Spec

\* A notice is silenced only for a model that has the result: through
\* failures, lost tool results, crashes and recoveries.
THEOREM SilencedRead == Spec => []SilencedWasRead
BY AnsweredAlways, PTL DEF Answered

-----------------------------------------------------------------------------
(* An observed notice stays silent *)

\* A job without a notice has nothing in the inbox.
NothingSent == \A j \in Jobs : notice[j] = "none" => input[j] = "none" /\ delivery[j] = "off"

\* While the input of an observed notice is pending or on its way, the
\* observation that withdraws it is there.
Recallable ==
  \A j \in Jobs : notice[j] = "observed" /\ (input[j] = "pending" \/ delivery[j] = "accepting") =>
    \E c \in Calls : Of[c] = j /\ Observed(c)

\* What a recovery clears without having seen it committed never was.
ClearedInVain == \A c \in todo \ seen : call[c] \in {"committed", "gone"} /\ ~Observed(c)

FlushedClean == turn = "flush" => \A c \in Calls : obs[c] = "none"

Silent == NothingSent /\ Recallable /\ ClearedInVain /\ FlushedClean

\* A delivery starts only for a pending notice; those on their way go on.
LEMMA DeliverStarts ==
  ASSUME NEW js, Deliver(js), delivery \in [Jobs -> {"off", "accepting", "accepted"}]
  PROVE  \A j \in Jobs : \/ delivery'[j] = delivery[j]
                         \/ delivery'[j] = "accepting" /\ notice'[j] = "pending"
  BY DEF Deliver, Deliverable

\* No step takes the observation away from an input it must still withdraw.
LEMMA SilentKept ==
  ASSUME ~LiveRecoveries, Typed, Answered, Silent, [Next]_vars
  PROVE  Silent'
<1> USE NoticeAssumption DEF Typed, TypeOK, OutboxTypeOK, Answered, Silent, NothingSent, Recallable,
        ClearedInVain, FlushedClean, Observed, Jobs, CallStates, Unread
<1>1. ASSUME NEW j \in Jobs, Accept(j) PROVE Silent'
  BY <1>1 DEF Accept, Admit, notices, session, recovery, outbox
<1>2. ASSUME NEW j \in Jobs, Admitted(j) PROVE Silent'
  BY <1>2 DEF Admitted, notices, session, recovery, outbox
<1>3. ASSUME NEW j \in Jobs, AcceptFails(j) PROVE Silent'
  BY <1>3 DEF AcceptFails, Admit, notices, session, recovery, outbox
<1>4. ASSUME NEW j \in Processes, ProcessEnds(j) PROVE Silent'
  BY <1>4, DeliverStarts DEF ProcessEnds, Publish, notices, session, recovery, outbox
<1>5. ASSUME NEW c \in Completions, ChildRunEnds(c) PROVE Silent'
  BY <1>5 DEF ChildRunEnds, Finish, notices, session, recovery, outbox
<1>6. ASSUME NEW c \in Completions, EnqueueCompletion(c) PROVE Silent'
  BY <1>6 DEF EnqueueCompletion, Enqueue, notices, session, recovery, outbox
<1>7. ASSUME NEW c \in Completions, HandCompletion(c) PROVE Silent'
  BY <1>7, DeliverStarts DEF HandCompletion, Publish, Claim, notices, session, recovery, outbox
<1>8. ASSUME NEW c \in Completions, CompletionHanded(c) PROVE Silent'
  BY <1>8 DEF CompletionHanded, Handed, notices, session, recovery, outbox
<1>9. ASSUME NEW c \in Completions, CompletionNotHanded(c) PROVE Silent'
  BY <1>9 DEF CompletionNotHanded, HandFails, notices, session, recovery, outbox
<1>10. ASSUME NEW c \in Completions, OutboxFallsDue(c) PROVE Silent'
  BY <1>10 DEF OutboxFallsDue, FallDue, notices, session, recovery, outbox
<1>11. ASSUME NEW c \in Calls, BeginRead(c) PROVE Silent'
  BY <1>11 DEF BeginRead, notices, session, recovery, outbox
<1>12. ASSUME NEW c \in Calls, FinishRead(c) PROVE Silent'
  BY <1>12 DEF FinishRead, notices, session, recovery, outbox
<1>13. ASSUME NEW c \in Calls, ReadFails(c) PROVE Silent'
  BY <1>13, DeliverStarts DEF ReadFails, notices, session, recovery, outbox
<1>14. ASSUME NEW c \in Calls, CommitResult(c) PROVE Silent'
  BY <1>14 DEF CommitResult, notices, session, recovery, outbox
<1>15. ASSUME NEW c \in Calls, Reconcile(c) PROVE Silent'
  BY <1>15 DEF Reconcile, Silence, Observed, notices, session, recovery, outbox
<1>16. ASSUME NEW c \in Calls, Withdraw(c) PROVE Silent'
  BY <1>16 DEF Withdraw, Withdrawn, notices, session, recovery, outbox
<1>17. ASSUME NEW c \in Calls, Recover(c) PROVE Silent'
  BY <1>17 DEF Recover, Observed, notices, session, recovery, outbox
<1>18. ASSUME NEW c \in Calls, Recall(c) PROVE Silent'
  BY <1>18 DEF Recall, Withdrawn, notices, session, recovery, outbox
<1>19. ASSUME NEW j \in Jobs \cup {None}, StartTurn(j) PROVE Silent'
  BY <1>19 DEF StartTurn, notices, session, recovery, outbox
<1>20. ASSUME OutboxRests PROVE Silent'
  BY <1>20 DEF OutboxRests, NothingDue, Schedules, Rows, notices, session, recovery, outbox
<1>21. ASSUME OutboxEnds PROVE Silent'
  BY <1>21 DEF OutboxEnds, PumpEnds, notices, session, recovery, outbox
<1>22. ASSUME OutboxWakes PROVE Silent'
  BY <1>22 DEF OutboxWakes, TimerFires, notices, session, recovery, outbox
<1>23. ASSUME Flush PROVE Silent'
  BY <1>23, DeliverStarts DEF Flush, notices, session, recovery, outbox
<1>24. ASSUME Boundary PROVE Silent'
  BY <1>24 DEF Boundary, notices, session, recovery, outbox
<1>25. ASSUME ModelTurn PROVE Silent'
  BY <1>25 DEF ModelTurn, notices, session, recovery, outbox
<1>26. ASSUME StepEnds PROVE Silent'
  BY <1>26 DEF StepEnds, notices, session, recovery, outbox
<1>27. ASSUME TurnEnds PROVE Silent'
  BY <1>27 DEF TurnEnds, notices, session, recovery, outbox
<1>28. ASSUME TurnFails PROVE Silent'
  BY <1>28 DEF TurnFails, notices, session, recovery, outbox
<1>29. ASSUME RetryFlush PROVE Silent'
  BY <1>29, DeliverStarts DEF RetryFlush, notices, session, recovery, outbox
<1>30. ASSUME BeginReplay PROVE Silent'
  BY <1>30, DeliverStarts DEF BeginReplay, notices, session, recovery, outbox
<1>31. ASSUME ReadTranscript PROVE Silent'
  BY <1>31 DEF ReadTranscript, Observed, notices, session, recovery, outbox
<1>32. ASSUME EndReplay PROVE Silent'
  BY <1>32, DeliverStarts DEF EndReplay, notices, session, recovery, outbox
<1>33. ASSUME PublishRest PROVE Silent'
  <2>1. /\ \A j \in Jobs : notice'[j] = notice[j] \/ (notice[j] = "none" /\ notice'[j] = "pending")
        /\ UNCHANGED <<obs, call, input, turn, todo, seen>>
    BY <1>33 DEF PublishRest, session
  <2>2. \A j \in Jobs : delivery'[j] = delivery[j] \/ (delivery'[j] = "accepting" /\ notice'[j] = "pending")
    BY <1>33, DeliverStarts DEF PublishRest
  <2>3. NothingSent'
    BY <2>1, <2>2
  <2>4. ClearedInVain'
    BY <2>1
  <2>5. FlushedClean'
    BY <2>1
  <2>6. Recallable'
    BY <2>1, <2>2
  <2> QED BY <2>3, <2>4, <2>5, <2>6
<1>34. ASSUME Restart PROVE Silent'
  BY <1>34 DEF Restart, RestartOutbox, notices, session, recovery, outbox
<1>35. ASSUME UNCHANGED vars PROVE Silent'
  BY <1>35 DEF vars, notices, session, recovery, outbox
<1> QED
  BY <1>1, <1>2, <1>3, <1>4, <1>5, <1>6, <1>7, <1>8, <1>9, <1>10, <1>11,
     <1>12, <1>13, <1>14, <1>15, <1>16, <1>17, <1>18, <1>19, <1>20, <1>21,
     <1>22, <1>23, <1>24, <1>25, <1>26, <1>27, <1>28, <1>29, <1>30, <1>31,
     <1>32, <1>33, <1>34, <1>35 DEF Next

\* Without live recoveries that observation is always there.
LEMMA SilentAlways ==
  ASSUME ~LiveRecoveries PROVE Spec => []Silent
<1>1. Init => Silent
  BY DEF Init, Silent, NothingSent, Recallable, ClearedInVain, FlushedClean
<1>2. Typed /\ Answered /\ Silent /\ [Next]_vars => Silent'
  BY SilentKept
<1> QED BY <1>1, <1>2, AnsweredAlways, TypedAlways, PTL DEF Spec

\* The notice of a job that counts as observed is never steered into a turn,
\* when no recovery meets the calls of its own process.
THEOREM ObservedSilent ==
  ASSUME ~LiveRecoveries PROVE Spec => ObservedStaysSilent
<1> DEFINE Stays(j) == notice[j] = "observed" /\ input'[j] = "steered" => input[j] = "steered"
<1>1. ASSUME Typed, Silent, [Next]_vars, NEW j \in Jobs PROVE Stays(j)
  <2> SUFFICES ASSUME notice[j] = "observed", input'[j] = "steered", input[j] # "steered" PROVE FALSE
    OBVIOUS
  <2>1. Boundary
    <3> USE <1>1 DEF Typed, TypeOK, Jobs
    <3>1. UNCHANGED input => FALSE
      OBVIOUS
    <3>2. ASSUME NEW i \in Jobs, Accept(i) \/ AcceptFails(i) PROVE FALSE
      BY <3>2 DEF Accept, AcceptFails, Admit
    <3>3. ASSUME NEW c \in Calls, Withdraw(c) \/ Recall(c) PROVE FALSE
      BY <3>3 DEF Withdraw, Recall, Withdrawn
    <3>4. ASSUME ModelTurn \/ Restart PROVE FALSE
      BY <3>4 DEF ModelTurn, Restart
    <3>5. \/ UNCHANGED input \/ Boundary \/ ModelTurn \/ Restart
          \/ \E i \in Jobs : Accept(i) \/ AcceptFails(i)
          \/ \E c \in Calls : Withdraw(c) \/ Recall(c)
      BY DEF Next, vars, session, ChildRunEnds, EnqueueCompletion, HandCompletion, CompletionHanded,
             CompletionNotHanded, OutboxFallsDue, OutboxRests, OutboxEnds, OutboxWakes, Admitted, RetryFlush,
             ProcessEnds, BeginRead, FinishRead, ReadFails, CommitResult, StartTurn, Reconcile, Flush,
             StepEnds, TurnEnds, TurnFails, BeginReplay, ReadTranscript, Recover, EndReplay, PublishRest
    <3> QED BY <3>1, <3>2, <3>3, <3>4, <3>5
  <2>2. turn = "flush" /\ input[j] = "pending"
    BY <1>1, <2>1 DEF Boundary, Typed, TypeOK, Unread
  <2>3. PICK c \in Calls : Observed(c)
    BY <1>1, <2>2 DEF Silent, Recallable
  <2> QED BY <1>1, <2>2, <2>3 DEF Silent, FlushedClean, Observed
<1>2. Typed /\ Silent /\ [Next]_vars => [\A j \in Jobs : Stays(j)]_vars
  BY <1>1
<1> QED BY <1>2, SilentAlways, TypedAlways, PTL DEF Spec, ObservedStaysSilent

-----------------------------------------------------------------------------
(* No job is forgotten *)

\* What holds a notice back is settled at the next boundary, or by the replay.
HeldIsSettled ==
  \A c \in Calls : obs[c] # "none" =>
    \/ turn \in {"act", "reconcile"}
    \/ replay \in {"off", "read"}
    \/ replay = "settle" /\ c \in todo

\* A delivery the inbox has accepted has put its input there.
AcceptedIsSent == \A j \in Jobs : delivery[j] = "accepted" => input[j] # "none"

Remembered == HeldIsSettled /\ AcceptedIsSent /\ NoticeKept

\* deliver puts on its way what is pending and not held back, and stops nothing.
LEMMA DeliverReaches ==
  ASSUME NEW js, Deliver(js), delivery \in [Jobs -> {"off", "accepting", "accepted"}]
  PROVE  /\ \A j \in Jobs : delivery[j] # "off" => delivery'[j] = delivery[j]
         /\ \A j \in Jobs : delivery'[j] = "accepted" => delivery[j] = "accepted"
         /\ \A j \in Jobs \cap js : notice'[j] = "pending" =>
              delivery'[j] # "off" \/ \E c \in Calls : Of[c] = j /\ obs'[c] # "none"
  BY DEF Deliver, Deliverable

\* No step leaves a notice that is due with nobody to look after it.
LEMMA RememberedKept ==
  ASSUME Typed, Remembered, [Next]_vars
  PROVE  Remembered'
<1> USE NoticeAssumption DEF Typed, TypeOK, OutboxTypeOK, Remembered, HeldIsSettled, AcceptedIsSent,
        NoticeKept, LookedAfter, Rows, Jobs
<1>1. ASSUME NEW j \in Jobs, Accept(j) PROVE Remembered'
  BY <1>1 DEF Accept, Admit, notices, session, recovery, outbox
<1>2. ASSUME NEW j \in Jobs, Admitted(j) PROVE Remembered'
  BY <1>2 DEF Admitted, notices, session, recovery, outbox
<1>3. ASSUME NEW j \in Jobs, AcceptFails(j) PROVE Remembered'
  BY <1>3 DEF AcceptFails, Admit, notices, session, recovery, outbox
<1>4. ASSUME NEW j \in Processes, ProcessEnds(j) PROVE Remembered'
  BY <1>4, DeliverReaches DEF ProcessEnds, ready, Publish, notices, session, recovery, outbox
<1>5. ASSUME NEW c \in Completions, ChildRunEnds(c) PROVE Remembered'
  BY <1>5 DEF ChildRunEnds, Finish, notices, session, recovery, outbox
<1>6. ASSUME NEW c \in Completions, EnqueueCompletion(c) PROVE Remembered'
  BY <1>6 DEF EnqueueCompletion, Enqueue, notices, session, recovery, outbox
<1>7. ASSUME NEW c \in Completions, HandCompletion(c) PROVE Remembered'
  BY <1>7, DeliverReaches DEF HandCompletion, Publish, Claim, notices, session, recovery, outbox
<1>8. ASSUME NEW c \in Completions, CompletionHanded(c) PROVE Remembered'
  BY <1>8 DEF CompletionHanded, Handed, notices, session, recovery, outbox
<1>9. ASSUME NEW c \in Completions, CompletionNotHanded(c) PROVE Remembered'
  BY <1>9 DEF CompletionNotHanded, HandFails, notices, session, recovery, outbox
<1>10. ASSUME NEW c \in Completions, OutboxFallsDue(c) PROVE Remembered'
  BY <1>10 DEF OutboxFallsDue, FallDue, Later, notices, session, recovery, outbox
<1>11. ASSUME NEW c \in Calls, BeginRead(c) PROVE Remembered'
  BY <1>11 DEF BeginRead, notices, session, recovery, outbox
<1>12. ASSUME NEW c \in Calls, FinishRead(c) PROVE Remembered'
  BY <1>12 DEF FinishRead, notices, session, recovery, outbox
<1>13. ASSUME NEW c \in Calls, ReadFails(c) PROVE Remembered'
  BY <1>13, DeliverReaches DEF ReadFails, notices, session, recovery, outbox
<1>14. ASSUME NEW c \in Calls, CommitResult(c) PROVE Remembered'
  BY <1>14 DEF CommitResult, notices, session, recovery, outbox
<1>15. ASSUME NEW c \in Calls, Reconcile(c) PROVE Remembered'
  BY <1>15 DEF Reconcile, Silence, notices, session, recovery, outbox
<1>16. ASSUME NEW c \in Calls, Withdraw(c) PROVE Remembered'
  BY <1>16 DEF Withdraw, Withdrawn, notices, session, recovery, outbox
<1>17. ASSUME NEW c \in Calls, Recover(c) PROVE Remembered'
  BY <1>17 DEF Recover, notices, session, recovery, outbox
<1>18. ASSUME NEW c \in Calls, Recall(c) PROVE Remembered'
  BY <1>18 DEF Recall, Withdrawn, notices, session, recovery, outbox
<1>19. ASSUME NEW j \in Jobs \cup {None}, StartTurn(j) PROVE Remembered'
  BY <1>19 DEF StartTurn, notices, session, recovery, outbox
<1>20. ASSUME OutboxRests PROVE Remembered'
  BY <1>20 DEF OutboxRests, NothingDue, notices, session, recovery, outbox
<1>21. ASSUME OutboxEnds PROVE Remembered'
  BY <1>21 DEF OutboxEnds, PumpEnds, notices, session, recovery, outbox
<1>22. ASSUME OutboxWakes PROVE Remembered'
  BY <1>22 DEF OutboxWakes, TimerFires, notices, session, recovery, outbox
<1>23. ASSUME Flush PROVE Remembered'
  BY <1>23, DeliverReaches DEF Flush, HeldBack, notices, session, recovery, outbox
<1>24. ASSUME Boundary PROVE Remembered'
  BY <1>24 DEF Boundary, notices, session, recovery, outbox
<1>25. ASSUME ModelTurn PROVE Remembered'
  BY <1>25 DEF ModelTurn, notices, session, recovery, outbox
<1>26. ASSUME StepEnds PROVE Remembered'
  BY <1>26 DEF StepEnds, notices, session, recovery, outbox
<1>27. ASSUME TurnEnds PROVE Remembered'
  BY <1>27 DEF TurnEnds, notices, session, recovery, outbox
<1>28. ASSUME TurnFails PROVE Remembered'
  BY <1>28 DEF TurnFails, notices, session, recovery, outbox
<1>29. ASSUME RetryFlush PROVE Remembered'
  BY <1>29, DeliverReaches DEF RetryFlush, notices, session, recovery, outbox
<1>30. ASSUME BeginReplay PROVE Remembered'
  BY <1>30, DeliverReaches DEF BeginReplay, notices, session, recovery, outbox
<1>31. ASSUME ReadTranscript PROVE Remembered'
  BY <1>31 DEF ReadTranscript, notices, session, recovery, outbox
<1>32. ASSUME EndReplay PROVE Remembered'
  BY <1>32, DeliverReaches DEF EndReplay, notices, session, recovery, outbox
<1>33. ASSUME PublishRest PROVE Remembered'
  <2>1. /\ replay = "publish" /\ replay' = "done"
        /\ \A j \in Jobs : notice'[j] = IF j \in ended /\ notice[j] = "none" THEN "pending" ELSE notice[j]
        /\ UNCHANGED <<ended, row, retry, obs, turn, input, todo>>
    BY <1>33 DEF PublishRest, session, outbox
  <2>2. /\ \A j \in Jobs : delivery[j] # "off" => delivery'[j] = delivery[j]
        /\ \A j \in Jobs : delivery'[j] = "accepted" => delivery[j] = "accepted"
        /\ \A j \in ended : notice'[j] = "pending" =>
             delivery'[j] # "off" \/ \E c \in Calls : Of[c] = j /\ obs'[c] # "none"
    <3>1. Deliver(ended) /\ ended \subseteq Jobs
      BY <1>33 DEF PublishRest
    <3> QED BY <3>1, DeliverReaches
  <2>3. HeldIsSettled' /\ AcceptedIsSent'
    BY <2>1, <2>2
  <2>4. \A c \in Calls : obs'[c] # "none" => turn' \in {"act", "reconcile"}
    BY <2>1
  <2>5. ASSUME NEW j \in Jobs, notice'[j] = "pending" PROVE LookedAfter(j)'
    <3>1. CASE j \in ended
      BY <2>1, <2>2, <2>4, <2>5, <3>1
    <3>2. CASE j \notin ended
      BY <2>1, <2>2, <2>5, <3>2
    <3> QED BY <3>1, <3>2
  <2>6. \A j \in Jobs :
          /\ notice'[j] = "none" => ~(j \in ended' /\ replay' = "done") /\ j \notin Rows({"delivered"})'
          /\ notice'[j] = "admitted" => input'[j] # "none"
    BY <2>1
  <2>7. NoticeKept'
    BY <2>5, <2>6 DEF NoticeKept
  <2> QED BY <2>3, <2>7
<1>34. ASSUME Restart PROVE Remembered'
  <2>1. /\ replay' = "off" /\ UNCHANGED <<notice, obs>>
        /\ \A j \in Jobs : delivery'[j] = "off"
        /\ \A c \in Completions : row'[c] = "delivered" => row[c] = "delivered"
    BY <1>34 DEF Restart, RestartOutbox
  <2>2. \A j \in Jobs : input[j] # "none" => input'[j] # "none"
    <3>1. CASE UNCHANGED input
      BY <3>1
    <3>2. CASE input' = [input EXCEPT ![owner] = "failed"]
      <4>1. \A j \in Jobs : input'[j] = IF j = owner THEN "failed" ELSE input[j]
        BY <3>2
      <4> QED BY <4>1
    <3> QED BY <1>34, <3>1, <3>2 DEF Restart
  <2>3. HeldIsSettled' /\ AcceptedIsSent'
    <3>1. HeldIsSettled'
      BY <2>1
    <3>2. AcceptedIsSent'
      BY <2>1
    <3> QED BY <3>1, <3>2
  <2>4. \A j \in Jobs : LookedAfter(j)' /\ ~(j \in ended' /\ replay' = "done")
    BY <2>1
  <2>5. \A j \in Jobs : notice'[j] = "none" => j \notin Rows({"delivered"})'
    BY <2>1
  <2>6. \A j \in Jobs : notice'[j] = "admitted" => input'[j] # "none"
    BY <2>1, <2>2
  <2> HIDE DEF LookedAfter
  <2>7. NoticeKept'
    BY <2>4, <2>5, <2>6
  <2> QED BY <2>3, <2>7
<1>35. ASSUME UNCHANGED vars PROVE Remembered'
  BY <1>35 DEF vars, notices, session, recovery, outbox
<1> QED
  BY <1>1, <1>2, <1>3, <1>4, <1>5, <1>6, <1>7, <1>8, <1>9, <1>10, <1>11,
     <1>12, <1>13, <1>14, <1>15, <1>16, <1>17, <1>18, <1>19, <1>20, <1>21,
     <1>22, <1>23, <1>24, <1>25, <1>26, <1>27, <1>28, <1>29, <1>30, <1>31,
     <1>32, <1>33, <1>34, <1>35 DEF Next

\* From its end to the inbox a job always has someone who carries it on: no
\* failure, crash, observation or late recovery drops its notice.
THEOREM JobsAreKept == Spec => []NoticeKept
<1>1. Init => Remembered
  BY DEF Init, InitOutbox, Remembered, HeldIsSettled, AcceptedIsSent, NoticeKept, Rows
<1>2. Typed /\ Remembered /\ [Next]_vars => Remembered'
  BY RememberedKept
<1> QED BY <1>1, <1>2, TypedAlways, PTL DEF Spec, Remembered
=============================================================================
