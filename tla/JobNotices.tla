------------------------------ MODULE JobNotices ------------------------------
(***************************************************************************)
(* AgentJobNotifications and AgentJobRuntime, composed with the outbox of  *)
(* child-run completions: how one session is told that its background      *)
(* jobs are over.  A notice is put into the session's inbox and read by a  *)
(* turn; or the model reads the job's output itself, and the notice is     *)
(* withdrawn once that tool result is committed to the transcript.         *)
(*                                                                         *)
(* Of the session only what these files use is here: its inbox, its        *)
(* boundaries and its transcript, as SessionInbox has them in full.        *)
(***************************************************************************)
EXTENDS CompletionOutbox

CONSTANTS
  Processes,    \* jobs run by the execution broker; the others are child runs
  Calls,        \* job_output and job_kill calls the model makes
  Of,           \* the job of a call
  Kills,        \* the calls that kill
  None,         \* no job, no call
  LiveRecoveries, \* bound: whether a recovery meets calls of its own process
  MaxFailures   \* bound: insertions and acceptances that throw, turns that fail

Jobs == Processes \cup Completions

ASSUME NoticeAssumption ==
  /\ Processes \cap Completions = {} /\ IsFiniteSet(Processes) /\ IsFiniteSet(Calls)
  /\ Of \in [Calls -> Jobs] /\ Kills \subseteq Calls
  /\ None \notin Jobs \cup Calls /\ MaxFailures \in Nat
  /\ LiveRecoveries \in BOOLEAN

VARIABLES
  ended,      \* processes that are over, as agent_jobs rows
  notice,     \* agent_job_notifications.state
  delivery,   \* deliveries.get(job): deliverOnce before or after the inbox took it
  retry,      \* AgentJobNotifications.retryTimer
  obs,        \* agent_job_observations row of a call
  call,       \* the call itself
  input,      \* the notice in the session's inbox
  turn,       \* where the session's turn stands
  failing,    \* its boundary only observes: the turn failed or was aborted
  owner,      \* the notice that started the turn, or None
  asking,     \* the observation whose notice a boundary is withdrawing
  replay,     \* AgentJobRuntime.replay of this process
  todo,       \* observations its recovery still has to settle
  seen,       \* those it found acknowledged and committed
  recalling,  \* the one of them whose notice it is withdrawing
  quiet,      \* processes the end of the host interrupted: their notice wakes nobody
  failures    \* failures so far

notices == <<ended, notice, delivery, retry, obs>>
session == <<call, input, turn, failing, owner, asking>>
recovery == <<replay, todo, seen, recalling>>
vars == <<outbox, notices, session, recovery, quiet, failures>>

ready == replay # "off"

Over(j) == j \in ended \cup finished

CallStates == {"unused", "open", "orphan", "result", "progress", "committed", "gone"}
Unread == {"pending", "steered"}
InputStates == {"none", "delivered", "cancelled", "failed"} \cup Unread

\* The model has the result of the job, or the answer to its kill.
Read(j) == \E c \in Calls : Of[c] = j /\ call[c] = "committed"

-----------------------------------------------------------------------------
(* Delivery *)

\* deliverOnce goes on only with a pending notice nobody observes.
Deliverable(j) == notice'[j] = "pending" /\ \A c \in Calls : Of[c] = j => obs'[c] = "none"

\* deliver, for each of the jobs: a delivery that is on its way is joined.
Deliver(js) ==
  delivery' = [j \in Jobs |->
    IF j \in js /\ delivery[j] = "off" /\ Deliverable(j) THEN "accepting" ELSE delivery[j]]

\* publish: the notice is inserted unless it is there.
Publish(j) ==
  /\ notice' = [notice EXCEPT ![j] = IF @ = "none" THEN "pending" ELSE @]
  /\ UNCHANGED obs
  /\ Deliver({j})

\* acceptHostInput under the session's admission: the row is saved once.
Admit(j) == input' = [input EXCEPT ![j] = IF @ = "none" THEN "pending" ELSE @]

Accept(j) ==
  /\ delivery[j] = "accepting"
  /\ delivery' = [delivery EXCEPT ![j] = "accepted"]
  /\ Admit(j)
  /\ UNCHANGED <<outbox, ended, notice, retry, obs, call, turn, failing, owner, asking, recovery, quiet, failures>>

Admitted(j) ==
  /\ delivery[j] = "accepted"
  /\ delivery' = [delivery EXCEPT ![j] = "off"]
  /\ notice' = [notice EXCEPT ![j] = IF @ = "pending" THEN "admitted" ELSE @]
  /\ UNCHANGED <<outbox, ended, retry, obs, session, recovery, quiet, failures>>

\* Preparing or saving the input fails, or publishing its event after it is
\* saved.
AcceptFails(j) ==
  /\ delivery[j] = "accepting" /\ failures < MaxFailures
  /\ failures' = failures + 1
  /\ delivery' = [delivery EXCEPT ![j] = "off"]
  /\ Admit(j) \/ UNCHANGED input
  /\ retry' = TRUE
  /\ UNCHANGED <<outbox, ended, notice, obs, call, turn, failing, owner, asking, recovery, quiet>>

RetryFlush ==
  /\ retry /\ retry' = FALSE
  /\ UNCHANGED <<notice, obs>> /\ Deliver(Jobs)
  /\ UNCHANGED <<outbox, ended, session, recovery, quiet, failures>>

-----------------------------------------------------------------------------
(* Producers *)

\* record: the row and the notice are written together once replay began.
ProcessEnds(j) ==
  /\ j \in Processes \ ended
  /\ ended' = ended \cup {j}
  /\ IF ready THEN Publish(j) ELSE UNCHANGED <<notice, delivery, obs>>
  /\ UNCHANGED <<outbox, retry, session, recovery, quiet, failures>>

ChildRunEnds(c) == Finish(c) /\ UNCHANGED <<notices, session, recovery, quiet, failures>>
EnqueueCompletion(c) == Enqueue(c) /\ UNCHANGED <<notices, session, recovery, quiet, failures>>

\* The port calls deliverAgentCompletion; its insertion may fail.
HandCompletion(c) ==
  /\ Claim(c)
  /\ \/ Publish(c) /\ UNCHANGED failures
     \/ /\ failures < MaxFailures /\ failures' = failures + 1
        /\ UNCHANGED <<notice, delivery, obs>>
  /\ UNCHANGED <<ended, retry, session, recovery, quiet>>
CompletionHanded(c) ==
  /\ Handed(c) /\ notice[c] # "none" /\ delivery[c] = "off"
  /\ UNCHANGED <<notices, session, recovery, quiet, failures>>
CompletionNotHanded(c) ==
  /\ HandFails(c) /\ notice[c] = "none"
  /\ UNCHANGED <<notices, session, recovery, quiet, failures>>

OutboxRests == NothingDue /\ UNCHANGED <<notices, session, recovery, quiet, failures>>
OutboxEnds == PumpEnds /\ UNCHANGED <<notices, session, recovery, quiet, failures>>
OutboxWakes == TimerFires /\ UNCHANGED <<notices, session, recovery, quiet, failures>>
OutboxFallsDue(c) == FallDue(c) /\ UNCHANGED <<notices, session, recovery, quiet, failures>>

-----------------------------------------------------------------------------
(* Tool calls *)

BeginRead(c) ==
  /\ turn = "act" /\ call[c] = "unused"
  /\ call' = [call EXCEPT ![c] = "open"]
  /\ obs' = [obs EXCEPT ![c] = "open"]
  /\ UNCHANGED <<outbox, ended, notice, delivery, retry, input, turn, failing, owner, asking, recovery, quiet, failures>>

\* finish: a kill and the output of a job that is over acknowledge the job.
FinishRead(c) ==
  LET acknowledges == c \in Kills \/ Over(Of[c]) IN
  /\ call[c] \in {"open", "orphan"}
  /\ call' = [call EXCEPT ![c] = IF @ = "orphan" THEN "gone"
                                 ELSE IF acknowledges THEN "result" ELSE "progress"]
  /\ obs' = [obs EXCEPT ![c] = IF @ = "open" /\ acknowledges THEN "acknowledges" ELSE @]
  /\ UNCHANGED <<outbox, ended, notice, delivery, retry, input, turn, failing, owner, asking, recovery, quiet, failures>>

\* failed
ReadFails(c) ==
  /\ call[c] \in {"open", "orphan"}
  /\ call' = [call EXCEPT ![c] = "gone"]
  /\ obs' = [obs EXCEPT ![c] = "none"]
  /\ UNCHANGED notice /\ Deliver({Of[c]})
  /\ UNCHANGED <<outbox, ended, retry, input, turn, failing, owner, asking, recovery, quiet, failures>>

\* Pi appends the tool result to the transcript.
CommitResult(c) ==
  /\ turn = "act" /\ call[c] \in {"result", "progress"}
  /\ call' = [call EXCEPT ![c] = IF @ = "result" THEN "committed" ELSE "gone"]
  /\ UNCHANGED <<outbox, notices, input, turn, failing, owner, asking, recovery, quiet, failures>>

-----------------------------------------------------------------------------
(* Turns and their boundaries *)

\* A human message, or the pump with a pending notice.
StartTurn(j) ==
  /\ turn = "off" /\ owner' = j
  /\ j # None => j \notin quiet /\ input[j] \in Unread
  /\ turn' = "reconcile" /\ failing' = FALSE
  /\ UNCHANGED <<outbox, notices, call, input, asking, recovery, quiet, failures>>

\* reconcile settles one observation after the other.  An acknowledged job
\* whose result is in the transcript needs no notice any more; of one that was
\* published the input is withdrawn before the row is removed.
EveryAcknowledged(c) == obs[c] = "acknowledges"  \* fault: committed or not
Observed(c) == obs[c] = "acknowledges" /\ call[c] = "committed"

Silence(c) ==
  /\ notice' = [notice EXCEPT ![Of[c]] = IF Observed(c) THEN "observed" ELSE @]
  /\ IF Observed(c) /\ notice[Of[c]] # "none"
       THEN asking' = c /\ UNCHANGED obs
       ELSE obs' = [obs EXCEPT ![c] = "none"] /\ UNCHANGED asking

Reconcile(c) ==
  /\ turn = "reconcile" /\ asking = None /\ obs[c] # "none"
  /\ Silence(c)
  /\ UNCHANGED <<outbox, ended, delivery, retry, call, input, turn, failing, owner, recovery, quiet, failures>>

\* withdrawHostInput under the admission, behind an acceptance that is before
\* it; a row that has been scheduled stays.
LeavesInput(j) == input  \* fault
Withdrawn(j) == [input EXCEPT ![j] = IF @ = "pending" THEN "cancelled" ELSE @]

Withdraw(c) ==
  /\ asking = c /\ delivery[Of[c]] # "accepting"
  /\ input' = Withdrawn(Of[c])
  /\ obs' = [obs EXCEPT ![c] = "none"] /\ asking' = None
  /\ UNCHANGED <<outbox, ended, notice, delivery, retry, call, turn, failing, owner, recovery, quiet, failures>>

\* flush, once every observation is settled: notices that were held back go.
NothingHeldBack == {}  \* fault
HeldBack == Jobs

Flush ==
  /\ turn = "reconcile" /\ asking = None /\ \A c \in Calls : obs[c] = "none"
  /\ turn' = "flush"
  /\ UNCHANGED <<notice, obs>> /\ Deliver(HeldBack)
  /\ UNCHANGED <<outbox, ended, retry, call, input, failing, owner, asking, recovery, quiet, failures>>

\* The inbox's own part of the boundary, when the deliveries are done: what is
\* pending is steered into the turn, but for the input that owns it.  A turn
\* that failed takes its own input along, one that was stopped all it was given.
Boundary ==
  /\ turn = "flush" /\ \A j \in Jobs : delivery[j] = "off" \/ notice[j] # "pending"
  /\ IF failing
       THEN /\ turn' = "off" /\ owner' = None
            /\ \E lost \in {{owner}, Jobs} :
                 input' = [j \in Jobs |-> IF j \in lost /\ input[j] \in Unread THEN "failed" ELSE input[j]]
       ELSE /\ input' = [j \in Jobs |-> IF j # owner /\ input[j] = "pending" THEN "steered" ELSE input[j]]
            /\ UNCHANGED owner
            /\ turn' = "model"
  /\ UNCHANGED <<outbox, notices, call, failing, asking, recovery, quiet, failures>>

\* The turn's prompt, or what was steered, is committed and read.
ModelTurn ==
  /\ turn = "model"
  /\ turn' = "act"
  /\ input' = [j \in Jobs |->
       IF input[j] = "steered" \/ (j = owner /\ input[j] = "pending") THEN "delivered" ELSE input[j]]
  /\ UNCHANGED <<outbox, notices, call, failing, owner, asking, recovery, quiet, failures>>

\* The tool calls of the step are done.
StepEnds ==
  /\ turn = "act" /\ \A c \in Calls : call[c] \in {"unused", "orphan", "committed", "gone"}
  /\ turn' = "reconcile"
  /\ UNCHANGED <<outbox, notices, call, input, failing, owner, asking, recovery, quiet, failures>>

\* Nothing was steered and no tool was called: the turn settles.
TurnEnds ==
  /\ turn = "model" /\ \A j \in Jobs : input[j] # "steered" /\ (j = owner => input[j] # "pending")
  /\ turn' = "off" /\ owner' = None
  /\ UNCHANGED <<outbox, notices, call, input, failing, asking, recovery, quiet, failures>>

\* The model fails or the turn is aborted; results that are not committed are
\* lost, and calls that are still open go on without it.
TurnFails ==
  /\ turn \in {"model", "act"} /\ failures < MaxFailures
  /\ failures' = failures + 1
  /\ turn' = "reconcile" /\ failing' = TRUE
  /\ call' = [c \in Calls |-> CASE call[c] \in {"result", "progress"} -> "gone"
                                [] call[c] = "open" -> "orphan"
                                [] OTHER -> call[c]]
  /\ UNCHANGED <<outbox, notices, input, owner, asking, recovery, quiet>>

-----------------------------------------------------------------------------
(* Replay, once in each process, beside turns the session has resumed *)

\* recoverObservations begins to read the transcript of a session that has
\* observations; without any the flush comes at once.
BeginReplay ==
  /\ replay = "off"
  /\ IF \A c \in Calls : obs[c] = "none"
       THEN replay' = "publish" /\ UNCHANGED <<notice, obs>> /\ Deliver(Jobs)
       ELSE replay' = "read" /\ UNCHANGED <<notice, obs, delivery>>
  /\ UNCHANGED <<outbox, ended, retry, session, todo, seen, recalling, quiet, failures>>

ReadTranscript ==
  /\ replay = "read" /\ replay' = "settle"
  /\ LiveRecoveries \/ \A c \in Calls : obs[c] # "none" => call[c] \in {"committed", "gone"}
  /\ todo' = {c \in Calls : obs[c] # "none"}
  /\ seen' = {c \in Calls : Observed(c)}
  /\ UNCHANGED <<outbox, notices, session, recalling, quiet, failures>>

\* One observation is settled from the copy read before: nobody needs its
\* notice any more, or the observation did not get into the transcript.  The
\* withdrawal goes through the admission like a boundary's.
Recover(c) ==
  /\ replay = "settle" /\ recalling = None /\ c \in todo
  /\ notice' = [notice EXCEPT ![Of[c]] = IF c \in seen THEN "observed" ELSE @]
  /\ IF c \in seen /\ notice[Of[c]] # "none"
       THEN recalling' = c /\ UNCHANGED <<obs, todo>>
       ELSE obs' = [obs EXCEPT ![c] = "none"] /\ todo' = todo \ {c} /\ UNCHANGED recalling
  /\ UNCHANGED <<outbox, ended, delivery, retry, session, replay, seen, quiet, failures>>

Recall(c) ==
  /\ recalling = c /\ delivery[Of[c]] # "accepting"
  /\ input' = Withdrawn(Of[c])
  /\ obs' = [obs EXCEPT ![c] = "none"] /\ todo' = todo \ {c} /\ recalling' = None
  /\ UNCHANGED <<outbox, ended, notice, delivery, retry, call, turn, failing, owner, asking,
                 replay, seen, quiet, failures>>

EndReplay ==
  /\ replay = "settle" /\ todo = {}
  /\ replay' = "publish" /\ seen' = {}
  /\ UNCHANGED <<notice, obs>> /\ Deliver(Jobs)
  /\ UNCHANGED <<outbox, ended, retry, session, todo, recalling, quiet, failures>>

\* Results of processes that were not published yet, when the deliveries of
\* the flush are done.
PublishRest ==
  /\ replay = "publish" /\ \A j \in Jobs : delivery[j] = "off" \/ notice[j] # "pending"
  /\ replay' = "done"
  /\ notice' = [j \in Jobs |-> IF j \in ended /\ notice[j] = "none" THEN "pending" ELSE notice[j]]
  /\ UNCHANGED obs /\ Deliver(ended)
  /\ UNCHANGED <<outbox, ended, retry, session, todo, seen, recalling, quiet, failures>>

-----------------------------------------------------------------------------
(* The process *)

\* The process ends and starts again.  Jobs of the broker do not outlive it;
\* rows and the transcript do.  Whether the input that owned the turn is tried
\* again is decided by the session's own recovery.
Restart ==
  /\ RestartOutbox
  /\ ended' = Processes /\ quiet' = quiet \cup (Processes \ ended)
  /\ delivery' = [j \in Jobs |-> "off"] /\ retry' = FALSE
  /\ call' = [c \in Calls |-> IF call[c] \in {"unused", "committed"} THEN call[c] ELSE "gone"]
  /\ turn' = "off" /\ failing' = FALSE /\ owner' = None /\ asking' = None
  /\ \/ UNCHANGED input
     \/ owner # None /\ input[owner] \in Unread /\ input' = [input EXCEPT ![owner] = "failed"]
  /\ replay' = "off" /\ todo' = {} /\ seen' = {} /\ recalling' = None
  /\ UNCHANGED <<notice, obs, failures>>

Init ==
  /\ InitOutbox
  /\ ended = {} /\ quiet = {}
  /\ notice = [j \in Jobs |-> "none"]
  /\ delivery = [j \in Jobs |-> "off"] /\ retry = FALSE
  /\ obs = [c \in Calls |-> "none"] /\ call = [c \in Calls |-> "unused"]
  /\ input = [j \in Jobs |-> "none"]
  /\ turn = "off" /\ failing = FALSE /\ owner = None /\ asking = None
  /\ replay = "done" /\ todo = {} /\ seen = {} /\ recalling = None
  /\ failures = 0

Next ==
  \/ \E j \in Jobs : Accept(j) \/ Admitted(j) \/ AcceptFails(j)
  \/ \E j \in Processes : ProcessEnds(j)
  \/ \E c \in Completions :
       \/ ChildRunEnds(c) \/ EnqueueCompletion(c)
       \/ HandCompletion(c) \/ CompletionHanded(c) \/ CompletionNotHanded(c) \/ OutboxFallsDue(c)
  \/ OutboxRests \/ OutboxEnds \/ OutboxWakes
  \/ \E c \in Calls :
       \/ BeginRead(c) \/ FinishRead(c) \/ ReadFails(c) \/ CommitResult(c)
       \/ Reconcile(c) \/ Withdraw(c) \/ Recover(c) \/ Recall(c)
  \/ \E j \in Jobs \cup {None} : StartTurn(j)
  \/ Flush \/ Boundary \/ ModelTurn \/ StepEnds \/ TurnEnds \/ TurnFails
  \/ RetryFlush \/ BeginReplay \/ ReadTranscript \/ EndReplay \/ PublishRest
  \/ Restart

Spec == Init /\ [][Next]_vars

\* What was started goes on: deliveries, boundaries, timers, tool calls, and
\* the turn of an input that is pending.  Nothing makes the model read a job,
\* or a human start a turn.
Fairness ==
  /\ \A j \in Jobs : WF_vars(Accept(j)) /\ WF_vars(Admitted(j)) /\ WF_vars(StartTurn(j))
  /\ \A c \in Completions :
       /\ WF_vars(EnqueueCompletion(c)) /\ WF_vars(HandCompletion(c))
       /\ WF_vars(CompletionHanded(c) \/ CompletionNotHanded(c)) /\ WF_vars(OutboxFallsDue(c))
  /\ WF_vars(OutboxRests) /\ WF_vars(OutboxEnds) /\ WF_vars(OutboxWakes)
  /\ \A c \in Calls :
       /\ WF_vars(FinishRead(c)) /\ WF_vars(CommitResult(c))
       /\ WF_vars(Reconcile(c)) /\ WF_vars(Withdraw(c)) /\ WF_vars(Recover(c)) /\ WF_vars(Recall(c))
  /\ WF_vars(Flush) /\ WF_vars(Boundary) /\ WF_vars(ModelTurn) /\ WF_vars(StepEnds) /\ WF_vars(TurnEnds)
  /\ WF_vars(RetryFlush)
  /\ WF_vars(BeginReplay) /\ WF_vars(ReadTranscript) /\ WF_vars(EndReplay) /\ WF_vars(PublishRest)

FairSpec == Spec /\ Fairness

-----------------------------------------------------------------------------
(* Properties *)

\* Type correctness; a withdrawal belongs to a boundary or to a replay.
TypeOK ==
  /\ OutboxTypeOK
  /\ ended \subseteq Processes /\ quiet \subseteq Processes
  /\ notice \in [Jobs -> {"none", "pending", "admitted", "observed"}]
  /\ delivery \in [Jobs -> {"off", "accepting", "accepted"}] /\ retry \in BOOLEAN
  /\ obs \in [Calls -> {"none", "open", "acknowledges"}]
  /\ call \in [Calls -> CallStates]
  /\ input \in [Jobs -> InputStates]
  /\ turn \in {"off", "reconcile", "flush", "model", "act"} /\ failing \in BOOLEAN
  /\ owner \in Jobs \cup {None} /\ asking \in Calls \cup {None}
  /\ replay \in {"off", "read", "settle", "publish", "done"}
  /\ todo \subseteq Calls /\ seen \subseteq Calls /\ recalling \in Calls \cup {None}
  /\ failures \in Nat
  /\ asking # None => turn = "reconcile"
  /\ recalling # None => replay = "settle"

\* A notice is silenced only for a model that has the result: the job is
\* marked as observed, or its input withdrawn, when a tool result that
\* acknowledges it is in the transcript, whatever failed or crashed since.
SilencedWasRead ==
  \A j \in Jobs : notice[j] = "observed" \/ input[j] = "cancelled" => Read(j)

\* The notice of a job that counts as observed is never steered into a turn,
\* although its delivery may have been on its way when the model read the
\* job, and a recovery may be withdrawing it beside the turn.
ObservedStaysSilent ==
  [][\A j \in Jobs : notice[j] = "observed" /\ input'[j] = "steered" => input[j] = "steered"]_vars

\* What still looks at a pending notice: its delivery, the timer, a flush that
\* is due, or the end of the step whose tool call holds it back.
LookedAfter(j) ==
  \/ delivery[j] # "off" \/ retry
  \/ turn = "reconcile" \/ replay \in {"off", "read", "settle"}
  \/ turn = "act" /\ \E c \in Calls : Of[c] = j /\ obs[c] # "none"

\* No job is forgotten on its way from its end to the inbox, whatever held its
\* notice back, failed or crashed: a process that is over has a notice once
\* the replay is done, a completion before its row is delivered; a pending
\* notice is looked after, and an admitted one has its input.
NoticeKept ==
  \A j \in Jobs :
    /\ notice[j] = "none" => ~(j \in ended /\ replay = "done") /\ j \notin Rows({"delivered"})
    /\ notice[j] = "pending" => LookedAfter(j)
    /\ notice[j] = "admitted" => input[j] # "none"

\* Every job that is over is told: its notice or its result is read by the
\* model, unless the turn that was to read it failed or was stopped, the
\* outbox gave up, or the end of the host interrupted the job.
EveryJobTold ==
  \A j \in Jobs : Over(j) ~>
    \/ Read(j) \/ input[j] \in {"delivered", "failed"}
    \/ j \in Rows({"dropped"}) \/ j \in quiet
=============================================================================
