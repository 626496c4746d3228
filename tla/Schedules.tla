------------------------------- MODULE Schedules -------------------------------
(***************************************************************************)
(* AgentScheduleRuntime and AgentSqliteScheduledTaskStore: schedules whose *)
(* due occurrences are put into a session's inbox, and deferred tasks that *)
(* are executed at once and whose result is delivered later.  A tick       *)
(* claims due work in one transaction; the claim is a lease, so that the   *)
(* work of a process that died, or was too slow, is claimed again.         *)
(*                                                                         *)
(* Definitions marked `fault' are seeded faults: each replaces the         *)
(* definition that follows it to show that a property notices.             *)
(***************************************************************************)
EXTENDS Naturals, FiniteSets

CONSTANTS
  OneTime, Recurring,  \* schedules that instruct a session at the due time
  Deferred,            \* tasks executed when created, with deferred delivery
  Prompts,             \* instructions a schedule may have
  Claims,              \* claim ids
  None,                \* no prompt, no claim
  MaxRuns,             \* bound: runs of each task
  MaxFaults,           \* bound: leases that expire while their process lives,
                       \*   admissions and deliveries that throw, ends of the process
  MaxEdits,            \* bound: updates of tasks, other than resumptions
  LateResumes          \* bound: resumptions of a one-time schedule that has fired

Instructed == OneTime \cup Recurring
Tasks == Instructed \cup Deferred
Runs == UNION {{t} \X (1..MaxRuns[t]) : t \in Tasks}

ASSUME ScheduleAssumption ==
  /\ IsFiniteSet(Tasks) /\ OneTime \cap Recurring = {} /\ Instructed \cap Deferred = {}
  /\ None \notin Prompts \cup Claims
  /\ {MaxFaults, MaxEdits, LateResumes} \subseteq Nat /\ MaxRuns \in [Tasks -> Nat \ {0}]
  /\ IsFiniteSet(Claims) /\ Cardinality(Claims) > MaxFaults + 1 /\ Prompts # {}

VARIABLES
  plan,        \* enabled and next_run_at of a task, against the clock
  fired,       \* one-time schedules whose instant has its run
  prompt,      \* scheduled_tasks.prompt
  status,      \* execution_status of a run
  text,        \* instruction_prompt of a run
  claim,       \* claim_id
  expired,     \* claim_until is over
  delivery,    \* delivery_status and delivery_claim_id of a deferred run
  ripe,        \* deliver_at is over
  jobs,        \* claims in the runnable queue: executeClaim
  delivering,  \* delivery claims the tick still has to serve
  inbox,       \* the instruction of a run in its session's inbox
  active,      \* AgentScheduleRuntime.active
  spent        \* what the bounds count

tasks == <<plan, fired, prompt>>
claims == <<status, claim, expired>>
results == <<delivery, ripe, delivering>>
vars == <<tasks, claims, text, results, jobs, inbox, active, spent>>

Bounds == [faults |-> MaxFaults, edits |-> MaxEdits, resumes |-> LateResumes]
Spend(b) == spent[b] < Bounds[b] /\ spent' = [spent EXCEPT ![b] = @ + 1]

TaskOf(r) == r[1]
RunsOf(t) == {r \in Runs : TaskOf(r) = t}
Unsettled(r) == status[r] \in {"queued", "claimed", "running"}
Settled(r) == status[r] \in {"succeeded", "failed"}

Unused(t) == {r \in RunsOf(t) : status[r] = "none"}
NextRun(t) == CHOOSE r \in Unused(t) : TRUE
SetPlan(t, p) == plan' = [plan EXCEPT ![t] = p]

-----------------------------------------------------------------------------
(* Definitions *)

\* create: a deferred task has its run at once.
Create(t) ==
  /\ active /\ plan[t] = "none" /\ SetPlan(t, "future")
  /\ IF t \in Deferred
       THEN /\ status' = [status EXCEPT ![NextRun(t)] = "queued"]
            /\ delivery' = [delivery EXCEPT ![NextRun(t)] = "pending"]
       ELSE UNCHANGED <<status, delivery>>
  /\ UNCHANGED <<fired, prompt, text, claim, expired, ripe, jobs, delivering, inbox, active, spent>>

\* The next occurrence of an enabled schedule is reached.
FallDue(t) ==
  /\ t \in Instructed /\ plan[t] = "future" /\ Unused(t) # {}
  /\ SetPlan(t, "due")
  /\ UNCHANGED <<fired, prompt, claims, text, results, jobs, inbox, active, spent>>

Exists(t) == plan[t] \notin {"none", "gone"}

\* update with another prompt.
Edit(t) ==
  /\ active /\ t \in Instructed /\ Exists(t)
  /\ \E p \in Prompts \ {prompt[t]} : prompt' = [prompt EXCEPT ![t] = p]
  /\ Spend("edits")
  /\ UNCHANGED <<plan, fired, claims, text, results, jobs, inbox, active>>

\* What an update makes of the deliveries that are pending, claimed or not.
Redeliver(t, d) ==
  /\ delivery' = [r \in Runs |-> IF TaskOf(r) = t /\ delivery[r] \in {"pending", "claimed"}
                                   THEN d ELSE delivery[r]]
  /\ ripe' = [r \in Runs |-> ripe[r] /\ TaskOf(r) # t]

Pause(t) ==
  /\ active /\ plan[t] \in {"future", "due"} /\ SetPlan(t, "off") /\ Spend("edits")
  /\ IF t \in Deferred THEN Redeliver(t, "not_required") ELSE UNCHANGED <<delivery, ripe>>
  /\ UNCHANGED <<fired, prompt, claims, text, delivering, jobs, inbox, active>>

\* A one-time schedule gets back its instant, which may be over.
Resume(t) ==
  /\ active /\ t \in Instructed /\ plan[t] = "off" /\ Unused(t) # {}
  /\ IF t \in fired THEN Spend("resumes") /\ SetPlan(t, "due")
       ELSE UNCHANGED spent /\ \E p \in {"future"} \cup (IF t \in OneTime THEN {"due"} ELSE {}) : SetPlan(t, p)
  /\ UNCHANGED <<fired, prompt, claims, text, results, jobs, inbox, active>>

\* update with another time; a task that is off stays off.
Reschedule(t) ==
  /\ active /\ Exists(t) /\ Spend("edits")
  /\ SetPlan(t, IF plan[t] = "off" THEN "off" ELSE "future")
  /\ fired' = fired \ {t}
  /\ IF t \in Deferred THEN Redeliver(t, IF plan[t] = "off" THEN "not_required" ELSE "pending")
                       ELSE UNCHANGED <<delivery, ripe>>
  /\ UNCHANGED <<prompt, claims, text, delivering, jobs, inbox, active>>

\* runNow: a run of its own beside those that are under way.
RunNow(t) ==
  /\ active /\ t \in Instructed /\ Exists(t)
  /\ Cardinality(Unused(t)) > (IF plan[t] = "due" THEN 1 ELSE 0)
  /\ status' = [status EXCEPT ![NextRun(t)] = "queued"]
  /\ text' = [text EXCEPT ![NextRun(t)] = prompt[t]]
  /\ UNCHANGED <<tasks, claim, expired, results, jobs, inbox, active, spent>>

\* delete, also of each task of a session that is removed: the runs go with it.
Delete(t) ==
  /\ active /\ Exists(t) /\ SetPlan(t, "gone")
  /\ status' = [r \in Runs |-> IF TaskOf(r) = t THEN "gone" ELSE status[r]]
  /\ delivery' = [r \in Runs |-> IF TaskOf(r) = t THEN "none" ELSE delivery[r]]
  /\ UNCHANGED <<fired, prompt, text, claim, expired, ripe, jobs, delivering, inbox, active, spent>>

-----------------------------------------------------------------------------
(* The tick *)

Claimable == {r \in Runs : status[r] = "queued" \/ (status[r] \in {"claimed", "running"} /\ expired[r])}

\* A schedule waits for its earlier runs: what it misses meanwhile coalesces.
DueTasks == {t \in Instructed : plan[t] = "due" /\ \A r \in RunsOf(t) : ~Unsettled(r)}

\* A task has one run for each instant; a second one makes the transaction
\* and the tick fail.
TickFails == \E t \in DueTasks : t \in fired

\* Claim ids are new: nobody still works with this one.
FreshClaims(r) == {k \in Claims \ {claim[r]} : \A j \in jobs : j.run = r => j.claim # k}
Fresh(r) == CHOOSE k \in FreshClaims(r) : TRUE

\* claimDue
Tick ==
  LET new == {NextRun(t) : t \in DueTasks}
      taken == Claimable \cup new IN
  /\ active /\ delivering = {} /\ ~TickFails /\ taken # {}
  /\ \A r \in taken : FreshClaims(r) # {}
  /\ status' = [r \in Runs |-> IF r \in taken THEN "claimed" ELSE status[r]]
  /\ claim' = [r \in Runs |-> IF r \in taken THEN Fresh(r) ELSE claim[r]]
  /\ expired' = [r \in Runs |-> expired[r] /\ r \notin taken]
  /\ text' = [r \in Runs |-> IF r \in new THEN prompt[TaskOf(r)] ELSE text[r]]
  /\ jobs' = jobs \cup {[run |-> r, claim |-> Fresh(r), stage |-> "waiting"] : r \in taken}
  /\ plan' = [t \in Tasks |-> IF t \notin DueTasks THEN plan[t]
                              ELSE IF t \in OneTime THEN "off" ELSE "future"]
  /\ fired' = fired \cup (DueTasks \cap OneTime)
  /\ UNCHANGED <<prompt, results, inbox, active, spent>>

\* A claim expires: its process is gone, its job ended without an answer, or
\* the process lives but was suspended or slow.
Abandoned(r) == \A j \in jobs : j.run = r => j.claim # claim[r]

Expire(r) ==
  /\ status[r] \in {"claimed", "running"} /\ ~expired[r]
  /\ expired' = [expired EXCEPT ![r] = TRUE]
  /\ IF Abandoned(r) THEN UNCHANGED spent ELSE Spend("faults")
  /\ UNCHANGED <<tasks, status, claim, text, results, jobs, inbox, active>>

-----------------------------------------------------------------------------
(* executeClaim *)

End(j) == jobs' = jobs \ {j}
Move(j, s) == jobs' = (jobs \ {j}) \cup {[j EXCEPT !.stage = s]}

HasRun(j) == status[j.run] # "gone"  \* fault: the claim is not compared
Holds(j) == status[j.run] \in {"claimed", "running"} /\ claim[j.run] = j.claim

\* The guarded updates of the store.
SetStatus(j, s) == status' = [status EXCEPT ![j.run] = IF Holds(j) THEN s ELSE @]
Release(j) == SetStatus(j, "queued") /\ End(j)

\* The runtime was stopped meanwhile.
GiveBack(j) ==
  /\ j.stage = "waiting" /\ ~active
  /\ Release(j)
  /\ UNCHANGED <<tasks, claim, expired, text, results, inbox, active, spent>>

PromptOfTask(r) == prompt[TaskOf(r)]  \* fault: not the occurrence's own
Instruction(r) == text[r]

Begins(j) == j.stage = "waiting" /\ active /\ TaskOf(j.run) \in Instructed
Insert(r) == inbox' = [inbox EXCEPT ![r] = IF @ = None THEN Instruction(r) ELSE @]

\* deliverInstruction: acceptHostInput saves the input, or finds it by its
\* delivery id, and refuses another content; a deleted task has no tool ceiling.
Admit(j) ==
  /\ Begins(j)
  /\ \/ /\ plan[TaskOf(j.run)] # "gone" /\ inbox[j.run] \in {None, Instruction(j.run)}
        /\ Insert(j.run) /\ Move(j, "admitted") /\ UNCHANGED status
     \/ /\ plan[TaskOf(j.run)] = "gone" \/ inbox[j.run] \notin {None, Instruction(j.run)}
        /\ UNCHANGED inbox /\ Release(j)
  /\ UNCHANGED <<tasks, claim, expired, text, results, active, spent>>

\* The admission throws, before or after the input is saved.
AdmitFails(j) ==
  /\ Begins(j) /\ plan[TaskOf(j.run)] # "gone" /\ Spend("faults")
  /\ Release(j)
  /\ UNCHANGED inbox \/ Insert(j.run)
  /\ UNCHANGED <<tasks, claim, expired, text, results, active>>

\* completeAdmission
Receipt(j) ==
  /\ j.stage = "admitted"
  /\ SetStatus(j, "succeeded") /\ End(j)
  /\ UNCHANGED <<tasks, claim, expired, text, results, inbox, active, spent>>

NeverActive(r) == FALSE  \* fault
Executing(r) == \E j \in jobs : j.run = r /\ j.stage \in {"running", "interrupted"}

\* A deferred run: markRunning, and it is dispatched to a session of its own.
Execute(j) ==
  /\ j.stage = "waiting" /\ active /\ TaskOf(j.run) \in Deferred
  /\ IF Executing(j.run) \/ ~(Holds(j) /\ status[j.run] = "claimed")
       THEN End(j) /\ UNCHANGED <<status, expired>>
       ELSE /\ SetStatus(j, "running") /\ Move(j, "running")
            /\ expired' = [expired EXCEPT ![j.run] = FALSE]
  /\ UNCHANGED <<tasks, claim, text, results, inbox, active, spent>>

\* The renewal timer; a claim nobody took over is renewed though it expired.
Renew(j) ==
  /\ j.stage = "running" /\ Holds(j) /\ expired[j.run]
  /\ expired' = [expired EXCEPT ![j.run] = FALSE]
  /\ UNCHANGED <<tasks, status, claim, text, results, jobs, inbox, active, spent>>

\* The renewal found the claim lost, the task was deleted or the runtime
\* stopped: the execution is aborted, recoverably.
Interrupt(j) ==
  /\ j.stage = "running" /\ (~active \/ ~Holds(j))
  /\ Move(j, "interrupted")
  /\ UNCHANGED <<tasks, claims, text, results, inbox, active, spent>>

Interrupted(j) ==
  /\ j.stage = "interrupted"
  /\ Release(j)
  /\ UNCHANGED <<tasks, claim, expired, text, results, inbox, active, spent>>

\* The result, or a failure, is recorded; of a task that was stopped a failure
\* is not delivered.
Record(j, s) ==
  /\ j.stage \in {"running", "interrupted"}
  /\ s = "failed" => j.stage = "running"
  /\ SetStatus(j, s) /\ End(j)
  /\ delivery' = [delivery EXCEPT ![j.run] =
       IF ~Holds(j) THEN @
       ELSE IF s = "succeeded" \/ plan[TaskOf(j.run)] # "off" THEN "pending" ELSE "not_required"]
  /\ UNCHANGED <<tasks, claim, expired, text, ripe, delivering, inbox, active, spent>>

-----------------------------------------------------------------------------
(* Deferred delivery *)

Ripen(r) ==
  /\ TaskOf(r) \in Deferred /\ status[r] \notin {"none", "gone"} /\ ~ripe[r]
  /\ ripe' = [ripe EXCEPT ![r] = TRUE]
  /\ UNCHANGED <<tasks, claims, text, delivery, delivering, jobs, inbox, active, spent>>

Deliverable == {r \in Runs : Settled(r) /\ delivery[r] = "pending" /\ ripe[r]}

\* claimPendingDeliveries, in the tick that has just claimed what is due.
ClaimDeliveries ==
  /\ active /\ delivering = {} /\ Claimable = {} /\ DueTasks = {} /\ Deliverable # {}
  /\ delivering' = Deliverable
  /\ delivery' = [r \in Runs |-> IF r \in Deliverable THEN "claimed" ELSE delivery[r]]
  /\ UNCHANGED <<tasks, claims, text, ripe, jobs, inbox, active, spent>>

Mark(r, d) ==
  /\ r \in delivering /\ delivering' = delivering \ {r}
  /\ delivery' = [delivery EXCEPT ![r] = IF @ = "claimed" THEN d ELSE @]

\* The owner's session has the result; the task is done.
Delivered(r) ==
  /\ Mark(r, "delivered")
  /\ plan' = [plan EXCEPT ![TaskOf(r)] = IF delivery[r] = "claimed" THEN "off" ELSE @]
  /\ UNCHANGED <<fired, prompt, claims, text, ripe, jobs, inbox, active, spent>>

Busy(r) ==
  /\ Mark(r, "pending")
  /\ UNCHANGED <<tasks, claims, text, ripe, jobs, inbox, active, spent>>

\* The session or the channel throws: the tick gives up its other claims too.
DeliveryFails ==
  /\ delivering # {} /\ Spend("faults")
  /\ delivering' = {}
  /\ UNCHANGED <<tasks, claims, text, delivery, ripe, jobs, inbox, active>>

\* delivery_claim_until is over.
ExpireDelivery(r) ==
  /\ delivery[r] = "claimed" /\ r \notin delivering
  /\ delivery' = [delivery EXCEPT ![r] = "pending"]
  /\ UNCHANGED <<tasks, claims, text, ripe, delivering, jobs, inbox, active, spent>>

-----------------------------------------------------------------------------
(* The process *)

\* stop: no new work; waiting claims are given back, executions interrupted.
Stop ==
  /\ active /\ active' = FALSE
  /\ UNCHANGED <<tasks, claims, text, results, jobs, inbox, spent>>

\* The process ends, stopped or not, and the runtime is started again.
Restart ==
  /\ Spend("faults")
  /\ jobs' = {} /\ delivering' = {} /\ active' = TRUE
  /\ UNCHANGED <<tasks, claims, text, delivery, ripe, inbox>>

Init ==
  /\ plan = [t \in Tasks |-> "none"] /\ fired = {}
  /\ prompt = [t \in Instructed |-> CHOOSE p \in Prompts : TRUE]
  /\ status = [r \in Runs |-> "none"] /\ text = [r \in Runs |-> None]
  /\ claim = [r \in Runs |-> None] /\ expired = [r \in Runs |-> FALSE]
  /\ delivery = [r \in Runs |-> "none"] /\ ripe = [r \in Runs |-> FALSE] /\ delivering = {}
  /\ jobs = {} /\ inbox = [r \in Runs |-> None] /\ active = TRUE
  /\ spent = [b \in DOMAIN Bounds |-> 0]

Next ==
  \/ \E t \in Tasks : \/ Create(t) \/ FallDue(t) \/ Edit(t) \/ Pause(t) \/ Resume(t)
                      \/ Reschedule(t) \/ RunNow(t) \/ Delete(t)
  \/ \E j \in jobs : \/ GiveBack(j) \/ Admit(j) \/ AdmitFails(j) \/ Receipt(j)
                     \/ Execute(j) \/ Renew(j) \/ Interrupt(j) \/ Interrupted(j)
                     \/ \E s \in {"succeeded", "failed"} : Record(j, s)
  \/ \E r \in Runs : \/ Expire(r) \/ Ripen(r) \/ Delivered(r) \/ Busy(r) \/ ExpireDelivery(r)
  \/ Tick \/ ClaimDeliveries \/ DeliveryFails \/ Stop \/ Restart

Spec == Init /\ [][Next]_vars

\* The next step of the job of a claim; an execution need not end by itself.
Proceed(r, k) ==
  \E j \in jobs : /\ j.run = r /\ j.claim = k
                  /\ \/ GiveBack(j) \/ Admit(j) \/ Receipt(j)
                     \/ Execute(j) \/ Interrupt(j) \/ Interrupted(j)

\* The poll timer fires, claims nobody works on expire, admissions are
\* answered, and a session is not busy at every delivery.
Fairness ==
  /\ WF_vars(Tick) /\ WF_vars(ClaimDeliveries)
  /\ \A r \in Runs :
       /\ WF_vars(Abandoned(r) /\ Expire(r)) /\ WF_vars(ExpireDelivery(r))
       /\ WF_vars(Delivered(r) \/ Busy(r)) /\ SF_vars(Delivered(r))
       /\ \A k \in Claims : WF_vars(Proceed(r, k))

FairSpec == Spec /\ Fairness

-----------------------------------------------------------------------------
(* Properties *)

\* Type correctness.
TypeOK ==
  /\ plan \in [Tasks -> {"none", "future", "due", "off", "gone"}]
  /\ fired \subseteq OneTime /\ prompt \in [Instructed -> Prompts]
  /\ status \in [Runs -> {"none", "queued", "claimed", "running", "succeeded", "failed", "gone"}]
  /\ text \in [Runs -> Prompts \cup {None}] /\ inbox \in [Runs -> Prompts \cup {None}]
  /\ claim \in [Runs -> Claims \cup {None}] /\ expired \in [Runs -> BOOLEAN]
  /\ delivery \in [Runs -> {"none", "pending", "claimed", "delivered", "not_required"}]
  /\ ripe \in [Runs -> BOOLEAN] /\ delivering \subseteq Runs
  /\ jobs \subseteq [run : Runs, claim : Claims,
                     stage : {"waiting", "admitted", "running", "interrupted"}]
  /\ active \in BOOLEAN /\ spent \in [DOMAIN Bounds -> Nat]

\* A deferred run is never executed twice at a time: not when its claim is
\* lost and taken over while the execution that lost it still goes on.
OneExecution ==
  \A i, j \in jobs :
    i.run = j.run /\ {i.stage, j.stage} \subseteq {"running", "interrupted"} => i = j

\* What is settled is never claimed or executed again, whatever the holders
\* of earlier claims still do: fail, succeed or find the runtime stopped.
SettledStays ==
  [][\A r \in Runs : Settled(r) => status'[r] \in {status[r], "gone"}]_vars

\* What the tables say is done was done: an occurrence is settled only with
\* its own instruction, as it was when it fell due, in the inbox, although the
\* schedule is edited, its admission throws or is repeated by other claims;
\* and nothing is delivered of a deferred run that has no result.
DoneWasSent ==
  \A r \in Runs :
    /\ Settled(r) /\ TaskOf(r) \in Instructed => inbox[r] = text[r] /\ text[r] # None
    /\ delivery[r] \in {"claimed", "delivered"} => Settled(r)

\* "Persist schedules and admit due instructions into ordinary sessions": a
\* due occurrence is claimed and its instruction put into the inbox, and the
\* result of a deferred task delivered, unless the task is stopped, moved or
\* deleted or the runtime has stopped.
EveryOccurrenceServed ==
  /\ \A t \in Instructed : plan[t] = "due" ~> plan[t] # "due" \/ ~active
  /\ \A r \in Runs : TaskOf(r) \in Instructed /\ Unsettled(r) ~>
       (inbox[r] = text[r] /\ Settled(r)) \/ status[r] = "gone" \/ ~active
  /\ \A r \in Runs : Settled(r) /\ ripe[r] /\ delivery[r] \in {"pending", "claimed"} ~>
       delivery[r] \notin {"pending", "claimed"} \/ ~ripe[r] \/ ~active
=============================================================================
