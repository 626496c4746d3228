---------------------------- MODULE Schedules_proofs ----------------------------
(***************************************************************************)
(* Proofs about Schedules, for all tasks, runs, claims and bounds: a       *)
(* deferred run is executed once at a time, what is settled stays so and   *)
(* was sent, and only the resumption of a fired schedule poisons a tick.   *)
(*                                                                         *)
(* The first two rest on the guards of the updates: a claim that was taken *)
(* over changes nothing any more, and a run is taken for a due occurrence  *)
(* only when it was never used (RunsLeft), which a schedule that is due    *)
(* has. The third follows each job from its claim to its result            *)
(* (JobsMean): one that has come past the admission stands for an          *)
(* instruction that is in the inbox or for a run that was given up. The    *)
(* last one follows the plan of what has fired (FiredIsOff), which is off  *)
(* until somebody resumes it.                                              *)
(***************************************************************************)
EXTENDS Schedules, FiniteSetTheorems, TLAPS

\* The runs that a task which was not created, or is due, still has.
RunsLeft ==
  /\ \A t \in Tasks : plan[t] = "none" => \A r \in RunsOf(t) : status[r] = "none"
  /\ \A t \in Instructed : plan[t] = "due" => Unused(t) # {}

Typed == TypeOK /\ RunsLeft

-----------------------------------------------------------------------------
(* Helpers *)

\* A run belongs to one task.
LEMMA RunTask ==
  /\ \A r \in Runs : TaskOf(r) \in Tasks
  /\ \A t \in Tasks : RunsOf(t) # {} /\ RunsOf(t) \subseteq Runs
<1>1. \A r \in Runs : TaskOf(r) \in Tasks
  BY DEF Runs, TaskOf
<1>2. ASSUME NEW t \in Tasks PROVE <<t, 1>> \in RunsOf(t)
  <2>1. 1 \in 1..MaxRuns[t]
    BY ScheduleAssumption
  <2> QED BY <2>1 DEF Runs, RunsOf, TaskOf
<1> QED BY <1>1, <1>2 DEF RunsOf

\* The run a due occurrence takes is one that was never used.
LEMMA NextRunUnused ==
  ASSUME NEW t \in Tasks, Unused(t) # {}
  PROVE  /\ NextRun(t) \in Runs /\ TaskOf(NextRun(t)) = t
         /\ NextRun(t) \in Unused(t) /\ status[NextRun(t)] = "none"
<1>1. NextRun(t) \in Unused(t)
  BY DEF NextRun
<1> QED BY <1>1 DEF Unused, RunsOf

\* Spending from one bound keeps the others.
LEMMA SpendType ==
  ASSUME TypeOK, NEW b \in DOMAIN Bounds, Spend(b)
  PROVE  spent' \in [DOMAIN Bounds -> Nat]
  BY DEF TypeOK, Spend

\* A fresh claim of a run is the claim of none of its jobs.
LEMMA FreshNew ==
  ASSUME NEW r \in Runs, FreshClaims(r) # {}
  PROVE  Fresh(r) \in Claims /\ \A j \in jobs : j.run = r => j.claim # Fresh(r)
<1>1. Fresh(r) \in FreshClaims(r)
  BY DEF Fresh
<1> QED BY <1>1 DEF FreshClaims

\* What a tick takes was queued, has an expired claim, or was never used.
Taken == Claimable \cup {NextRun(t) : t \in DueTasks}

\* What a tick takes are runs, of tasks that exist.
LEMMA TakenRuns ==
  ASSUME Typed
  PROVE  /\ Taken \subseteq Runs
         /\ \A r \in Taken : r \in Claimable \/ (status[r] = "none" /\ TaskOf(r) \in DueTasks)
<1>1. ASSUME NEW t \in DueTasks PROVE NextRun(t) \in Runs /\ status[NextRun(t)] = "none" /\ TaskOf(NextRun(t)) = t
  BY NextRunUnused DEF DueTasks, Tasks, Typed, RunsLeft
<1> QED BY <1>1 DEF Taken, Claimable

Stages == {"waiting", "admitted", "running", "interrupted"}

\* A job moves from stage to stage, and a job that ends is gone.
LEMMA JobSteps ==
  ASSUME TypeOK, NEW j \in jobs
  PROVE  /\ j.run \in Runs /\ j.claim \in Claims
         /\ End(j) => jobs' \subseteq jobs
         /\ \A s \in Stages : Move(j, s) =>
              jobs' \subseteq [run : Runs, claim : Claims, stage : Stages]
  BY DEF TypeOK, End, Move, Stages

\* The guarded updates change the run of a claim that is held, nothing else.
LEMMA GuardedUpdate ==
  ASSUME TypeOK, NEW j \in jobs, NEW s \in {"queued", "running", "succeeded", "failed"}, SetStatus(j, s)
  PROVE  /\ status' \in [Runs -> {"none", "queued", "claimed", "running", "succeeded", "failed", "gone"}]
         /\ \A r \in Runs : status'[r] # status[r] => status[r] \in {"claimed", "running"}
         /\ \A r \in Runs : status'[r] = "none" <=> status[r] = "none"
  BY JobSteps DEF TypeOK, SetStatus, Holds

\* Every step keeps the types.
LEMMA TypeKept ==
  ASSUME Typed, [Next]_vars
  PROVE  TypeOK'
<1> USE DEF TypeOK, Typed, Stages
<1>1. ASSUME NEW t \in Tasks, Create(t) PROVE TypeOK'
  <2>1. NextRun(t) \in Runs
    BY <1>1, RunTask, NextRunUnused DEF Create, RunsLeft, Unused
  <2> QED BY <1>1, <2>1 DEF Create, SetPlan
<1>2. ASSUME NEW t \in Tasks, FallDue(t) PROVE TypeOK'
  BY <1>2 DEF FallDue, SetPlan, claims, results
<1>3. ASSUME NEW t \in Tasks, Edit(t) PROVE TypeOK'
  <2>1. spent' \in [DOMAIN Bounds -> Nat]
    BY <1>3, SpendType DEF Edit, Bounds
  <2> QED BY <1>3, <2>1 DEF Edit, claims, results
<1>4. ASSUME NEW t \in Tasks, Pause(t) PROVE TypeOK'
  <2>1. spent' \in [DOMAIN Bounds -> Nat]
    BY <1>4, SpendType DEF Pause, Bounds
  <2>2. plan' \in [Tasks -> {"none", "future", "due", "off", "gone"}]
    BY <1>4 DEF Pause, SetPlan
  <2>3. delivery' \in [Runs -> {"none", "pending", "claimed", "delivered", "not_required"}] /\ ripe' \in [Runs -> BOOLEAN]
    BY <1>4 DEF Pause, Redeliver
  <2> QED BY <1>4, <2>1, <2>2, <2>3 DEF Pause, claims
<1>5. ASSUME NEW t \in Tasks, Resume(t) PROVE TypeOK'
  <2>1. spent' \in [DOMAIN Bounds -> Nat]
    BY <1>5, SpendType DEF Resume, Bounds
  <2>2. plan' \in [Tasks -> {"none", "future", "due", "off", "gone"}]
    BY <1>5 DEF Resume, SetPlan
  <2> QED BY <1>5, <2>1, <2>2 DEF Resume, claims, results
<1>6. ASSUME NEW t \in Tasks, Reschedule(t) PROVE TypeOK'
  <2>1. spent' \in [DOMAIN Bounds -> Nat]
    BY <1>6, SpendType DEF Reschedule, Bounds
  <2>2. plan' \in [Tasks -> {"none", "future", "due", "off", "gone"}] /\ fired' \subseteq OneTime
    <3>1. PICK p \in {"off", "future"} : plan' = [plan EXCEPT ![t] = p]
      BY <1>6 DEF Reschedule, SetPlan
    <3> QED BY <1>6, <3>1 DEF Reschedule
  <2>3. delivery' \in [Runs -> {"none", "pending", "claimed", "delivered", "not_required"}] /\ ripe' \in [Runs -> BOOLEAN]
    <3>1. CASE t \in Deferred
      <4>1. PICK d \in {"pending", "not_required"} : Redeliver(t, d)
        BY <1>6, <3>1 DEF Reschedule
      <4> QED BY <4>1 DEF Redeliver
    <3>2. CASE t \notin Deferred
      BY <1>6, <3>2 DEF Reschedule
    <3> QED BY <3>1, <3>2
  <2> QED BY <1>6, <2>1, <2>2, <2>3 DEF Reschedule, claims
<1>7. ASSUME NEW t \in Tasks, RunNow(t) PROVE TypeOK'
  <2>1. Unused(t) # {}
    <3>1. Unused(t) = {} => Cardinality(Unused(t)) = 0
      BY FS_EmptySet
    <3> QED BY <1>7, <3>1 DEF RunNow
  <2>2. NextRun(t) \in Runs /\ t \in Instructed
    BY <1>7, <2>1, NextRunUnused DEF RunNow
  <2> QED BY <1>7, <2>2 DEF RunNow, tasks, results
<1>8. ASSUME NEW t \in Tasks, Delete(t) PROVE TypeOK'
  BY <1>8 DEF Delete, SetPlan
<1>9. ASSUME NEW j \in jobs, GiveBack(j) \/ Interrupted(j) PROVE TypeOK'
  BY <1>9, GuardedUpdate, JobSteps DEF GiveBack, Interrupted, Release, tasks, results
<1>10. ASSUME NEW j \in jobs, Admit(j) PROVE TypeOK'
  <2>1. Instruction(j.run) \in Prompts \cup {None} /\ j.run \in Runs
    BY JobSteps DEF Instruction
  <2>2. inbox' \in [Runs -> Prompts \cup {None}]
    BY <1>10, <2>1 DEF Admit, Insert
  <2>3. /\ status' \in [Runs -> {"none", "queued", "claimed", "running", "succeeded", "failed", "gone"}]
        /\ jobs' \subseteq [run : Runs, claim : Claims, stage : Stages]
    BY <1>10, GuardedUpdate, JobSteps DEF Admit, Release
  <2> QED BY <1>10, <2>2, <2>3 DEF Admit, tasks, results
<1>11. ASSUME NEW j \in jobs, AdmitFails(j) PROVE TypeOK'
  <2>1. Instruction(j.run) \in Prompts \cup {None} /\ j.run \in Runs
    BY JobSteps DEF Instruction
  <2>2. inbox' \in [Runs -> Prompts \cup {None}]
    BY <1>11, <2>1 DEF AdmitFails, Insert
  <2>3. /\ status' \in [Runs -> {"none", "queued", "claimed", "running", "succeeded", "failed", "gone"}]
        /\ jobs' \subseteq [run : Runs, claim : Claims, stage : Stages]
    BY <1>11, GuardedUpdate, JobSteps DEF AdmitFails, Release
  <2>4. spent' \in [DOMAIN Bounds -> Nat]
    BY <1>11, SpendType DEF AdmitFails, Bounds
  <2> QED BY <1>11, <2>2, <2>3, <2>4 DEF AdmitFails, tasks, results
<1>12. ASSUME NEW j \in jobs, Receipt(j) PROVE TypeOK'
  BY <1>12, GuardedUpdate, JobSteps DEF Receipt, tasks, results
<1>13. ASSUME NEW j \in jobs, Execute(j) PROVE TypeOK'
  <2>1. /\ status' \in [Runs -> {"none", "queued", "claimed", "running", "succeeded", "failed", "gone"}]
        /\ jobs' \subseteq [run : Runs, claim : Claims, stage : Stages]
    BY <1>13, GuardedUpdate, JobSteps DEF Execute
  <2>2. expired' \in [Runs -> BOOLEAN]
    BY <1>13, JobSteps DEF Execute
  <2> QED BY <1>13, <2>1, <2>2 DEF Execute, tasks, results
<1>14. ASSUME NEW j \in jobs, Renew(j) PROVE TypeOK'
  BY <1>14, JobSteps DEF Renew, tasks, results
<1>15. ASSUME NEW j \in jobs, Interrupt(j) PROVE TypeOK'
  BY <1>15, JobSteps DEF Interrupt, tasks, claims, results
<1>16. ASSUME NEW j \in jobs, NEW s \in {"succeeded", "failed"}, Record(j, s) PROVE TypeOK'
  <2>1. delivery' \in [Runs -> {"none", "pending", "claimed", "delivered", "not_required"}]
    BY <1>16, JobSteps DEF Record
  <2> QED BY <1>16, <2>1, GuardedUpdate, JobSteps DEF Record, tasks
<1>17. ASSUME NEW r \in Runs, Expire(r) PROVE TypeOK'
  <2>1. spent' \in [DOMAIN Bounds -> Nat]
    BY <1>17, SpendType DEF Expire, Bounds
  <2> QED BY <1>17, <2>1 DEF Expire, tasks, results
<1>18. ASSUME NEW r \in Runs, Ripen(r) PROVE TypeOK'
  BY <1>18 DEF Ripen, tasks, claims
<1>19. ASSUME NEW r \in Runs, Delivered(r) PROVE TypeOK'
  BY <1>19, RunTask DEF Delivered, Mark, claims
<1>20. ASSUME NEW r \in Runs, Busy(r) PROVE TypeOK'
  BY <1>20 DEF Busy, Mark, tasks, claims
<1>21. ASSUME NEW r \in Runs, ExpireDelivery(r) PROVE TypeOK'
  BY <1>21 DEF ExpireDelivery, tasks, claims
<1>22. ASSUME Tick PROVE TypeOK'
  <2>1. \A r \in Taken : r \in Runs /\ Fresh(r) \in Claims
    BY <1>22, TakenRuns, FreshNew DEF Tick, Taken
  <2>2. /\ status' \in [Runs -> {"none", "queued", "claimed", "running", "succeeded", "failed", "gone"}]
        /\ expired' \in [Runs -> BOOLEAN]
        /\ plan' \in [Tasks -> {"none", "future", "due", "off", "gone"}] /\ fired' \subseteq OneTime
    BY <1>22 DEF Tick, DueTasks
  <2>3. claim' \in [Runs -> Claims \cup {None}] /\ jobs' \subseteq [run : Runs, claim : Claims, stage : Stages]
    BY <1>22, <2>1 DEF Tick, Taken
  <2>4. \A r \in {NextRun(t) : t \in DueTasks} : TaskOf(r) \in Instructed
    BY NextRunUnused DEF DueTasks, Tasks, RunsLeft
  <2>5. text' \in [Runs -> Prompts \cup {None}]
    BY <1>22, <2>4 DEF Tick
  <2> QED BY <1>22, <2>2, <2>3, <2>5 DEF Tick, results
<1>23. ASSUME ClaimDeliveries PROVE TypeOK'
  BY <1>23 DEF ClaimDeliveries, Deliverable, tasks, claims
<1>24. ASSUME DeliveryFails PROVE TypeOK'
  BY <1>24, SpendType DEF DeliveryFails, tasks, claims, Bounds
<1>25. ASSUME Stop PROVE TypeOK'
  BY <1>25 DEF Stop, tasks, claims, results
<1>26. ASSUME Restart PROVE TypeOK'
  BY <1>26, SpendType DEF Restart, tasks, claims, Bounds
<1>27. ASSUME UNCHANGED vars PROVE TypeOK'
  BY <1>27 DEF vars, tasks, claims, results
<1> QED
  BY <1>1, <1>2, <1>3, <1>4, <1>5, <1>6, <1>7, <1>8, <1>9, <1>10, <1>11, <1>12, <1>13, <1>14, <1>15, <1>16,
     <1>17, <1>18, <1>19, <1>20, <1>21, <1>22, <1>23, <1>24, <1>25, <1>26, <1>27 DEF Next

\* An update never uses a run; RunNow leaves one to a schedule that is due.
LEMMA RunsLeftKept ==
  ASSUME Typed, [Next]_vars
  PROVE  RunsLeft'
<1> USE DEF Typed, RunsLeft
<1> DEFINE Unchanged == /\ \A t \in Tasks : plan'[t] \in {plan[t], "future", "off", "gone"}
                       /\ \A r \in Runs : status'[r] = "none" <=> status[r] = "none"
<1>0. Unchanged => RunsLeft'
  BY DEF RunsOf, Unused, Tasks
<1>1. ASSUME NEW t \in Tasks, Create(t) PROVE RunsLeft'
  <2>1. NextRun(t) \in Runs /\ TaskOf(NextRun(t)) = t /\ plan'[t] = "future"
    BY <1>1, RunTask, NextRunUnused DEF Create, Unused, SetPlan, TypeOK
  <2>2. \A r \in Runs : TaskOf(r) # t => status'[r] = status[r]
    BY <1>1, <2>1 DEF Create, TypeOK
  <2>3. \A x \in Tasks : x # t => plan'[x] = plan[x]
    BY <1>1 DEF Create, SetPlan, TypeOK
  <2> QED BY <2>1, <2>2, <2>3 DEF RunsOf, Unused, Tasks
<1>2. ASSUME NEW t \in Tasks, FallDue(t) PROVE RunsLeft'
  BY <1>2 DEF FallDue, SetPlan, claims, TypeOK, RunsOf, Unused, Tasks
<1>3. ASSUME NEW t \in Tasks, Edit(t) \/ Pause(t) PROVE RunsLeft'
  BY <1>3, <1>0 DEF Edit, Pause, SetPlan, claims, TypeOK
<1>4. ASSUME NEW t \in Tasks, Resume(t) PROVE RunsLeft'
  <2>1. PICK p \in {"future", "due"} : plan' = [plan EXCEPT ![t] = p]
    BY <1>4 DEF Resume, SetPlan
  <2> QED BY <1>4, <2>1 DEF Resume, claims, TypeOK, RunsOf, Unused, Tasks
<1>5. ASSUME NEW t \in Tasks, Reschedule(t) PROVE RunsLeft'
  <2>1. PICK p \in {"off", "future"} : plan' = [plan EXCEPT ![t] = p]
    BY <1>5 DEF Reschedule, SetPlan
  <2> QED BY <1>5, <2>1, <1>0 DEF Reschedule, claims, TypeOK
<1>6. ASSUME NEW t \in Tasks, RunNow(t) PROVE RunsLeft'
  <2>1. Unused(t) # {}
    BY <1>6, FS_EmptySet DEF RunNow
  <2>2. NextRun(t) \in Unused(t) /\ TaskOf(NextRun(t)) = t
    BY <2>1, NextRunUnused
  <2>3. ASSUME plan[t] = "due" PROVE Unused(t) \ {NextRun(t)} # {}
    <3>1. Cardinality(Unused(t)) > 1
      BY <1>6, <2>3 DEF RunNow
    <3>2. Unused(t) # {NextRun(t)}
      BY <3>1, FS_Singleton
    <3> QED BY <2>2, <3>2
  <2>4. /\ plan' = plan /\ plan[t] # "none"
        /\ \A r \in Runs : r # NextRun(t) => status'[r] = status[r]
    BY <1>6 DEF RunNow, Exists, tasks, TypeOK
  <2>5. \A x \in Tasks : x # t => Unused(x)' = Unused(x) /\ RunsOf(x)' = RunsOf(x)
    BY <2>2, <2>4 DEF Unused, RunsOf
  <2>6. Unused(t) \ {NextRun(t)} \subseteq Unused(t)'
    BY <2>4 DEF Unused, RunsOf
  <2> QED BY <2>2, <2>3, <2>4, <2>5, <2>6 DEF RunsOf, Unused, Tasks
<1>7. ASSUME NEW t \in Tasks, Delete(t) PROVE RunsLeft'
  BY <1>7 DEF Delete, SetPlan, Exists, TypeOK, RunsOf, Unused, Tasks
<1>8. ASSUME NEW j \in jobs, GiveBack(j) \/ Interrupted(j) \/ Admit(j) \/ AdmitFails(j) \/ Receipt(j) PROVE RunsLeft'
  BY <1>8, <1>0, GuardedUpdate DEF GiveBack, Interrupted, Admit, AdmitFails, Receipt, Release, tasks
<1>9. ASSUME NEW j \in jobs, Execute(j) PROVE RunsLeft'
  BY <1>9, <1>0, GuardedUpdate DEF Execute, tasks
<1>10. ASSUME NEW j \in jobs, NEW s \in {"succeeded", "failed"}, Record(j, s) PROVE RunsLeft'
  BY <1>10, <1>0, GuardedUpdate DEF Record, tasks
<1>11. ASSUME NEW j \in jobs, Renew(j) \/ Interrupt(j) PROVE RunsLeft'
  BY <1>11, <1>0 DEF Renew, Interrupt, tasks, claims
<1>12. ASSUME NEW r \in Runs, Expire(r) \/ Ripen(r) \/ Busy(r) \/ ExpireDelivery(r) PROVE RunsLeft'
  BY <1>12, <1>0 DEF Expire, Ripen, Busy, ExpireDelivery, tasks, claims
<1>13. ASSUME NEW r \in Runs, Delivered(r) PROVE RunsLeft'
  BY <1>13, <1>0 DEF Delivered, claims, TypeOK
<1>14. ASSUME Tick PROVE RunsLeft'
  <2>1. /\ \A r \in Runs : r \notin Taken => status'[r] = status[r]
        /\ \A t \in Tasks : t \notin DueTasks => plan'[t] = plan[t]
        /\ \A t \in DueTasks : plan'[t] \in {"off", "future"}
    BY <1>14 DEF Tick, Taken, DueTasks, Tasks
  <2>2. \A r \in Taken : status[r] # "none" \/ TaskOf(r) \in DueTasks
    BY TakenRuns DEF Claimable
  <2>3. ASSUME NEW t \in Tasks \ DueTasks, NEW r \in RunsOf(t), status[r] = "none" PROVE status'[r] = "none"
    BY <2>1, <2>2, <2>3 DEF RunsOf
  <2> QED BY <2>1, <2>3 DEF RunsOf, Unused, Tasks
<1>15. ASSUME ClaimDeliveries \/ DeliveryFails \/ Stop \/ Restart \/ UNCHANGED vars PROVE RunsLeft'
  BY <1>15, <1>0 DEF ClaimDeliveries, DeliveryFails, Stop, Restart, vars, tasks, claims
<1> QED
  BY <1>1, <1>2, <1>3, <1>4, <1>5, <1>6, <1>7, <1>8, <1>9, <1>10, <1>11, <1>12, <1>13, <1>14, <1>15 DEF Next

\* Every reachable state is well typed, and a schedule that is due has a run
\* left.
LEMMA TypedAlways == Spec => []Typed
<1>1. Init => TypeOK /\ RunsLeft
  BY ScheduleAssumption DEF Init, TypeOK, RunsLeft, RunsOf, Tasks, Bounds
<1>2. Typed /\ [Next]_vars => Typed'
  BY TypeKept, RunsLeftKept DEF Typed
<1> QED BY <1>1, <1>2, PTL DEF Spec, Typed

\* Type correctness.
THEOREM TypeCorrect == Spec => []TypeOK
BY TypedAlways, PTL DEF Typed

-----------------------------------------------------------------------------
(* One execution *)

\* A claim that is waiting is executed only when no other execution of the
\* run goes on in the process, and only the end of a process forgets one.
THEOREM ExecutedOnce == Spec => []OneExecution
<1>1. Init => OneExecution
  BY DEF Init, OneExecution
<1>2. ASSUME Typed, OneExecution, [Next]_vars PROVE OneExecution'
  <2> USE <1>2 DEF Typed, OneExecution
  <2>1. CASE jobs' \subseteq jobs
    BY <2>1
  <2>2. ASSUME NEW j \in jobs, Execute(j) PROVE OneExecution'
    <3>1. CASE Executing(j.run) \/ ~(Holds(j) /\ status[j.run] = "claimed")
      BY <2>1, <2>2, <3>1 DEF Execute, End
    <3>2. CASE ~Executing(j.run) /\ jobs' = (jobs \ {j}) \cup {[j EXCEPT !.stage = "running"]}
      <4> DEFINE n == [j EXCEPT !.stage = "running"]
      <4>1. n.run = j.run
        BY DEF TypeOK
      <4>2. \A i \in jobs : i.run = n.run => i.stage \notin {"running", "interrupted"}
        BY <3>2, <4>1 DEF Executing
      <4>3. \A i \in jobs' : i \in jobs \/ i = n
        BY <3>2
      <4> HIDE DEF n
      <4> QED BY <4>2, <4>3
    <3> QED BY <2>2, <3>1, <3>2 DEF Execute, Move
  <2>3. ASSUME NEW j \in jobs, Interrupt(j) PROVE OneExecution'
    <3> DEFINE n == [j EXCEPT !.stage = "interrupted"]
    <3>1. j.stage = "running" /\ jobs' = (jobs \ {j}) \cup {n} /\ n.run = j.run
      BY <2>3 DEF Interrupt, Move, TypeOK
    <3>2. \A i \in jobs \ {j} : i.run = n.run => i.stage \notin {"running", "interrupted"}
      BY <3>1
    <3>3. \A i \in jobs' : i \in jobs \ {j} \/ i = n
      BY <3>1
    <3> HIDE DEF n
    <3> QED BY <3>2, <3>3
  <2>4. ASSUME NEW j \in jobs, Admit(j) PROVE OneExecution'
    <3>1. CASE jobs' = (jobs \ {j}) \cup {[j EXCEPT !.stage = "admitted"]}
      <4>1. [j EXCEPT !.stage = "admitted"].stage = "admitted"
        BY DEF TypeOK
      <4> QED BY <3>1, <4>1
    <3>2. CASE jobs' = jobs \ {j}
      BY <2>1, <3>2
    <3> QED BY <2>4, <3>1, <3>2 DEF Admit, Move, Release, End
  <2>5. ASSUME Tick PROVE OneExecution'
    <3>1. \A j \in jobs' : j \in jobs \/ j.stage = "waiting"
      BY <2>5 DEF Tick
    <3> QED BY <3>1
  <2>6. \/ jobs' \subseteq jobs \/ Tick
        \/ \E j \in jobs : Execute(j) \/ Interrupt(j) \/ Admit(j)
    BY DEF Next, vars, Create, FallDue, Edit, Pause, Resume, Reschedule, RunNow, Delete, GiveBack, AdmitFails,
           Receipt, Renew, Interrupted, Record, Release, End, Expire, Ripen, Delivered, Busy, ExpireDelivery,
           ClaimDeliveries, DeliveryFails, Stop, Restart
  <2> QED BY <2>1, <2>2, <2>3, <2>4, <2>5, <2>6
<1> QED BY <1>1, <1>2, TypedAlways, PTL DEF Spec

-----------------------------------------------------------------------------
(* Settled runs *)

\* A result is never taken back: neither by the holder of an earlier claim nor
\* by a tick, which takes what is unsettled or was never used.
THEOREM SettledForGood == Spec => SettledStays
<1> DEFINE Stays(r) == Settled(r) => status'[r] \in {status[r], "gone"}
<1>1. ASSUME Typed, [Next]_vars, NEW r \in Runs PROVE Stays(r)
  <2> USE <1>1 DEF Typed, Settled
  <2>1. CASE status' = status
    BY <2>1
  <2>2. ASSUME NEW t \in Tasks, Create(t) PROVE Stays(r)
    <3>1. NextRun(t) \in Runs /\ status[NextRun(t)] = "none"
      BY <2>2, RunTask, NextRunUnused DEF Create, RunsLeft, Unused
    <3> QED BY <2>2, <3>1 DEF Create, TypeOK
  <2>3. ASSUME NEW t \in Tasks, RunNow(t) PROVE Stays(r)
    <3>1. Unused(t) # {}
      BY <2>3, FS_EmptySet DEF RunNow
    <3>2. status[NextRun(t)] = "none"
      BY <3>1, NextRunUnused
    <3> QED BY <2>3, <3>2 DEF RunNow, TypeOK
  <2>4. ASSUME NEW t \in Tasks, Delete(t) PROVE Stays(r)
    BY <2>4 DEF Delete
  <2>5. ASSUME NEW j \in jobs, NEW s \in {"queued", "running", "succeeded", "failed"}, SetStatus(j, s) PROVE Stays(r)
    BY <2>5, GuardedUpdate
  <2>6. ASSUME Tick PROVE Stays(r)
    <3>1. r \notin Taken => status'[r] = status[r]
      BY <2>6 DEF Tick, Taken
    <3> QED BY <3>1, TakenRuns DEF Claimable
  <2>7. \/ status' = status \/ Tick
        \/ \E t \in Tasks : Create(t) \/ RunNow(t) \/ Delete(t)
        \/ \E j \in jobs, s \in {"queued", "running", "succeeded", "failed"} : SetStatus(j, s)
    BY DEF Next, vars, claims, FallDue, Edit, Pause, Resume, Reschedule, GiveBack, Admit, AdmitFails, Receipt,
           Execute, Renew, Interrupt, Interrupted, Record, Release, Expire, Ripen, Delivered, Busy,
           ExpireDelivery, ClaimDeliveries, DeliveryFails, Stop, Restart
  <2> QED BY <2>1, <2>2, <2>3, <2>4, <2>5, <2>6, <2>7
<1>2. Typed /\ [Next]_vars => [\A r \in Runs : Stays(r)]_vars
  BY <1>1
<1> QED BY <1>2, TypedAlways, PTL DEF Spec, SettledStays

-----------------------------------------------------------------------------
(* What is done was done *)

\* A job belongs to a run that was used; an admitted one has put the run's
\* instruction in the inbox, and only deferred runs are executed.
JobsMean ==
  \A j \in jobs :
    /\ status[j.run] # "none"
    /\ j.stage = "admitted" => TaskOf(j.run) \in Instructed /\ inbox[j.run] = text[j.run]
    /\ j.stage \in {"running", "interrupted"} => TaskOf(j.run) \in Deferred

\* A run that instructs a session knows its instruction.
Texted ==
  \A r \in Runs : TaskOf(r) \in Instructed /\ status[r] \notin {"none", "gone"} => text[r] # None

Done == JobsMean /\ Texted /\ DoneWasSent

\* Work that is only given up or given back, and deliveries that are only
\* withdrawn, leave what was done as it is.
LEMMA GivenUp ==
  ASSUME Typed, Done, jobs' \subseteq jobs, UNCHANGED <<text, inbox>>,
         \A r \in Runs : status'[r] # status[r] =>
           \/ status'[r] = "gone" /\ delivery'[r] = "none"
           \/ status'[r] = "queued" /\ status[r] \in {"claimed", "running"},
         \A r \in Runs : delivery'[r] \in {"claimed", "delivered"} => delivery[r] \in {"claimed", "delivered"}
  PROVE  Done'
<1>1. JobsMean'
  BY DEF Done, JobsMean, Typed, TypeOK
<1>2. Texted'
  BY DEF Done, Texted
<1>3. DoneWasSent'
  BY DEF Done, DoneWasSent, Settled
<1> QED BY <1>1, <1>2, <1>3 DEF Done

\* After a move the job is at its new stage, and the others where they were.
LEMMA JobMoved ==
  ASSUME TypeOK, NEW j \in jobs, NEW s \in Stages, Move(j, s)
  PROVE  \A i \in jobs' : i \in jobs \/ (i.run = j.run /\ i.stage = s)
<1> DEFINE n == [j EXCEPT !.stage = s]
<1>1. n.run = j.run /\ n.stage = s
  BY DEF TypeOK
<1>2. \A i \in jobs' : i \in jobs \/ i = n
  BY DEF Move
<1> HIDE DEF n
<1> QED BY <1>1, <1>2

\* The admission that saves the input, saved before or not, leaves the inbox
\* of every other run alone, and never replaces an input.
LEMMA Inserted ==
  ASSUME TypeOK, NEW r \in Runs, Insert(r)
  PROVE  \A q \in Runs : \/ inbox'[q] = inbox[q]
                         \/ q = r /\ inbox[q] = None /\ inbox'[q] = text[q]
  BY DEF Insert, Instruction, TypeOK

\* A run that was never used becomes one with an instruction.
LEMMA Began ==
  ASSUME Typed, Done, NEW S \in SUBSET Runs,
         \A r \in S : status[r] = "none" \/ status[r] \in {"queued", "claimed", "running"},
         \A r \in Runs : r \notin S => status'[r] = status[r] /\ text'[r] = text[r],
         \A r \in S : status'[r] \in {"queued", "claimed"},
         \A r \in S : text'[r] = text[r] \/ (status[r] = "none" /\ text'[r] # None),
         \A r \in S : status[r] = "none" /\ TaskOf(r) \in Instructed => text'[r] # None,
         \A j \in jobs' : j \in jobs \/ (j.run \in S /\ j.stage = "waiting"),
         UNCHANGED inbox,
         \A r \in Runs : delivery'[r] = delivery[r] \/ delivery'[r] = "pending"
  PROVE  Done'
<1>1. \A j \in jobs : j.run \in Runs
  BY DEF Typed, TypeOK
<1>2. JobsMean'
  <2>1. ASSUME NEW j \in jobs PROVE status'[j.run] # "none" /\ text'[j.run] = text[j.run]
    BY <1>1, <2>1 DEF Done, JobsMean
  <2> QED BY <2>1 DEF Done, JobsMean
<1>3. Texted'
  BY DEF Done, Texted
<1>4. DoneWasSent'
  BY DEF Done, DoneWasSent, Settled
<1> QED BY <1>2, <1>3, <1>4 DEF Done

\* No step settles a run whose work is not done, or forgets what it did.
LEMMA DoneKept ==
  ASSUME Typed, Done, [Next]_vars
  PROVE  Done'
<1> USE DEF Typed
<1>1. ASSUME NEW t \in Tasks, Create(t) PROVE Done'
  <2>1. CASE t \in Deferred
    <3>1. NextRun(t) \in Runs /\ status[NextRun(t)] = "none" /\ TaskOf(NextRun(t)) = t
      BY <1>1, RunTask, NextRunUnused DEF Create, RunsLeft, Unused
    <3>2. t \notin Instructed
      BY <2>1, ScheduleAssumption
    <3>3. \A r \in Runs : delivery'[r] = delivery[r] \/ delivery'[r] = "pending"
      BY <1>1, <2>1 DEF Create, TypeOK
    <3>4. \A r \in Runs : IF r = NextRun(t) THEN status'[r] = "queued" ELSE status'[r] = status[r]
      BY <1>1, <2>1 DEF Create, TypeOK
    <3>5. UNCHANGED <<text, inbox, jobs>>
      BY <1>1 DEF Create
    <3> DEFINE S == {NextRun(t)}
    <3>6. S \in SUBSET Runs
      BY <3>1
    <3>7. \A r \in S : status[r] = "none" /\ status'[r] = "queued" /\ TaskOf(r) \notin Instructed
      BY <3>1, <3>2, <3>4
    <3>8. \A r \in Runs : r \notin S => status'[r] = status[r]
      BY <3>4
    <3> HIDE DEF S, Typed
    <3> QED BY <3>3, <3>5, <3>6, <3>7, <3>8, Began
  <2>2. CASE t \notin Deferred
    BY <1>1, <2>2, GivenUp DEF Create
  <2> QED BY <2>1, <2>2
<1>2. ASSUME NEW t \in Tasks, FallDue(t) \/ Edit(t) \/ Resume(t) PROVE Done'
  BY <1>2, GivenUp DEF FallDue, Edit, Resume, claims, results
<1>3. ASSUME NEW t \in Tasks, Pause(t) \/ Reschedule(t) PROVE Done'
  <2>1. UNCHANGED <<status, text, inbox, jobs>>
    BY <1>3 DEF Pause, Reschedule, claims
  <2>2. UNCHANGED delivery \/ \E d \in {"pending", "not_required"} : Redeliver(t, d)
    BY <1>3 DEF Pause, Reschedule
  <2>3. \A r \in Runs : delivery'[r] \in {"claimed", "delivered"} => delivery[r] \in {"claimed", "delivered"}
    BY <2>2 DEF Redeliver
  <2> QED BY <2>1, <2>3, GivenUp
<1>4. ASSUME NEW t \in Tasks, RunNow(t) PROVE Done'
  <2>1. Unused(t) # {}
    BY <1>4, FS_EmptySet DEF RunNow
  <2>2. NextRun(t) \in Runs /\ status[NextRun(t)] = "none"
    BY <2>1, NextRunUnused
  <2>3. prompt[t] # None
    BY <1>4, ScheduleAssumption DEF RunNow, TypeOK
  <2>4. /\ \A r \in Runs : IF r = NextRun(t) THEN status'[r] = "queued" /\ text'[r] = prompt[t]
                                            ELSE status'[r] = status[r] /\ text'[r] = text[r]
        /\ UNCHANGED <<delivery, inbox, jobs>>
    BY <1>4 DEF RunNow, results, TypeOK
  <2> DEFINE S == {NextRun(t)}
  <2>5. S \in SUBSET Runs
    BY <2>2
  <2>6. \A r \in S : status[r] = "none" /\ status'[r] = "queued" /\ text'[r] # None
    BY <2>2, <2>3, <2>4
  <2>7. \A r \in Runs : r \notin S => status'[r] = status[r] /\ text'[r] = text[r]
    BY <2>4
  <2>8. UNCHANGED <<delivery, inbox, jobs>>
    BY <2>4
  <2> HIDE DEF S, Typed
  <2> QED BY <2>5, <2>6, <2>7, <2>8, Began
<1>5. ASSUME NEW t \in Tasks, Delete(t) PROVE Done'
  BY <1>5, GivenUp DEF Delete
<1>6. ASSUME NEW j \in jobs, GiveBack(j) \/ Interrupted(j) PROVE Done'
  <2>1. \A r \in Runs : status'[r] # status[r] => status'[r] = "queued" /\ status[r] \in {"claimed", "running"}
    BY <1>6, JobSteps DEF GiveBack, Interrupted, Release, SetStatus, Holds, TypeOK
  <2>2. jobs' \subseteq jobs /\ UNCHANGED <<text, inbox, delivery>>
    BY <1>6 DEF GiveBack, Interrupted, Release, End, results
  <2> QED BY <2>1, <2>2, GivenUp
<1>7. ASSUME NEW j \in jobs, AdmitFails(j) \/ Admit(j) PROVE Done'
  <2>1. j.run \in Runs /\ TaskOf(j.run) \in Instructed
    BY <1>7, JobSteps DEF AdmitFails, Admit, Begins
  <2>2. \A q \in Runs : \/ inbox'[q] = inbox[q]
                        \/ q = j.run /\ inbox[q] = None /\ inbox'[q] = text[q]
    BY <1>7, <2>1, Inserted DEF AdmitFails, Admit
  <2>3. UNCHANGED <<text, delivery>>
    BY <1>7 DEF AdmitFails, Admit, results
  <2>4. \A r \in Runs : status'[r] # status[r] => status'[r] = "queued" /\ status[r] \in {"claimed", "running"}
    BY <1>7, <2>1 DEF AdmitFails, Admit, Release, SetStatus, Holds, TypeOK
  <2>5. \A i \in jobs' : i \in jobs \/ (i.run = j.run /\ i.stage = "admitted" /\ inbox'[j.run] = text[j.run])
    <3>1. CASE Release(j)
      BY <3>1 DEF Release, End
    <3>2. CASE Move(j, "admitted") /\ Insert(j.run) /\ inbox[j.run] \in {None, Instruction(j.run)}
      <4>1. inbox'[j.run] = text[j.run]
        BY <2>1, <3>2 DEF Insert, Instruction, TypeOK
      <4> QED BY <3>2, <4>1, JobMoved DEF Stages
    <3> QED BY <1>7, <3>1, <3>2 DEF AdmitFails, Admit
  <2>6. \A i \in jobs : i.run \in Runs
    BY DEF TypeOK
  <2>7. JobsMean'
    BY <2>1, <2>2, <2>3, <2>4, <2>5, <2>6 DEF Done, JobsMean
  <2>8. Texted'
    BY <2>3, <2>4 DEF Done, Texted
  <2>9. DoneWasSent'
    BY <2>2, <2>3, <2>4 DEF Done, DoneWasSent, Settled
  <2> QED BY <2>7, <2>8, <2>9 DEF Done
<1>8. ASSUME NEW j \in jobs, NEW s \in {"succeeded", "failed"}, Record(j, s) \/ (s = "succeeded" /\ Receipt(j)) PROVE Done'
  <2>1. j.run \in Runs /\ jobs' \subseteq jobs /\ UNCHANGED <<text, inbox>>
    BY <1>8, JobSteps DEF Record, Receipt, End
  <2>2. \A r \in Runs : status'[r] # status[r] =>
          r = j.run /\ status'[r] = s /\ status[r] \in {"claimed", "running"}
    BY <1>8, <2>1 DEF Record, Receipt, SetStatus, Holds, TypeOK
  <2>3. \A r \in Runs : delivery'[r] = delivery[r] \/ delivery'[r] \in {"pending", "not_required"}
    BY <1>8, <2>1 DEF Record, Receipt, results, TypeOK
  <2>4. TaskOf(j.run) \in Instructed => inbox[j.run] = text[j.run]
    BY <1>8, ScheduleAssumption DEF Record, Receipt, Done, JobsMean
  <2>5. JobsMean'
    BY <2>1, <2>2 DEF Done, JobsMean, TypeOK
  <2>6. Texted'
    BY <2>1, <2>2 DEF Done, Texted
  <2>7. DoneWasSent'
    BY <2>1, <2>2, <2>3, <2>4 DEF Done, DoneWasSent, Settled, Texted
  <2> QED BY <2>5, <2>6, <2>7 DEF Done
<1>9. ASSUME NEW j \in jobs, Execute(j) PROVE Done'
  <2>1. j.run \in Runs /\ TaskOf(j.run) \in Deferred /\ UNCHANGED <<text, inbox, delivery>>
    BY <1>9, JobSteps DEF Execute, results
  <2>2. \A r \in Runs : status'[r] # status[r] => status'[r] = "running" /\ status[r] \in {"claimed", "running"}
    BY <1>9, <2>1 DEF Execute, SetStatus, Holds, TypeOK
  <2>3. \A i \in jobs' : i \in jobs \/ (i.run = j.run /\ i.stage = "running")
    <3>1. CASE End(j)
      BY <3>1 DEF End
    <3>2. CASE Move(j, "running")
      BY <3>2, JobMoved DEF Stages
    <3> QED BY <1>9, <3>1, <3>2 DEF Execute
  <2>4. \A i \in jobs : i.run \in Runs
    BY DEF TypeOK
  <2>5. JobsMean'
    BY <2>1, <2>2, <2>3, <2>4 DEF Done, JobsMean
  <2>6. Texted' /\ DoneWasSent'
    BY <2>1, <2>2 DEF Done, Texted, DoneWasSent, Settled
  <2> QED BY <2>5, <2>6 DEF Done
<1>10. ASSUME NEW j \in jobs, Interrupt(j) PROVE Done'
  <2>1. j.stage = "running" /\ UNCHANGED <<status, text, inbox, delivery>>
    BY <1>10 DEF Interrupt, claims, results
  <2>2. \A i \in jobs' : i \in jobs \/ (i.run = j.run /\ i.stage = "interrupted")
    BY <1>10, JobMoved DEF Interrupt, Stages
  <2>3. JobsMean'
    BY <2>1, <2>2 DEF Done, JobsMean
  <2> QED BY <2>1, <2>3 DEF Done, Texted, DoneWasSent, Settled
<1>11. ASSUME NEW j \in jobs, Renew(j) PROVE Done'
  BY <1>11, GivenUp DEF Renew, results
<1>12. ASSUME NEW r \in Runs, Expire(r) \/ Ripen(r) PROVE Done'
  BY <1>12, GivenUp DEF Expire, Ripen, claims, results
<1>13. ASSUME NEW r \in Runs, Delivered(r) \/ Busy(r) \/ ExpireDelivery(r) PROVE Done'
  <2>1. \A q \in Runs : delivery'[q] \in {"claimed", "delivered"} => delivery[q] \in {"claimed", "delivered"}
    BY <1>13 DEF Delivered, Busy, ExpireDelivery, Mark, TypeOK
  <2> QED BY <1>13, <2>1, GivenUp DEF Delivered, Busy, ExpireDelivery, claims
<1>14. ASSUME Tick PROVE Done'
  <2>1. /\ Taken \subseteq Runs
        /\ \A r \in Taken : r \in Claimable \/ (status[r] = "none" /\ TaskOf(r) \in DueTasks)
    BY TakenRuns
  <2>2. \A r \in {NextRun(t) : t \in DueTasks} :
          r \in Runs /\ status[r] = "none" /\ TaskOf(r) \in Instructed /\ prompt[TaskOf(r)] # None
    BY NextRunUnused, ScheduleAssumption DEF DueTasks, Tasks, RunsLeft, TypeOK
  <2>3. /\ \A r \in Runs : IF r \in Taken THEN status'[r] = "claimed" ELSE status'[r] = status[r]
        /\ \A r \in Runs : text'[r] = IF r \in {NextRun(t) : t \in DueTasks} THEN prompt[TaskOf(r)] ELSE text[r]
        /\ UNCHANGED <<inbox, delivery>>
    BY <1>14 DEF Tick, Taken, results
  <2>4. \A j \in jobs' : j \in jobs \/ (j.run \in Taken /\ j.stage = "waiting")
    BY <1>14 DEF Tick, Taken
  <2>5. \A r \in Taken : status[r] = "none" => r \in {NextRun(t) : t \in DueTasks}
    BY DEF Taken, Claimable
  <2>6. \A r \in Taken : status[r] = "none" \/ status[r] \in {"queued", "claimed", "running"}
    BY <2>1 DEF Claimable
  <2>7. \A r \in Runs : r \notin Taken => status'[r] = status[r] /\ text'[r] = text[r]
    BY <2>3 DEF Taken
  <2>8. \A r \in Taken : status'[r] \in {"queued", "claimed"}
    BY <2>1, <2>3
  <2>9. \A r \in Taken : text'[r] = text[r] \/ (status[r] = "none" /\ text'[r] # None)
    BY <2>1, <2>2, <2>3
  <2>10. \A r \in Taken : status[r] = "none" /\ TaskOf(r) \in Instructed => text'[r] # None
    BY <2>1, <2>2, <2>3, <2>5
  <2> HIDE DEF Typed
  <2> QED BY <2>1, <2>3, <2>4, <2>6, <2>7, <2>8, <2>9, <2>10, Began
<1>15. ASSUME ClaimDeliveries PROVE Done'
  <2>1. /\ UNCHANGED <<status, text, inbox, jobs>>
        /\ \A r \in Runs : delivery'[r] = delivery[r] \/ (delivery'[r] = "claimed" /\ Settled(r))
    BY <1>15 DEF ClaimDeliveries, Deliverable, tasks, claims
  <2> QED BY <2>1 DEF Done, JobsMean, Texted, DoneWasSent, Settled
<1>16. ASSUME DeliveryFails \/ Stop \/ Restart \/ UNCHANGED vars PROVE Done'
  <2>1. UNCHANGED <<status, text, inbox, delivery>> /\ jobs' \subseteq jobs
    BY <1>16 DEF DeliveryFails, Stop, Restart, vars, tasks, claims, results
  <2> QED BY <2>1, GivenUp
<1> QED
  BY <1>1, <1>2, <1>3, <1>4, <1>5, <1>6, <1>7, <1>8, <1>9, <1>10, <1>11, <1>12, <1>13, <1>14, <1>15, <1>16 DEF Next

\* A settled occurrence has its own instruction in the inbox, and nothing is
\* delivered of a deferred run before it is settled, whatever is edited,
\* repeated, taken over, stopped or restarted in between.
THEOREM SettledWasSent == Spec => []DoneWasSent
<1>1. Init => Done
  BY DEF Init, Done, JobsMean, Texted, DoneWasSent, Settled
<1>2. Typed /\ Done /\ [Next]_vars => Done'
  BY DoneKept
<1> QED BY <1>1, <1>2, TypedAlways, PTL DEF Spec, Done

-----------------------------------------------------------------------------
(* The only poison *)

\* A one-time schedule that has fired is off, or deleted, as long as nobody
\* resumed one.
FiredIsOff == spent["resumes"] = 0 => \A t \in fired : plan[t] \in {"off", "gone"}

\* What is spent is not given back.
LEMMA SpendGrows ==
  ASSUME TypeOK, NEW b \in DOMAIN Bounds, Spend(b)
  PROVE  spent'["resumes"] = 0 => spent["resumes"] = 0 /\ b # "resumes"
  BY DEF TypeOK, Spend, Bounds

\* Every step but the resumption of a schedule that has fired leaves it off.
LEMMA FiredIsOffKept ==
  ASSUME Typed, FiredIsOff, [Next]_vars
  PROVE  FiredIsOff'
<1> SUFFICES ASSUME spent'["resumes"] = 0 PROVE \A t \in fired' : plan'[t] \in {"off", "gone"}
  BY DEF FiredIsOff
<1> USE DEF Typed
<1>0. spent["resumes"] = 0 /\ ~Spend("resumes")
  <2>1. \/ UNCHANGED spent \/ \E b \in DOMAIN Bounds : Spend(b)
    <3>1. DOMAIN Bounds = {"faults", "edits", "resumes"}
      BY DEF Bounds
    <3> QED BY <3>1 DEF Next, vars, Create, FallDue, Edit, Pause, Resume, Reschedule, RunNow, Delete, GiveBack,
               Admit, AdmitFails, Receipt, Execute, Renew, Interrupt, Interrupted, Record, Expire, Ripen,
               Delivered, Busy, ExpireDelivery, Tick, ClaimDeliveries, DeliveryFails, Stop, Restart
  <2> QED BY <2>1, SpendGrows DEF Bounds
<1>1. \A t \in fired : t \in Tasks /\ plan[t] \in {"off", "gone"}
  BY <1>0 DEF FiredIsOff, TypeOK, Tasks, Instructed
<1>2. CASE UNCHANGED <<plan, fired>>
  BY <1>1, <1>2
<1>3. ASSUME NEW t \in Tasks, Create(t) \/ FallDue(t) \/ Pause(t) \/ Delete(t) PROVE \A u \in fired' : plan'[u] \in {"off", "gone"}
  BY <1>1, <1>3 DEF Create, FallDue, Pause, Delete, SetPlan, TypeOK
<1>4. ASSUME NEW t \in Tasks, Resume(t) PROVE \A u \in fired' : plan'[u] \in {"off", "gone"}
  <2>1. t \notin fired /\ \E p \in {"future", "due"} : plan' = [plan EXCEPT ![t] = p]
    BY <1>0, <1>4 DEF Resume, SetPlan
  <2> QED BY <1>1, <1>4, <2>1 DEF Resume, TypeOK
<1>5. ASSUME NEW t \in Tasks, Reschedule(t) PROVE \A u \in fired' : plan'[u] \in {"off", "gone"}
  <2>1. fired' = fired \ {t} /\ \E p \in {"future", "off"} : plan' = [plan EXCEPT ![t] = p]
    BY <1>5 DEF Reschedule, SetPlan
  <2> QED BY <1>1, <2>1 DEF TypeOK
<1>6. ASSUME NEW r \in Runs, Delivered(r) PROVE \A u \in fired' : plan'[u] \in {"off", "gone"}
  <2>1. fired' = fired /\ plan' = [plan EXCEPT ![TaskOf(r)] = IF delivery[r] = "claimed" THEN "off" ELSE @]
    BY <1>6 DEF Delivered
  <2> QED BY <1>1, <2>1, RunTask DEF TypeOK
<1>7. ASSUME Tick PROVE \A u \in fired' : plan'[u] \in {"off", "gone"}
  <2>1. /\ \A u \in Tasks : plan'[u] = IF u \notin DueTasks THEN plan[u]
                                     ELSE IF u \in OneTime THEN "off" ELSE "future"
        /\ fired' = fired \cup (DueTasks \cap OneTime)
    BY <1>7 DEF Tick
  <2>2. \A u \in DueTasks : u \in Tasks /\ plan[u] = "due"
    BY DEF DueTasks, Tasks
  <2>3. \A u \in fired : u \in Tasks /\ u \notin DueTasks /\ plan[u] \in {"off", "gone"}
    BY <1>1, <2>2
  <2> QED BY <2>1, <2>2, <2>3
<1> QED
  BY <1>2, <1>3, <1>4, <1>5, <1>6, <1>7
     DEF Next, vars, tasks, Edit, RunNow, GiveBack, Admit, AdmitFails, Receipt, Execute, Renew, Interrupt,
         Interrupted, Record, Expire, Ripen, Busy, ExpireDelivery, ClaimDeliveries, DeliveryFails, Stop, Restart

\* The transaction of a tick fails, for every schedule of every session, only
\* after somebody has resumed a one-time schedule that had fired: what the run
\* PoisonedSchedule finds is the only way there.
THEOREM OnlyResumesPoison == Spec => [](spent["resumes"] = 0 => ~TickFails)
<1>1. Init => FiredIsOff
  BY DEF Init, FiredIsOff
<1>2. Typed /\ FiredIsOff /\ [Next]_vars => FiredIsOff'
  BY FiredIsOffKept
<1>3. FiredIsOff => (spent["resumes"] = 0 => ~TickFails)
  BY DEF FiredIsOff, TickFails, DueTasks
<1> QED BY <1>1, <1>2, <1>3, TypedAlways, PTL DEF Spec
=============================================================================
