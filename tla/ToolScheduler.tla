---------------------------- MODULE ToolScheduler ----------------------------
(***************************************************************************)
(* AgentToolExecutionScheduler: a tool call takes its resource lease, then *)
(* a permit of its tool's gate if the tool has a limit, then a permit of   *)
(* its run's gate, executes, and gives them back in the opposite order.    *)
(* A gate is an AgentConcurrencyGate: a counter and a queue of waiters.    *)
(* A call that declares no resources has the empty set of claims.          *)
(***************************************************************************)
EXTENDS ResourceLeases, SequencesExt

CONSTANTS
  RunOf,    \* the gate of the run a call belongs to
  ToolOf,   \* the gate of the tool it calls, or None if that has no limit
  Limit     \* the permits of each gate

Gates == DOMAIN Limit

ASSUME GateAssumption ==
  /\ RunOf \in [Calls -> Gates] /\ ToolOf \in [Calls -> Gates \cup {None}] /\ None \notin Gates
  /\ Limit \in [Gates -> Nat \ {0}]
  /\ \A c, d \in Calls : RunOf[c] # ToolOf[d]

VARIABLES
  stage,  \* how far a call has come: which of its promises it awaits
  used,   \* AgentConcurrencyGate.active
  queue   \* AgentConcurrencyGate.waiters

capacity == <<used, queue>>
schedVars == <<vars, stage, capacity>>

Stages == {"none", "lease", "tool", "run", "leaveTool", "leaveLease"}

-----------------------------------------------------------------------------
(* AgentConcurrencyGate *)

HasRoom(g, n) == n < Limit[g]

Places(g, c) == {k \in DOMAIN queue[g] : queue[g][k] = c}
Queued(c) == \E g \in Gates : Places(g, c) # {}

GateAcquire(g, c) ==
  \/ /\ HasRoom(g, used[g])
     /\ used' = [used EXCEPT ![g] = @ + 1] /\ UNCHANGED queue
  \/ /\ ~HasRoom(g, used[g])
     /\ queue' = [queue EXCEPT ![g] = Append(@, c)] /\ UNCHANGED used

DropsPermit(g) ==  \* fault: the permit comes back but no waiter is resolved
  /\ used' = [used EXCEPT ![g] = @ - 1] /\ UNCHANGED queue

\* The permit is given back and waiters take permits in order while there are
\* any: n of them.
GateRelease(g) ==
  \E n \in 0..Len(queue[g]) :
    /\ n = 0 \/ used[g] - 1 + n <= Limit[g]
    /\ n = Len(queue[g]) \/ used[g] - 1 + n >= Limit[g]
    /\ used' = [used EXCEPT ![g] = @ - 1 + n]
    /\ queue' = [queue EXCEPT ![g] = SubSeq(@, n + 1, Len(@))]

AbortReleases(g, c) ==  \* fault: a waiter that never had a permit gives one back
  /\ \E k \in Places(g, c) : queue' = [queue EXCEPT ![g] = RemoveAt(@, k)]
  /\ used' = [used EXCEPT ![g] = @ - 1]
GateAbort(g, c) ==
  /\ \E k \in Places(g, c) : queue' = [queue EXCEPT ![g] = RemoveAt(@, k)]
  /\ UNCHANGED used

-----------------------------------------------------------------------------
(* A call *)

StartCall(c) ==
  /\ stage[c] = "none"
  /\ Call(c)
  /\ stage' = [stage EXCEPT ![c] = "lease"]
  /\ UNCHANGED capacity

AskedLease(c) == phase[c] \in {"waiting", "active"}  \* fault: capacity comes first
HasLease(c) == phase[c] = "active"

EnterTool(c) ==
  /\ stage[c] = "lease" /\ HasLease(c) /\ ToolOf[c] # None
  /\ GateAcquire(ToolOf[c], c)
  /\ stage' = [stage EXCEPT ![c] = "tool"]
  /\ UNCHANGED vars

EnterRun(c) ==
  /\ \/ stage[c] = "lease" /\ HasLease(c) /\ ToolOf[c] = None
     \/ stage[c] = "tool" /\ ~Queued(c)
  /\ GateAcquire(RunOf[c], c)
  /\ stage' = [stage EXCEPT ![c] = "run"]
  /\ UNCHANGED vars

ForgetsTool(c) == "leaveLease"  \* fault: only the outer permit is given back
Outward(c) == IF ToolOf[c] = None THEN "leaveLease" ELSE "leaveTool"

\* The operation, which runs under the lease and both permits, is over.
LeaveRun(c) ==
  /\ stage[c] = "run" /\ ~Queued(c) /\ phase[c] = "active"
  /\ GateRelease(RunOf[c])
  /\ stage' = [stage EXCEPT ![c] = Outward(c)]
  /\ UNCHANGED vars

LeaveTool(c) ==
  /\ stage[c] = "leaveTool"
  /\ GateRelease(ToolOf[c])
  /\ stage' = [stage EXCEPT ![c] = "leaveLease"]
  /\ UNCHANGED vars

LeaveLease(c) ==
  /\ stage[c] = "leaveLease"
  /\ Release(c)
  /\ stage' = [stage EXCEPT ![c] = "none"]
  /\ UNCHANGED capacity

\* The run is cancelled while the call waits; what it holds is given back on
\* the way out.  A call whose operation runs ends with LeaveRun.
CancelCall(c) ==
  \/ /\ stage[c] = "lease" /\ Abort(c)
     /\ stage' = [stage EXCEPT ![c] = "none"] /\ UNCHANGED capacity
  \/ /\ stage[c] = "lease" /\ phase[c] = "active"
     /\ stage' = [stage EXCEPT ![c] = "leaveLease"] /\ UNCHANGED <<vars, capacity>>
  \/ /\ stage[c] = "tool" /\ Queued(c) /\ GateAbort(ToolOf[c], c)
     /\ stage' = [stage EXCEPT ![c] = "leaveLease"] /\ UNCHANGED vars
  \/ /\ stage[c] = "tool" /\ ~Queued(c)
     /\ stage' = [stage EXCEPT ![c] = "leaveTool"] /\ UNCHANGED <<vars, capacity>>
  \/ /\ stage[c] = "run" /\ Queued(c) /\ GateAbort(RunOf[c], c)
     /\ stage' = [stage EXCEPT ![c] = Outward(c)] /\ UNCHANGED vars

-----------------------------------------------------------------------------
SchedInit ==
  /\ Init
  /\ stage = [c \in Calls |-> "none"]
  /\ used = [g \in Gates |-> 0] /\ queue = [g \in Gates |-> <<>>]

CallStep(c) == EnterTool(c) \/ EnterRun(c) \/ LeaveRun(c) \/ LeaveTool(c) \/ LeaveLease(c)

SchedNext ==
  \/ \E c \in Calls : StartCall(c) \/ CallStep(c) \/ CancelCall(c)
  \/ \E a \in Assignments : (Delegate(a) \/ Release(a) \/ Abort(a)) /\ UNCHANGED <<stage, capacity>>

SchedSpec == SchedInit /\ [][SchedNext]_schedVars

\* A child run ends when its calls have ended, not before.
Completes(a) == (\A c \in Calls : Parent[c] = a => phase[c] = "idle") /\ Release(a)

\* Promises resolve, operations end and child runs make finitely many calls.
SchedFairness ==
  /\ \A c \in Calls : WF_schedVars(CallStep(c))
  /\ \A a \in Assignments : SF_schedVars(Completes(a) /\ UNCHANGED <<stage, capacity>>)

FairSched == SchedSpec /\ SchedFairness

-----------------------------------------------------------------------------
(* Properties *)

\* The calls that have a permit of gate g: granted and not yet given back.
Holders(g) ==
  {c \in Calls :
     \/ g = RunOf[c] /\ stage[c] = "run" /\ ~Queued(c)
     \/ g = ToolOf[c] /\ (stage[c] \in {"run", "leaveTool"} \/ (stage[c] = "tool" /\ ~Queued(c)))}

\* Type correctness of the scheduler's own state.
SchedTypeOK ==
  /\ stage \in [Calls -> Stages]
  /\ used \in [Gates -> Nat]
  /\ queue \in [Gates -> Seq(Calls)]

\* A gate's counter is the number of calls that hold its permits, at most its
\* limit, through every cancellation on the way in or out.
PermitsBalance ==
  \A g \in Gates : used[g] = Cardinality(Holders(g)) /\ used[g] <= Limit[g]

\* Operations that conflict never run together, although a call gets its
\* permits long after its lease and its assignment may be over before it.
Executing == {c \in Calls : stage[c] = "run" /\ ~Queued(c)}
OperationsExclude ==
  \A c, d \in Executing : c # d => ~Conflict(request[c], request[d])

\* A gate with a free permit keeps nobody waiting.
NoIdlePermit == \A g \in Gates : queue[g] # <<>> => used[g] = Limit[g]

\* Permits of two gates are held one inside the other, and never in a circle:
\* a call that waits for a permit waits for one of a call that can go on, or
\* that waits itself for such a call, at another gate.
Behind(c, d) == \E g \in Gates : Places(g, c) # {} /\ d \in Holders(g)
NoCircularWait ==
  \A c \in Calls : Queued(c) =>
    \E d \in Calls : Behind(c, d) /\ (Queued(d) => \E e \in Calls : Behind(d, e) /\ ~Queued(e))

\* A child run that is delegated and not withdrawn gets its lease in the end,
\* however many readers keep coming.
EveryAssignmentServed == \A a \in Assignments : phase[a] = "waiting" ~> phase[a] # "waiting"

\* Leases and gates are taken in one order: every call ends, whoever else
\* waits, if operations do.
CallsEnd == \A c \in Calls : stage[c] # "none" ~> stage[c] = "none"
=============================================================================
