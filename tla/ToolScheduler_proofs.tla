------------------------ MODULE ToolScheduler_proofs ------------------------
(***************************************************************************)
(* Proofs about ToolScheduler, for every set of calls, gates and limits.   *)
(* The scheduler takes only steps of the lease coordinator, so what holds  *)
(* of leases holds here; and the permits of each gate are accounted for:   *)
(* used and queued together are the calls that stand at the gate.          *)
(***************************************************************************)
EXTENDS ToolScheduler, ResourceLeases_proofs, SequenceTheorems, FiniteSetTheorems

-----------------------------------------------------------------------------
(* The scheduler implements the lease coordinator.                         *)

\* Each step of the scheduler is a step of the coordinator or none.
LEMMA SchedStepIsLeaseStep ==
  ASSUME [SchedNext]_schedVars
  PROVE  [Next]_vars
<1>1. ASSUME NEW c \in Calls, StartCall(c) PROVE Next
  BY <1>1 DEF StartCall, Next
<1>2. ASSUME NEW c \in Calls, CallStep(c) PROVE [Next]_vars
  BY <1>2 DEF CallStep, EnterTool, EnterRun, LeaveRun, LeaveTool, LeaveLease, Next, Owners
<1>3. ASSUME NEW c \in Calls, CancelCall(c) PROVE [Next]_vars
  BY <1>3 DEF CancelCall, Next, Owners
<1>4. ASSUME NEW a \in Assignments, Delegate(a) \/ Release(a) \/ Abort(a) PROVE Next
  BY <1>4 DEF Next, Owners
<1>5. CASE UNCHANGED schedVars
  BY <1>5 DEF schedVars
<1> QED BY <1>1, <1>2, <1>3, <1>4, <1>5 DEF SchedNext

\* Whatever gates a call passes through, it takes, keeps and gives back its
\* lease as the coordinator prescribes: the theorems about leases carry over.
THEOREM ImplementsLeases == SchedSpec => Spec
<1>1. SchedInit => Init
  BY DEF SchedInit
<1> QED BY <1>1, SchedStepIsLeaseStep, PTL DEF SchedSpec, Spec

-----------------------------------------------------------------------------
(* A call and its lease                                                    *)

\* How far a call has come says whether it waits for its lease or holds it.
UnderLease ==
  \A c \in Calls :
    /\ stage[c] = "none" => phase[c] = "idle"
    /\ stage[c] = "lease" => phase[c] \in {"waiting", "active"}
    /\ stage[c] \notin {"none", "lease"} => phase[c] = "active"

\* Only a call of a limited tool comes to the gate of its tool.
StagesOK ==
  /\ stage \in [Calls -> Stages]
  /\ \A c \in Calls : stage[c] \in {"tool", "leaveTool"} => ToolOf[c] # None

\* An owner that leaves is idle; of the others only waiters move, to active.
LEMMA LeavePhases ==
  ASSUME TypeOK, NEW o \in Owners, Leave(o)
  PROVE  /\ phase'[o] = "idle"
         /\ \A w \in Owners \ {o} : phase'[w] = phase[w] \/ (phase[w] = "waiting" /\ phase'[w] = "active")
BY DEF Leave, TypeOK, Waiting

\* A step of one call, or of an assignment, leaves the other calls in place.
LEMMA UnderLeaseStep ==
  ASSUME TypeOK, StagesOK, UnderLease, [SchedNext]_schedVars
  PROVE  (StagesOK /\ UnderLease)'
<1> USE DEF StagesOK, UnderLease, Stages
<1>0. Calls \subseteq Owners /\ Assignments \subseteq Owners /\ Assignments \cap Calls = {}
  BY OwnerAssumption DEF Owners
<1>1. ASSUME NEW c \in Calls, StartCall(c) PROVE (StagesOK /\ UnderLease)'
  BY <1>0, <1>1 DEF StartCall, Call, Acquire, TypeOK
<1>2. ASSUME NEW c \in Calls, EnterTool(c) \/ EnterRun(c) PROVE (StagesOK /\ UnderLease)'
  BY <1>2 DEF EnterTool, EnterRun, HasLease, vars
<1>3. ASSUME NEW c \in Calls, LeaveRun(c) \/ LeaveTool(c) PROVE (StagesOK /\ UnderLease)'
  BY <1>3 DEF LeaveRun, LeaveTool, Outward, vars
<1>4. ASSUME NEW c \in Calls, LeaveLease(c) PROVE (StagesOK /\ UnderLease)'
  BY <1>0, <1>4, LeavePhases DEF LeaveLease, Release
<1>5. ASSUME NEW c \in Calls, CancelCall(c) PROVE (StagesOK /\ UnderLease)'
  <2>1. CASE stage[c] = "lease" /\ Abort(c) /\ stage' = [stage EXCEPT ![c] = "none"]
    BY <1>0, <2>1, LeavePhases DEF Abort
  <2>2. CASE /\ stage[c] \in {"lease", "tool", "run"} /\ phase[c] = "active"
             /\ \E s \in {"leaveLease", "leaveTool"} :
                  /\ stage' = [stage EXCEPT ![c] = s]
                  /\ s = "leaveTool" => ToolOf[c] # None
             /\ UNCHANGED vars
    BY <2>2 DEF vars
  <2> QED BY <1>5, <2>1, <2>2 DEF CancelCall, Outward
<1>6. ASSUME NEW a \in Assignments, Delegate(a), UNCHANGED stage PROVE (StagesOK /\ UnderLease)'
  BY <1>0, <1>6 DEF Delegate, Acquire, TypeOK
<1>7. ASSUME NEW a \in Assignments, Release(a) \/ Abort(a), UNCHANGED stage
      PROVE  (StagesOK /\ UnderLease)'
  BY <1>0, <1>7, LeavePhases DEF Release, Abort
<1>8. CASE UNCHANGED schedVars
  BY <1>8 DEF schedVars, vars
<1> QED
  BY <1>1, <1>2, <1>3, <1>4, <1>5, <1>6, <1>7, <1>8 DEF SchedNext, CallStep, capacity

\* No permit is held or awaited without the lease, so a permit never stands
\* still behind a lease that is not there.
THEOREM PermitsUnderLease == SchedSpec => []UnderLease
<1>1. SchedInit => StagesOK /\ UnderLease
  BY DEF SchedInit, Init, StagesOK, UnderLease, Stages, Owners
<1>2. TypeOK /\ StagesOK /\ UnderLease /\ [SchedNext]_schedVars => (StagesOK /\ UnderLease)'
  BY UnderLeaseStep
<1>3. SchedSpec => []TypeOK
  BY ImplementsLeases, TypeCorrect
<1> QED BY <1>1, <1>2, <1>3, PTL DEF SchedSpec

\* Calls are owners of leases but never the assignment another call re-enters,
\* so those that run under their leases do not conflict.
THEOREM OperationsApart == SchedSpec => []OperationsExclude
<1>1. TypeOK /\ UnderLease /\ MutualExclusion => OperationsExclude
  <2> SUFFICES ASSUME TypeOK, UnderLease, MutualExclusion,
                      NEW c \in Executing, NEW d \in Executing, c # d
               PROVE  ~Conflict(request[c], request[d])
    BY DEF OperationsExclude
  <2>1. c \in Calls /\ d \in Calls /\ phase[c] = "active" /\ phase[d] = "active"
    BY DEF Executing, UnderLease
  <2>2. c \in Active /\ d \in Active
    BY <2>1 DEF Active, Owners
  <2>3. Parent[c] # d /\ Parent[d] # c
    BY <2>1, OwnerAssumption DEF Owners
  <2> QED BY <2>2, <2>3 DEF MutualExclusion
<1>2. SchedSpec => []TypeOK /\ []MutualExclusion
  BY ImplementsLeases, TypeCorrect, Exclusion
<1> QED BY <1>1, <1>2, PermitsUnderLease, PTL
-----------------------------------------------------------------------------
(* Gates.  A call stands at a gate when it holds a permit or waits for one. *)

\* How far a call must have come to stand at gate g, or to wait there.
Stands(c, g, s) ==
  (g = RunOf[c] /\ s = "run") \/ (g = ToolOf[c] /\ s \in {"tool", "run", "leaveTool"})
Asks(c, g, s) == (g = RunOf[c] /\ s = "run") \/ (g = ToolOf[c] /\ s = "tool")

At(g) == {c \in Calls : Stands(c, g, stage[c])}
WaitersAt(g) == {queue[g][k] : k \in 1..Len(queue[g])}

\* The queue of a gate: calls that wait for it, each of them once.
WaitersAsk == \A g \in Gates : \A k \in 1..Len(queue[g]) : Asks(queue[g][k], g, stage[queue[g][k]])
AskOnce ==
  \A g \in Gates : \A j, k \in 1..Len(queue[g]) : queue[g][j] = queue[g][k] => j = k

\* The calls at a gate are counted: by its permits or by its queue.
Counted == \A g \in Gates : used[g] + Len(queue[g]) = Cardinality(At(g))

\* The counter keeps to the limit, and nobody waits below it.
Full ==
  \A g \in Gates : used[g] <= Limit[g] /\ (queue[g] # <<>> => used[g] = Limit[g])

GateInv == SchedTypeOK /\ WaitersAsk /\ AskOnce /\ Counted /\ Full

\* A queue without repetitions is as long as the set of its elements is large.
LEMMA CountWithoutRepetition ==
  ASSUME NEW S, NEW q \in Seq(S), \A j, k \in 1..Len(q) : q[j] = q[k] => j = k
  PROVE  LET R == {q[k] : k \in 1..Len(q)}
         IN  IsFiniteSet(R) /\ Cardinality(R) = Len(q)
<1> DEFINE R == {q[k] : k \in 1..Len(q)}
<1>1. Len(q) \in Nat /\ q \in [1..Len(q) -> S]
  BY LenProperties
<1>2. q \in [1..Len(q) -> R]
  BY <1>1
<1>3. q \in Bijection(1..Len(q), R)
  BY <1>2 DEF Bijection, Injection, Surjection, IsInjective
<1>4. ExistsBijection(1..Len(q), R)
  BY <1>3 DEF ExistsBijection
<1>5. IsFiniteSet(1..Len(q)) /\ Cardinality(1..Len(q)) = Len(q)
  BY <1>1, FS_Interval
<1> HIDE DEF R
<1>6. IsFiniteSet(R) /\ Cardinality(R) = Len(q)
  BY <1>4, <1>5, FS_Bijection
<1> QED BY <1>6 DEF R

\* The sets that are counted are finite.
LEMMA FiniteAt ==
  ASSUME NEW g \in Gates
  PROVE  IsFiniteSet(At(g)) /\ Cardinality(At(g)) \in Nat
<1>1. IsFiniteSet(Calls)
  BY OwnerAssumption, FS_Subset DEF Owners
<1>2. IsFiniteSet(At(g))
  BY <1>1, FS_Subset DEF At
<1> QED BY <1>2, FS_CardinalityType

\* The gates of runs and of tools are different, so a call waits only where
\* it has asked last.
LEMMA QueuedWhere ==
  ASSUME WaitersAsk, SchedTypeOK, NEW c \in Calls, NEW g \in Gates
  PROVE  /\ c \in WaitersAt(g) => Queued(c) /\ Asks(c, g, stage[c])
         /\ Queued(c) /\ Asks(c, g, stage[c]) => c \in WaitersAt(g)
         /\ Places(g, c) # {} <=> c \in WaitersAt(g)
<1>1. \A h \in Gates : DOMAIN queue[h] = 1..Len(queue[h])
  BY LenProperties DEF SchedTypeOK
<1>2. \A h \in Gates : Places(h, c) # {} <=> c \in WaitersAt(h)
  BY <1>1 DEF Places, WaitersAt
<1>3. \A h \in Gates : c \in WaitersAt(h) => Asks(c, h, stage[c])
  BY DEF WaitersAt, WaitersAsk
<1>4. \A h \in Gates : Asks(c, h, stage[c]) /\ Asks(c, g, stage[c]) => h = g
  BY GateAssumption DEF Asks
<1> QED BY <1>2, <1>3, <1>4 DEF Queued

\* The holders of a gate's permits are the calls there that do not wait.
LEMMA HoldersAt ==
  ASSUME WaitersAsk, SchedTypeOK, NEW g \in Gates
  PROVE  /\ WaitersAt(g) \subseteq At(g)
         /\ Holders(g) = At(g) \ WaitersAt(g)
<1>1. WaitersAt(g) \subseteq Calls
  BY DEF WaitersAt, SchedTypeOK
<1>2. \A c \in WaitersAt(g) : Asks(c, g, stage[c])
  BY DEF WaitersAt, WaitersAsk
<1>3. WaitersAt(g) \subseteq At(g)
  BY <1>1, <1>2 DEF At, Asks, Stands
<1>4. ASSUME NEW c \in Calls PROVE c \in Holders(g) <=> c \in At(g) \ WaitersAt(g)
  BY <1>4, QueuedWhere, GateAssumption DEF Holders, At, Asks, Stands
<1> QED BY <1>3, <1>4 DEF Holders, At

\* So the number of holders is the gate's counter.
LEMMA CountersAreHolders ==
  ASSUME GateInv
  PROVE  PermitsBalance
<1> SUFFICES ASSUME NEW g \in Gates PROVE used[g] = Cardinality(Holders(g)) /\ used[g] <= Limit[g]
  BY DEF PermitsBalance
<1> USE DEF GateInv
<1>1. queue[g] \in Seq(Calls) /\ used[g] \in Nat /\ Len(queue[g]) \in Nat
  BY LenProperties DEF SchedTypeOK
<1>2. IsFiniteSet(WaitersAt(g)) /\ Cardinality(WaitersAt(g)) = Len(queue[g])
  BY <1>1, CountWithoutRepetition DEF WaitersAt, AskOnce
<1>3. Cardinality(At(g) \ WaitersAt(g)) = Cardinality(At(g)) - Cardinality(At(g) \cap WaitersAt(g))
  BY FiniteAt, FS_Difference
<1>4. At(g) \cap WaitersAt(g) = WaitersAt(g)
  BY HoldersAt
<1>5. used[g] + Len(queue[g]) = Cardinality(At(g)) /\ used[g] <= Limit[g]
  BY DEF Counted, Full
<1>6. Holders(g) = At(g) \ WaitersAt(g)
  BY HoldersAt
<1>7. Cardinality(Holders(g)) = Cardinality(At(g)) - Len(queue[g])
  BY <1>2, <1>3, <1>4, <1>6
<1> QED BY <1>1, <1>5, <1>7
-----------------------------------------------------------------------------
(* What a change of one call's stage, and of one gate, does to the rest    *)

\* Only the gates at which a call stood or stands see it move.
LEMMA AtMoves ==
  ASSUME SchedTypeOK, NEW c \in Calls, NEW s \in Stages,
         stage' = [stage EXCEPT ![c] = s], NEW g \in Gates
  PROVE  /\ ~Stands(c, g, stage[c]) /\ Stands(c, g, s)
              => c \notin At(g) /\ At(g)' = At(g) \cup {c}
         /\ Stands(c, g, stage[c]) /\ ~Stands(c, g, s)
              => c \in At(g) /\ At(g)' = At(g) \ {c}
         /\ (Stands(c, g, stage[c]) <=> Stands(c, g, s)) => At(g)' = At(g)
BY DEF SchedTypeOK, At, Stands

\* A call that waits nowhere, or has left its queue, moves without the queues.
LEMMA WaitersAskKept ==
  ASSUME SchedTypeOK, WaitersAsk, NEW c \in Calls, NEW s \in Stages,
         stage' = [stage EXCEPT ![c] = s], queue' \in [Gates -> Seq(Calls)],
         \A g \in Gates : \A k \in 1..Len(queue'[g]) :
           \/ queue'[g][k] = c /\ Asks(c, g, s)
           \/ queue'[g][k] # c /\ \E j \in 1..Len(queue[g]) : queue'[g][k] = queue[g][j]
  PROVE  WaitersAsk'
<1> SUFFICES ASSUME NEW g \in Gates, NEW k \in 1..Len(queue'[g])
             PROVE  Asks(queue'[g][k], g, stage'[queue'[g][k]])
  BY DEF WaitersAsk, Asks
<1>1. queue'[g][k] \in Calls
  BY LenProperties, ElementOfSeq
<1>2. CASE queue'[g][k] = c /\ Asks(c, g, s)
  BY <1>2 DEF SchedTypeOK
<1>3. ASSUME queue'[g][k] # c, NEW j \in 1..Len(queue[g]), queue'[g][k] = queue[g][j]
      PROVE  Asks(queue'[g][k], g, stage'[queue'[g][k]])
  <2>1. Asks(queue[g][j], g, stage[queue[g][j]])
    BY DEF WaitersAsk
  <2>2. stage'[queue'[g][k]] = stage[queue[g][j]]
    BY <1>1, <1>3 DEF SchedTypeOK
  <2> QED BY <1>3, <2>1, <2>2
<1> QED BY <1>2, <1>3

\* A queue with one more at its end, a shorter one, and one without its k-th.
LEMMA AppendPlaces ==
  ASSUME NEW S, NEW q \in Seq(S), NEW e \in S
  PROVE  /\ Append(q, e) \in Seq(S) /\ Len(Append(q, e)) = Len(q) + 1
         /\ \A k \in 1..Len(q) + 1 : Append(q, e)[k] = IF k = Len(q) + 1 THEN e ELSE q[k]
BY AppendProperties, LenProperties

\* A queue without its first n.
LEMMA TailPlaces ==
  ASSUME NEW S, NEW q \in Seq(S), NEW n \in 0..Len(q)
  PROVE  LET t == SubSeq(q, n + 1, Len(q))
         IN  /\ t \in Seq(S) /\ Len(t) = Len(q) - n
             /\ \A k \in 1..Len(q) - n : t[k] = q[n + k]
<1>1. Len(q) \in Nat
  BY LenProperties
<1>2. CASE n = Len(q)
  BY <1>1, <1>2
<1>3. CASE n < Len(q)
  BY <1>1, <1>3
<1> QED BY <1>1, <1>2, <1>3

\* A queue without its k-th: those behind it move up one place.
LEMMA RemoveAtPlaces ==
  ASSUME NEW S, NEW q \in Seq(S), NEW k \in 1..Len(q)
  PROVE  LET t == RemoveAt(q, k)
         IN  /\ t \in Seq(S) /\ Len(t) = Len(q) - 1
             /\ \A j \in 1..Len(q) - 1 : t[j] = IF j < k THEN q[j] ELSE q[j + 1]
<1> DEFINE a == SubSeq(q, 1, k - 1)
           b == SubSeq(q, k + 1, Len(q))
<1>1. Len(q) \in Nat /\ k \in Nat
  BY LenProperties
<1>2. a \in Seq(S) /\ Len(a) = k - 1 /\ \A j \in 1..k - 1 : a[j] = q[j]
  BY <1>1
<1>3. b \in Seq(S) /\ Len(b) = Len(q) - k /\ \A j \in 1..Len(q) - k : b[j] = q[k + j]
  BY <1>1, TailPlaces
<1> HIDE DEF a, b
<1>4. /\ a \o b \in Seq(S) /\ Len(a \o b) = Len(a) + Len(b)
      /\ \A j \in 1..Len(a) + Len(b) : (a \o b)[j] = IF j <= Len(a) THEN a[j] ELSE b[j - Len(a)]
  BY <1>2, <1>3, ConcatProperties
<1>5. Len(a) + Len(b) = Len(q) - 1
  BY <1>1, <1>2, <1>3
<1>6. ASSUME NEW j \in 1..Len(q) - 1 PROVE (a \o b)[j] = IF j < k THEN q[j] ELSE q[j + 1]
  <2>1. (a \o b)[j] = IF j <= Len(a) THEN a[j] ELSE b[j - Len(a)]
    BY <1>4, <1>5
  <2>2. CASE j < k
    BY <1>1, <1>2, <2>1, <2>2
  <2>3. CASE j >= k
    <3>1. j - Len(a) \in 1..Len(q) - k /\ k + (j - Len(a)) = j + 1
      BY <1>1, <1>2, <2>3
    <3>2. b[j - Len(a)] = q[k + (j - Len(a))]
      BY <1>3, <3>1
    <3>3. ~(j <= Len(a))
      BY <1>1, <1>2, <2>3
    <3>4. ~(j < k)
      BY <1>1, <2>3
    <3> QED BY <2>1, <3>1, <3>2, <3>3, <3>4
  <2>4. j < k \/ j >= k
    BY <1>1
  <2> QED BY <2>2, <2>3, <2>4
<1> QED BY <1>4, <1>5, <1>6 DEF RemoveAt, a, b
-----------------------------------------------------------------------------
(* The three things that happen at a gate *)

\* A call that stands at no gate, or keeps its place without waiting, moves
\* without disturbing any gate.
LEMMA PassesBy ==
  ASSUME GateInv, NEW c \in Calls, NEW s \in Stages, ~Queued(c),
         stage' = [stage EXCEPT ![c] = s], UNCHANGED capacity,
         \A g \in Gates : Stands(c, g, stage[c]) <=> Stands(c, g, s)
  PROVE  GateInv'
<1> USE DEF GateInv
<1>1. SchedTypeOK'
  BY DEF SchedTypeOK, capacity
<1>2. \A g \in Gates : At(g)' = At(g)
  BY AtMoves
<1>3. WaitersAsk'
  <2>1. \A g \in Gates : \A k \in 1..Len(queue[g]) : queue[g][k] # c
    BY QueuedWhere DEF WaitersAt
  <2>2. queue' = queue /\ queue' \in [Gates -> Seq(Calls)]
    BY <1>1 DEF capacity, SchedTypeOK
  <2>3. \A g \in Gates : \A k \in 1..Len(queue'[g]) :
          queue'[g][k] # c /\ \E j \in 1..Len(queue[g]) : queue'[g][k] = queue[g][j]
    BY <2>1, <2>2
  <2> QED BY <2>2, <2>3, WaitersAskKept
<1>4. Counted'
  BY <1>2 DEF Counted, capacity
<1>5. AskOnce' /\ Full'
  BY DEF AskOnce, Full, capacity
<1> QED BY <1>1, <1>3, <1>4, <1>5

\* A call comes to a gate and takes a permit or its place in the queue.
LEMMA Enters ==
  ASSUME GateInv, NEW c \in Calls, NEW s \in Stages, NEW g \in Gates, ~Queued(c),
         stage' = [stage EXCEPT ![c] = s], GateAcquire(g, c),
         ~Stands(c, g, stage[c]), Asks(c, g, s),
         \A h \in Gates \ {g} : Stands(c, h, stage[c]) <=> Stands(c, h, s)
  PROVE  GateInv'
<1> USE DEF GateInv
<1>1. Stands(c, g, s)
  BY DEF Asks, Stands
<1>2. At(g)' = At(g) \cup {c} /\ c \notin At(g)
  BY <1>1, AtMoves
<1>3. \A h \in Gates \ {g} : At(h)' = At(h)
  BY AtMoves
<1>4. Cardinality(At(g)') = Cardinality(At(g)) + 1
  BY <1>2, FiniteAt, FS_AddElement
<1>5. \A h \in Gates : \A k \in 1..Len(queue[h]) : queue[h][k] # c
  BY QueuedWhere DEF WaitersAt
<1>6. used \in [Gates -> Nat] /\ queue \in [Gates -> Seq(Calls)] /\ Limit[g] \in Nat
      /\ \A h \in Gates : Len(queue[h]) \in Nat
  BY GateAssumption, LenProperties DEF SchedTypeOK
<1>7. CASE HasRoom(g, used[g]) /\ used' = [used EXCEPT ![g] = @ + 1] /\ UNCHANGED queue
  <2>1. SchedTypeOK'
    BY <1>6, <1>7 DEF SchedTypeOK
  <2>2. WaitersAsk'
    <3>1. queue' \in [Gates -> Seq(Calls)]
      BY <2>1 DEF SchedTypeOK
    <3>2. \A h \in Gates : \A k \in 1..Len(queue'[h]) :
            queue'[h][k] # c /\ \E j \in 1..Len(queue[h]) : queue'[h][k] = queue[h][j]
      BY <1>5, <1>7
    <3> QED BY <3>1, <3>2, WaitersAskKept
  <2>3. Counted'
    <3>1. used'[g] + Len(queue'[g]) = Cardinality(At(g)')
      BY <1>4, <1>6, <1>7, FiniteAt DEF Counted
    <3>2. \A h \in Gates \ {g} : used'[h] + Len(queue'[h]) = Cardinality(At(h)')
      BY <1>3, <1>6, <1>7 DEF Counted
    <3> QED BY <3>1, <3>2 DEF Counted
  <2>4. AskOnce' /\ Full'
    BY <1>6, <1>7 DEF AskOnce, Full, HasRoom
  <2> QED BY <2>1, <2>2, <2>3, <2>4
<1>8. CASE ~HasRoom(g, used[g]) /\ queue' = [queue EXCEPT ![g] = Append(@, c)] /\ UNCHANGED used
  <2>1. /\ Append(queue[g], c) \in Seq(Calls) /\ Len(Append(queue[g], c)) = Len(queue[g]) + 1
        /\ \A k \in 1..Len(queue[g]) + 1 :
             Append(queue[g], c)[k] = IF k = Len(queue[g]) + 1 THEN c ELSE queue[g][k]
    BY <1>6, AppendPlaces
  <2>2. SchedTypeOK'
    BY <1>8, <2>1 DEF SchedTypeOK
  <2>3. WaitersAsk'
    <3> SUFFICES ASSUME NEW h \in Gates, NEW k \in 1..Len(queue'[h])
                 PROVE  \/ queue'[h][k] = c /\ Asks(c, h, s)
                        \/ queue'[h][k] # c /\ \E j \in 1..Len(queue[h]) : queue'[h][k] = queue[h][j]
      BY <2>2, WaitersAskKept DEF SchedTypeOK
    <3>1. CASE h = g
      BY <1>5, <1>6, <1>8, <2>1, <3>1
    <3>2. CASE h # g
      BY <1>5, <1>6, <1>8, <3>2
    <3> QED BY <3>1, <3>2
  <2>4. Counted'
    BY <1>3, <1>4, <1>6, <1>8, <2>1 DEF Counted
  <2>5. AskOnce'
    BY <1>5, <1>6, <1>8, <2>1 DEF AskOnce
  <2>6. Full'
    BY <1>6, <1>8 DEF Full, HasRoom
  <2> QED BY <2>2, <2>3, <2>4, <2>5, <2>6
<1> QED BY <1>7, <1>8 DEF GateAcquire
\* A call gives its permit back and leaves the gate: its place at the gate and
\* its unit of the counter go, and the first waiters turn from queue to counter.
LEMMA Leaves ==
  ASSUME GateInv, NEW c \in Calls, NEW s \in Stages, NEW g \in Gates, ~Queued(c),
         stage' = [stage EXCEPT ![c] = s], GateRelease(g),
         Stands(c, g, stage[c]), ~Stands(c, g, s),
         \A h \in Gates \ {g} : Stands(c, h, stage[c]) <=> Stands(c, h, s)
  PROVE  GateInv'
<1> USE DEF GateInv
<1>1. At(g)' = At(g) \ {c} /\ c \in At(g)
  BY AtMoves
<1>2. \A h \in Gates \ {g} : At(h)' = At(h)
  BY AtMoves
<1>3. Cardinality(At(g)') = Cardinality(At(g)) - 1 /\ Cardinality(At(g)') \in Nat
  BY <1>1, FiniteAt, FS_RemoveElement, FS_CardinalityType
<1>4. \A h \in Gates : \A k \in 1..Len(queue[h]) : queue[h][k] # c
  BY QueuedWhere DEF WaitersAt
<1>5. used \in [Gates -> Nat] /\ queue \in [Gates -> Seq(Calls)] /\ Limit[g] \in Nat \ {0}
      /\ \A h \in Gates : Len(queue[h]) \in Nat
  BY GateAssumption, LenProperties DEF SchedTypeOK
<1>6. PICK n \in 0..Len(queue[g]) :
        /\ n = 0 \/ used[g] - 1 + n <= Limit[g]
        /\ n = Len(queue[g]) \/ used[g] - 1 + n >= Limit[g]
        /\ used' = [used EXCEPT ![g] = @ - 1 + n]
        /\ queue' = [queue EXCEPT ![g] = SubSeq(@, n + 1, Len(@))]
  BY DEF GateRelease
<1> DEFINE t == SubSeq(queue[g], n + 1, Len(queue[g]))
<1>7. /\ t \in Seq(Calls) /\ Len(t) = Len(queue[g]) - n
      /\ \A k \in 1..Len(queue[g]) - n : t[k] = queue[g][n + k]
  BY <1>5, TailPlaces
<1>8. queue'[g] = t /\ (\A h \in Gates \ {g} : queue'[h] = queue[h] /\ used'[h] = used[h])
      /\ used'[g] = used[g] - 1 + n /\ n \in Nat
  BY <1>5, <1>6
<1>9. used[g] + Len(queue[g]) = Cardinality(At(g))
      /\ used[g] <= Limit[g] /\ (queue[g] # <<>> => used[g] = Limit[g])
  BY DEF Counted, Full
<1>10. used'[g] + Len(queue'[g]) = Cardinality(At(g)')
  BY <1>3, <1>5, <1>7, <1>8, <1>9, FiniteAt
<1>11. used'[g] \in Nat /\ used'[g] <= Limit[g] /\ (queue'[g] # <<>> => used'[g] = Limit[g])
  <2>1. CASE n = Len(queue[g])
    <3>1. Len(t) = 0
      BY <1>5, <1>7, <2>1
    <3>2. t = <<>>
      BY <1>7, <3>1, EmptySeq
    <3>3. used'[g] \in Nat
      BY <1>3, <1>5, <1>8, <1>9, <1>10, <2>1, <3>1
    <3> QED BY <1>5, <1>6, <1>8, <1>9, <3>2, <3>3
  <2>2. CASE n # Len(queue[g])
    <3>1. used'[g] >= Limit[g]
      BY <1>6, <1>8, <2>2
    <3> QED BY <1>5, <1>6, <1>8, <1>9, <3>1
  <2> QED BY <2>1, <2>2
<1> HIDE DEF t
<1>12. SchedTypeOK'
  BY <1>5, <1>6, <1>7, <1>8, <1>11 DEF SchedTypeOK, t
<1>13. WaitersAsk'
  <2>1. \A h \in Gates : \A k \in 1..Len(queue'[h]) :
          queue'[h][k] # c /\ \E j \in 1..Len(queue[h]) : queue'[h][k] = queue[h][j]
    <3> SUFFICES ASSUME NEW h \in Gates, NEW k \in 1..Len(queue'[h])
                 PROVE  queue'[h][k] # c /\ \E j \in 1..Len(queue[h]) : queue'[h][k] = queue[h][j]
      OBVIOUS
    <3>1. CASE h = g
      <4>1. k \in 1..Len(queue[g]) - n /\ n + k \in 1..Len(queue[g])
        BY <1>5, <1>7, <1>8, <3>1
      <4>2. queue'[g][k] = queue[g][n + k]
        BY <1>7, <1>8, <4>1
      <4>3. \A j \in 1..Len(queue[g]) : queue[g][j] # c
        BY <1>4
      <4>4. \E j \in 1..Len(queue[g]) : queue'[g][k] = queue[g][j]
        BY <4>1, <4>2
      <4> QED BY <3>1, <4>3, <4>4
    <3>2. CASE h # g
      BY <1>4, <1>8, <3>2
    <3> QED BY <3>1, <3>2
  <2>2. queue' \in [Gates -> Seq(Calls)]
    BY <1>12 DEF SchedTypeOK
  <2>3. \A h \in Gates : \A k \in 1..Len(queue'[h]) :
          \/ queue'[h][k] = c /\ Asks(c, h, s)
          \/ queue'[h][k] # c /\ \E j \in 1..Len(queue[h]) : queue'[h][k] = queue[h][j]
    BY <2>1
  <2> QED BY <2>2, <2>3, WaitersAskKept
<1>14. AskOnce'
  <2> SUFFICES ASSUME NEW h \in Gates, NEW j \in 1..Len(queue'[h]), NEW k \in 1..Len(queue'[h]),
                      queue'[h][j] = queue'[h][k]
               PROVE  j = k
    BY DEF AskOnce
  <2>1. CASE h = g
    <3>1. /\ j \in 1..Len(queue[g]) - n /\ n + j \in 1..Len(queue[g])
          /\ k \in 1..Len(queue[g]) - n /\ n + k \in 1..Len(queue[g])
      BY <1>5, <1>7, <1>8, <2>1
    <3>2. queue[g][n + j] = queue[g][n + k]
      BY <1>7, <1>8, <2>1, <3>1
    <3>3. n + j = n + k
      <4> DEFINE a == n + j
                 b == n + k
      <4>1. a \in 1..Len(queue[g]) /\ b \in 1..Len(queue[g]) /\ queue[g][a] = queue[g][b]
        BY <3>1, <3>2
      <4> HIDE DEF a, b
      <4>2. a = b
        BY <4>1 DEF AskOnce
      <4> QED BY <4>2 DEF a, b
    <3>4. j \in Nat /\ k \in Nat
      BY <1>5, <3>1
    <3> QED BY <1>8, <3>3, <3>4
  <2>2. CASE h # g
    BY <1>8, <2>2 DEF AskOnce
  <2> QED BY <2>1, <2>2
<1>15. Counted'
  <2>1. \A h \in Gates \ {g} : used'[h] + Len(queue'[h]) = Cardinality(At(h)')
    BY <1>2, <1>8 DEF Counted
  <2> QED BY <1>10, <2>1 DEF Counted
<1>16. Full'
  BY <1>8, <1>11 DEF Full
<1> QED BY <1>12, <1>13, <1>14, <1>15, <1>16
\* A waiter whose signal fires leaves the queue and takes no permit along.
LEMMA Withdraws ==
  ASSUME GateInv, NEW c \in Calls, NEW s \in Stages, NEW g \in Gates, Queued(c),
         stage' = [stage EXCEPT ![c] = s], GateAbort(g, c),
         Asks(c, g, stage[c]), ~Stands(c, g, s),
         \A h \in Gates \ {g} : Stands(c, h, stage[c]) <=> Stands(c, h, s)
  PROVE  GateInv'
<1> USE DEF GateInv
<1>1. Stands(c, g, stage[c])
  BY DEF Asks, Stands
<1>2. At(g)' = At(g) \ {c} /\ c \in At(g)
  BY <1>1, AtMoves
<1>3. \A h \in Gates \ {g} : At(h)' = At(h)
  BY AtMoves
<1>4. Cardinality(At(g)') = Cardinality(At(g)) - 1
  BY <1>2, FiniteAt, FS_RemoveElement
<1>5. used \in [Gates -> Nat] /\ queue \in [Gates -> Seq(Calls)]
      /\ \A h \in Gates : Len(queue[h]) \in Nat /\ DOMAIN queue[h] = 1..Len(queue[h])
  BY LenProperties DEF SchedTypeOK
<1>6. PICK p \in 1..Len(queue[g]) :
        queue[g][p] = c /\ queue' = [queue EXCEPT ![g] = RemoveAt(@, p)] /\ used' = used
  BY <1>5 DEF GateAbort, Places
<1> DEFINE t == RemoveAt(queue[g], p)
<1>7. /\ t \in Seq(Calls) /\ Len(t) = Len(queue[g]) - 1
      /\ \A k \in 1..Len(queue[g]) - 1 : t[k] = IF k < p THEN queue[g][k] ELSE queue[g][k + 1]
  BY <1>5, RemoveAtPlaces
<1>8. queue'[g] = t /\ \A h \in Gates \ {g} : queue'[h] = queue[h]
  BY <1>5, <1>6
<1> HIDE DEF t
<1>9. SchedTypeOK'
  BY <1>5, <1>6, <1>7 DEF SchedTypeOK, t
<1>10. ASSUME NEW k \in 1..Len(queue'[g])
       PROVE  \E j \in 1..Len(queue[g]) : /\ queue'[g][k] = queue[g][j]
                                          /\ j = IF k < p THEN k ELSE k + 1
  <2>1. k \in 1..Len(queue[g]) - 1 /\ k \in Nat /\ p \in Nat
    BY <1>5, <1>7, <1>8
  <2>2. k \in 1..Len(queue[g]) /\ k + 1 \in 1..Len(queue[g])
    BY <1>5, <2>1
  <2> QED BY <1>7, <1>8, <2>1, <2>2
<1>11. \A h \in Gates \ {g} : \A k \in 1..Len(queue[h]) : queue[h][k] # c
  <2>1. ASSUME NEW h \in Gates \ {g} PROVE ~Asks(c, h, stage[c])
    BY GateAssumption DEF Asks
  <2> QED BY <2>1, QueuedWhere DEF WaitersAt
<1>12. WaitersAsk'
  <2>1. \A h \in Gates : \A k \in 1..Len(queue'[h]) :
          queue'[h][k] # c /\ \E j \in 1..Len(queue[h]) : queue'[h][k] = queue[h][j]
    <3> SUFFICES ASSUME NEW h \in Gates, NEW k \in 1..Len(queue'[h])
                 PROVE  queue'[h][k] # c /\ \E j \in 1..Len(queue[h]) : queue'[h][k] = queue[h][j]
      OBVIOUS
    <3>1. CASE h = g
      <4>1. PICK j \in 1..Len(queue[g]) :
              queue'[g][k] = queue[g][j] /\ j = IF k < p THEN k ELSE k + 1
        BY <1>10, <3>1
      <4>2. k \in Nat /\ p \in Nat
        BY <1>5, <1>7, <1>8, <3>1
      <4>3. j # p
        BY <4>1, <4>2
      <4> QED BY <1>6, <3>1, <4>1, <4>3 DEF AskOnce
    <3>2. CASE h # g
      BY <1>8, <1>11, <3>2
    <3> QED BY <3>1, <3>2
  <2>2. queue' \in [Gates -> Seq(Calls)]
    BY <1>9 DEF SchedTypeOK
  <2> QED BY <2>1, <2>2, WaitersAskKept
<1>13. AskOnce'
  <2> SUFFICES ASSUME NEW h \in Gates, NEW j \in 1..Len(queue'[h]), NEW k \in 1..Len(queue'[h]),
                      queue'[h][j] = queue'[h][k]
               PROVE  j = k
    BY DEF AskOnce
  <2>1. CASE h = g
    <3>1. PICK a \in 1..Len(queue[g]) : queue'[g][j] = queue[g][a] /\ a = IF j < p THEN j ELSE j + 1
      BY <1>10, <2>1
    <3>2. PICK b \in 1..Len(queue[g]) : queue'[g][k] = queue[g][b] /\ b = IF k < p THEN k ELSE k + 1
      BY <1>10, <2>1
    <3>3. a = b
      BY <2>1, <3>1, <3>2 DEF AskOnce
    <3>4. j \in Nat /\ k \in Nat /\ p \in Nat
      BY <1>5, <1>7, <1>8, <2>1
    <3> QED BY <3>1, <3>2, <3>3, <3>4
  <2>2. CASE h # g
    BY <1>8, <2>2 DEF AskOnce
  <2> QED BY <2>1, <2>2
<1>14. Counted'
  <2>1. used[g] + Len(queue[g]) = Cardinality(At(g))
    BY DEF Counted
  <2>2. used'[g] + Len(queue'[g]) = Cardinality(At(g)')
    BY <1>4, <1>5, <1>6, <1>7, <1>8, <2>1, FiniteAt
  <2>3. \A h \in Gates \ {g} : used'[h] + Len(queue'[h]) = Cardinality(At(h)')
    BY <1>3, <1>6, <1>8 DEF Counted
  <2> QED BY <2>2, <2>3 DEF Counted
<1>15. Full'
  <2>1. queue[g] # <<>>
    BY <1>5, <1>6, EmptySeq
  <2> QED BY <1>6, <1>8, <2>1 DEF Full
<1> QED BY <1>9, <1>12, <1>13, <1>14, <1>15

-----------------------------------------------------------------------------
(* The steps of the scheduler *)

\* Every step of the scheduler keeps the account of every gate.
LEMMA GateInvStep ==
  ASSUME GateInv, StagesOK, [SchedNext]_schedVars
  PROVE  GateInv'
<1>0. /\ \A c \in Calls : RunOf[c] \in Gates /\ (ToolOf[c] # None => ToolOf[c] \in Gates)
      /\ \A c \in Calls : stage[c] \in Stages
      /\ \A c \in Calls : \A g \in Gates : stage[c] = "lease" => ~Queued(c)
      /\ \A c \in Calls : stage[c] \notin {"tool", "run"} => ~Queued(c)
  <2>1. ASSUME NEW c \in Calls, Queued(c) PROVE stage[c] \in {"tool", "run"}
    BY <2>1, QueuedWhere DEF Queued, GateInv, Asks
  <2> QED BY <2>1, GateAssumption DEF GateInv, SchedTypeOK
<1> USE DEF Stands, Asks, Stages
<1>1. ASSUME NEW c \in Calls, StartCall(c) PROVE GateInv'
  BY <1>0, <1>1, PassesBy DEF StartCall
<1>2. ASSUME NEW c \in Calls, EnterTool(c) PROVE GateInv'
  <2> DEFINE g == ToolOf[c]
  <2>1. g \in Gates /\ GateAcquire(g, c) /\ stage' = [stage EXCEPT ![c] = "tool"] /\ ~Queued(c)
    BY <1>0, <1>2 DEF EnterTool
  <2>2. ~Stands(c, g, stage[c]) /\ Asks(c, g, "tool")
    BY <1>2 DEF EnterTool
  <2>3. \A h \in Gates \ {g} : Stands(c, h, stage[c]) <=> Stands(c, h, "tool")
    BY <1>2 DEF EnterTool
  <2> HIDE DEF Stands, Asks, g
  <2> QED BY <2>1, <2>2, <2>3, Enters
<1>3. ASSUME NEW c \in Calls, EnterRun(c) PROVE GateInv'
  <2> DEFINE g == RunOf[c]
  <2>1. g \in Gates /\ GateAcquire(g, c) /\ stage' = [stage EXCEPT ![c] = "run"] /\ ~Queued(c)
    BY <1>0, <1>3 DEF EnterRun
  <2>2. ~Stands(c, g, stage[c]) /\ Asks(c, g, "run")
    BY <1>3, GateAssumption DEF EnterRun
  <2>3. \A h \in Gates \ {g} : Stands(c, h, stage[c]) <=> Stands(c, h, "run")
    BY <1>3, GateAssumption DEF EnterRun
  <2> HIDE DEF Stands, Asks, g
  <2> QED BY <2>1, <2>2, <2>3, Enters
<1>4. ASSUME NEW c \in Calls, LeaveRun(c) PROVE GateInv'
  <2> DEFINE g == RunOf[c]
             s == Outward(c)
  <2>1. /\ g \in Gates /\ s \in Stages /\ ~Queued(c)
        /\ GateRelease(g) /\ stage' = [stage EXCEPT ![c] = s]
    BY <1>0, <1>4 DEF LeaveRun, Outward
  <2>2. Stands(c, g, stage[c]) /\ ~Stands(c, g, s)
    BY <1>4, GateAssumption DEF LeaveRun, Outward
  <2>3. \A h \in Gates \ {g} : Stands(c, h, stage[c]) <=> Stands(c, h, s)
    BY <1>4, GateAssumption DEF LeaveRun, Outward
  <2> HIDE DEF Stands, g, s
  <2> QED BY <2>1, <2>2, <2>3, Leaves
<1>5. ASSUME NEW c \in Calls, LeaveTool(c) PROVE GateInv'
  <2> DEFINE g == ToolOf[c]
  <2>1. g \in Gates
    BY <1>0, <1>5 DEF LeaveTool, StagesOK
  <2>2. /\ ~Queued(c) /\ GateRelease(g) /\ stage' = [stage EXCEPT ![c] = "leaveLease"]
    BY <1>0, <1>5 DEF LeaveTool
  <2>3. Stands(c, g, stage[c]) /\ ~Stands(c, g, "leaveLease")
    BY <1>5 DEF LeaveTool
  <2>4. \A h \in Gates \ {g} : Stands(c, h, stage[c]) <=> Stands(c, h, "leaveLease")
    BY <1>5 DEF LeaveTool
  <2> HIDE DEF Stands, g
  <2> QED BY <2>1, <2>2, <2>3, <2>4, Leaves
<1>6. ASSUME NEW c \in Calls, LeaveLease(c) PROVE GateInv'
  BY <1>0, <1>6, PassesBy DEF LeaveLease
<1>7. ASSUME NEW c \in Calls, CancelCall(c) PROVE GateInv'
  <2>1. CASE stage[c] = "lease" /\ \E s \in {"none", "leaveLease"} :
                stage' = [stage EXCEPT ![c] = s] /\ UNCHANGED capacity
    BY <1>0, <2>1, PassesBy
  <2>2. CASE stage[c] = "tool" /\ Queued(c) /\ GateAbort(ToolOf[c], c)
             /\ stage' = [stage EXCEPT ![c] = "leaveLease"]
    <3> DEFINE g == ToolOf[c]
    <3>1. g \in Gates /\ GateAbort(g, c)
      BY <1>0, <2>2 DEF StagesOK
    <3>2. Asks(c, g, stage[c]) /\ ~Stands(c, g, "leaveLease")
      BY <2>2
    <3>3. \A h \in Gates \ {g} : Stands(c, h, stage[c]) <=> Stands(c, h, "leaveLease")
      BY <2>2
    <3> HIDE DEF Stands, Asks, g
    <3> QED BY <2>2, <3>1, <3>2, <3>3, Withdraws
  <2>3. CASE stage[c] = "tool" /\ ~Queued(c)
             /\ stage' = [stage EXCEPT ![c] = "leaveTool"] /\ UNCHANGED capacity
    BY <1>0, <2>3, PassesBy
  <2>4. CASE stage[c] = "run" /\ Queued(c) /\ GateAbort(RunOf[c], c)
             /\ stage' = [stage EXCEPT ![c] = Outward(c)]
    <3> DEFINE g == RunOf[c]
               s == Outward(c)
    <3>1. g \in Gates /\ s \in Stages /\ GateAbort(g, c) /\ stage' = [stage EXCEPT ![c] = s]
      BY <1>0, <2>4 DEF Outward
    <3>2. Asks(c, g, stage[c]) /\ ~Stands(c, g, s)
      BY <2>4, GateAssumption DEF Outward
    <3>3. \A h \in Gates \ {g} : Stands(c, h, stage[c]) <=> Stands(c, h, s)
      BY <2>4, GateAssumption DEF Outward
    <3> HIDE DEF Stands, Asks, g, s
    <3> QED BY <2>4, <3>1, <3>2, <3>3, Withdraws
  <2> QED BY <1>7, <2>1, <2>2, <2>3, <2>4 DEF CancelCall
<1>8. CASE UNCHANGED <<stage, capacity>>
  BY <1>8 DEF GateInv, SchedTypeOK, WaitersAsk, AskOnce, Counted, Full, At, capacity
<1> QED
  BY <1>1, <1>2, <1>3, <1>4, <1>5, <1>6, <1>7, <1>8 DEF SchedNext, CallStep, schedVars

\* Permits and queues stay accounted for as calls come, leave and give up.
LEMMA GateInvAlways == SchedSpec => [](GateInv /\ StagesOK)
<1>1. SchedInit => GateInv
  <2> SUFFICES ASSUME SchedInit PROVE GateInv
    OBVIOUS
  <2> USE DEF SchedInit
  <2>1. SchedTypeOK
    BY DEF SchedTypeOK, Stages
  <2>2. \A g \in Gates : queue[g] = <<>> /\ Len(queue[g]) = 0 /\ used[g] = 0
    OBVIOUS
  <2>3. WaitersAsk /\ AskOnce
    BY <2>2 DEF WaitersAsk, AskOnce
  <2>4. \A g \in Gates : At(g) = {}
    BY DEF At, Stands
  <2>5. Counted
    <3>1. \A g \in Gates : Cardinality(At(g)) = 0
      BY <2>4, FS_EmptySet
    <3> QED BY <2>2, <3>1 DEF Counted
  <2>6. Full
    BY <2>2, GateAssumption DEF Full
  <2> QED BY <2>1, <2>3, <2>5, <2>6 DEF GateInv
<1>2. SchedInit => TypeOK /\ StagesOK /\ UnderLease
  BY DEF SchedInit, Init, TypeOK, Waiting, StagesOK, UnderLease, Stages, Owners
<1>3. GateInv /\ StagesOK /\ UnderLease /\ TypeOK /\ [SchedNext]_schedVars
        => (GateInv /\ StagesOK /\ UnderLease)'
  BY GateInvStep, UnderLeaseStep
<1>4. SchedSpec => []TypeOK
  BY ImplementsLeases, TypeCorrect
<1> QED BY <1>1, <1>2, <1>3, <1>4, PTL DEF SchedSpec

\* The scheduler's own state keeps its types: in particular a gate gives back
\* no permit it has not given out.
THEOREM SchedTypeCorrect == SchedSpec => []SchedTypeOK
BY GateInvAlways, PTL DEF GateInv

\* A gate's counter is the number of calls that hold its permits, never above
\* the limit, for any number of calls, gates and cancellations.
THEOREM PermitsAccounted == SchedSpec => []PermitsBalance
BY GateInvAlways, CountersAreHolders, PTL

\* A permit that comes back goes to the next waiter: none stays idle while a
\* call waits for it.
THEOREM NoPermitIdle == SchedSpec => []NoIdlePermit
<1>1. GateInv => NoIdlePermit
  BY DEF GateInv, Full, NoIdlePermit
<1> QED BY <1>1, GateInvAlways, PTL

\* Somebody holds a permit of a gate that keeps a call waiting.
LEMMA WaitersHaveHolders ==
  ASSUME GateInv, NEW g \in Gates, queue[g] # <<>>
  PROVE  Holders(g) # {}
<1>1. used[g] = Cardinality(Holders(g)) /\ used[g] = Limit[g]
  BY CountersAreHolders DEF PermitsBalance, GateInv, Full
<1>2. Limit[g] # 0
  BY GateAssumption
<1> QED BY <1>1, <1>2, FS_EmptySet

\* Who waits at a gate is behind somebody who holds one of its permits.
LEMMA WaitersBehind ==
  ASSUME GateInv, NEW c \in Calls, NEW g \in Gates, Places(g, c) # {}
  PROVE  \E d \in Holders(g) : d \in Calls /\ Behind(c, d)
<1>1. queue[g] # <<>>
  BY DEF Places, GateInv, SchedTypeOK
<1> QED BY <1>1, WaitersHaveHolders DEF Behind, Holders

\* A holder that waits, waits at the gate of its run; and the holders of a
\* permit of such a gate wait for nothing, as they have taken all they need.
THEOREM GatesNeverLock == SchedSpec => []NoCircularWait
<1>1. ASSUME GateInv PROVE NoCircularWait
  <2> SUFFICES ASSUME NEW c \in Calls, NEW g \in Gates, Places(g, c) # {}
               PROVE  \E d \in Calls : Behind(c, d) /\ (Queued(d) => \E e \in Calls : Behind(d, e) /\ ~Queued(e))
    BY DEF NoCircularWait, Queued
  <2>1. PICK d \in Holders(g) : d \in Calls /\ Behind(c, d)
    BY <1>1, WaitersBehind
  <2>2. ASSUME Queued(d) PROVE \E e \in Calls : Behind(d, e) /\ ~Queued(e)
    <3>1. PICK h \in Gates : Places(h, d) # {}
      BY <2>2 DEF Queued
    <3>2. Asks(d, h, stage[d])
      BY <1>1, <2>1, <3>1, QueuedWhere DEF GateInv
    <3>3. stage[d] = "run" /\ h = RunOf[d]
      BY <2>1, <2>2, <3>2, GateAssumption DEF Holders, Asks
    <3>4. PICK e \in Holders(h) : e \in Calls /\ Behind(d, e)
      BY <1>1, <2>1, <3>1, WaitersBehind
    <3>5. h # ToolOf[e]
      BY <2>1, <3>3, <3>4, GateAssumption
    <3> QED BY <3>4, <3>5 DEF Holders
  <2> QED BY <2>1, <2>2
<1> QED BY <1>1, GateInvAlways, PTL
=============================================================================
