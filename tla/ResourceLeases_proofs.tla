------------------------ MODULE ResourceLeases_proofs ------------------------
(***************************************************************************)
(* Proofs about ResourceLeases, for every set of owners and requests.      *)
(* TypeOK is inductive and says that the waiters form one queue.           *)
(* MutualExclusion and NobodyForgotten are inductive with it.              *)
(***************************************************************************)
EXTENDS ResourceLeases, TLAPS

\* A conflict does not depend on the side from which it is looked at.
LEMMA ConflictIsMutual ==
  ASSUME NEW left \in SUBSET Claims, NEW right \in SUBSET Claims
  PROVE  Conflict(left, right) => Conflict(right, left)
<1>1. \A l, r \in Claims : <<l.identity, r.identity>> \in Overlaps
        => <<r.identity, l.identity>> \in Overlaps
  BY ClaimAssumption DEF Claims
<1> QED BY <1>1 DEF Conflict, ResourceClaimsConflict

\* A call or an assignment is an owner; its requests are sets of claims.
LEMMA RequestsAreClaims ==
  ASSUME NEW o \in Owners, NEW claims \in Requests[o]
  PROVE  claims \in SUBSET Claims
BY ClaimAssumption

\* Next is an owner that acquires or an owner that leaves.
LEMMA StepCases ==
  ASSUME Next
  PROVE  \/ \E o \in Owners : \E claims \in Requests[o] : Acquire(o, claims)
         \/ \E o \in Owners : (phase[o] = "active" \/ phase[o] = "waiting") /\ Leave(o)
<1>1. ASSUME NEW c \in Calls, Call(c)
      PROVE  \E o \in Owners : \E claims \in Requests[o] : Acquire(o, claims)
  BY <1>1 DEF Call, Owners
<1>2. ASSUME NEW a \in Assignments, Delegate(a)
      PROVE  \E o \in Owners : \E claims \in Requests[o] : Acquire(o, claims)
  BY <1>2 DEF Delegate, Owners
<1>3. ASSUME NEW o \in Owners, Release(o) \/ Abort(o)
      PROVE  (phase[o] = "active" \/ phase[o] = "waiting") /\ Leave(o)
  BY <1>3 DEF Release, Abort
<1> QED BY <1>1, <1>2, <1>3 DEF Next

-----------------------------------------------------------------------------
(* The two kinds of step, as the sets Active and Waiting see them *)

\* Acquire makes its owner active, or the last of the waiters.
LEMMA AcquireMoves ==
  ASSUME TypeOK, NEW o \in Owners, NEW claims \in Requests[o], Acquire(o, claims)
  PROVE  /\ o \notin Active \cup Waiting
         /\ request' = [request EXCEPT ![o] = claims]
         /\ \/ /\ ~BehindWaiter(o, claims) /\ CanAcquire(o, claims, Active)
               /\ Active' = Active \cup {o} /\ Waiting' = Waiting
               /\ ahead' = ahead
            \/ /\ BehindWaiter(o, claims) \/ ~CanAcquire(o, claims, Active)
               /\ Active' = Active /\ Waiting' = Waiting \cup {o}
               /\ ahead' = [ahead EXCEPT ![o] = Waiting]
BY DEF Acquire, TypeOK, Active, Waiting

\* Leave takes its owner out and makes some of the waiters active.
LEMMA LeaveMoves ==
  ASSUME TypeOK, NEW o \in Owners, Leave(o)
  PROVE  \E granted \in SUBSET (Waiting \ {o}) :
           /\ Dispatches(o, granted)
           /\ Active' = (Active \ {o}) \cup granted
           /\ Waiting' = Waiting \ (granted \cup {o})
           /\ request' = [request EXCEPT ![o] = {}]
           /\ ahead' = [w \in Owners |-> QueueWithout(granted \cup {o}, w)]
<1>1. PICK granted \in SUBSET (Waiting \ {o}) :
        /\ Dispatches(o, granted)
        /\ phase' = [w \in Owners |-> IF w = o THEN "idle"
                                      ELSE IF w \in granted THEN "active" ELSE phase[w]]
        /\ request' = [request EXCEPT ![o] = {}]
        /\ ahead' = [w \in Owners |-> QueueWithout(granted \cup {o}, w)]
  BY DEF Leave
<1>2. granted \subseteq Owners
  BY DEF Waiting
<1>3. Active' = (Active \ {o}) \cup granted
  BY <1>1, <1>2 DEF Active, Waiting, TypeOK
<1>4. Waiting' = Waiting \ (granted \cup {o})
  BY <1>1, <1>2 DEF Waiting, TypeOK
<1> QED BY <1>1, <1>3, <1>4

-----------------------------------------------------------------------------
(* Type correctness *)

\* Someone who asks takes a place behind all that wait: still one queue.
LEMMA AcquireKeepsTypes ==
  ASSUME TypeOK, NEW o \in Owners, NEW claims \in Requests[o], Acquire(o, claims)
  PROVE  TypeOK'
<1>1. phase' \in [Owners -> {"idle", "waiting", "active"}]
  BY DEF Acquire, TypeOK
<1>2. request' \in [Owners -> SUBSET Claims]
  BY RequestsAreClaims DEF Acquire, TypeOK
<1>3. o \notin Waiting /\ Waiting \subseteq Owners
  BY AcquireMoves DEF Waiting
<1>4. CASE ahead' = ahead /\ Waiting' = Waiting
  BY <1>1, <1>2, <1>4 DEF TypeOK
<1>5. CASE ahead' = [ahead EXCEPT ![o] = Waiting] /\ Waiting' = Waiting \cup {o}
  <2>1. ahead' \in [Owners -> SUBSET Owners]
    BY <1>3, <1>5 DEF TypeOK
  <2>2. \A w \in Owners : ahead'[w] \subseteq Waiting' \ {w}
    BY <1>3, <1>5 DEF TypeOK
  <2>3. \A v, w \in Waiting' : v # w => (v \in ahead'[w] <=> w \notin ahead'[v])
    BY <1>3, <1>5 DEF TypeOK
  <2> QED BY <1>1, <1>2, <2>1, <2>2, <2>3 DEF TypeOK
<1> QED BY <1>4, <1>5, AcquireMoves

\* Whoever leaves, with those granted in its wake, is cut out of the queue
\* without leaving a gap.
LEMMA LeaveKeepsTypes ==
  ASSUME TypeOK, NEW o \in Owners, Leave(o)
  PROVE  TypeOK'
<1>1. PICK granted \in SUBSET (Waiting \ {o}) :
           /\ Waiting' = Waiting \ (granted \cup {o})
           /\ request' = [request EXCEPT ![o] = {}]
           /\ ahead' = [w \in Owners |-> QueueWithout(granted \cup {o}, w)]
  BY LeaveMoves
<1>2. phase' \in [Owners -> {"idle", "waiting", "active"}]
  BY DEF Leave, TypeOK
<1>3. request' \in [Owners -> SUBSET Claims]
  BY <1>1 DEF TypeOK
<1>4. Waiting \subseteq Owners
  BY DEF Waiting
<1>5. ahead' \in [Owners -> SUBSET Owners]
  BY <1>1 DEF TypeOK, QueueWithout
<1>6. \A w \in Owners : ahead'[w] \subseteq Waiting' \ {w}
  BY <1>1 DEF TypeOK, QueueWithout
<1>7. \A v, w \in Waiting' : v # w => (v \in ahead'[w] <=> w \notin ahead'[v])
  BY <1>1, <1>4 DEF TypeOK, QueueWithout
<1> QED BY <1>2, <1>3, <1>5, <1>6, <1>7 DEF TypeOK

\* Every reachable state is well typed and its waiters form one queue.
THEOREM TypeCorrect == Spec => []TypeOK
<1>1. Init => TypeOK
  BY DEF Init, TypeOK, Waiting
<1>2. TypeOK /\ [Next]_vars => TypeOK'
  <2> SUFFICES ASSUME TypeOK, [Next]_vars PROVE TypeOK'
    OBVIOUS
  <2>1. CASE Next
    BY <2>1, StepCases, AcquireKeepsTypes, LeaveKeepsTypes
  <2>2. CASE UNCHANGED vars
    BY <2>2 DEF vars, TypeOK, Waiting
  <2> QED BY <2>1, <2>2
<1> QED BY <1>1, <1>2, PTL DEF Spec

-----------------------------------------------------------------------------
(* Mutual exclusion *)

\* Two owners whose requests may be in use together.
Compatible(o, p, claim) ==
  o # p /\ Conflict(claim[o], claim[p]) => Parent[o] = p \/ Parent[p] = o

\* To be compatible is mutual, for conflicts and re-entry are.
LEMMA CompatibleIsMutual ==
  ASSUME NEW claim \in [Owners -> SUBSET Claims], NEW o \in Owners, NEW p \in Owners,
         Compatible(o, p, claim)
  PROVE  Compatible(p, o, claim)
BY ConflictIsMutual DEF Compatible

\* A lease granted on arrival conflicts with none in use but its assignment's.
LEMMA AcquireExcludes ==
  ASSUME TypeOK, MutualExclusion,
         NEW o \in Owners, NEW claims \in Requests[o], Acquire(o, claims)
  PROVE  MutualExclusion'
<1>1. TypeOK'
  BY AcquireKeepsTypes
<1>2. Active \subseteq Owners /\ Active' \subseteq Owners
  BY DEF Active
<1>3. request' = [request EXCEPT ![o] = claims] /\ o \notin Active
  BY AcquireMoves
<1>4. \A p \in Active : request'[p] = request[p]
  BY <1>2, <1>3 DEF TypeOK
<1>5. CASE CanAcquire(o, claims, Active) /\ Active' = Active \cup {o}
  <2>1. \A p \in Active : Compatible(o, p, request')
    BY <1>2, <1>3, <1>4, <1>5 DEF CanAcquire, OwnerCanReenter, Compatible, TypeOK
  <2>2. \A p \in Active : Compatible(p, o, request')
    BY <2>1, <1>1, <1>2, CompatibleIsMutual DEF TypeOK
  <2>3. \A p, q \in Active : Compatible(p, q, request')
    BY <1>4 DEF MutualExclusion, Compatible
  <2>4. Compatible(o, o, request')
    BY DEF Compatible
  <2> QED BY <2>1, <2>2, <2>3, <2>4, <1>5 DEF MutualExclusion, Compatible
<1>6. CASE Active' = Active
  BY <1>4, <1>6 DEF MutualExclusion
<1> QED BY <1>5, <1>6, AcquireMoves

\* The leases a dispatch grants conflict with none that stays, and with one
\* another only across an assignment's re-entry.
LEMMA LeaveExcludes ==
  ASSUME TypeOK, MutualExclusion, NEW o \in Owners, Leave(o)
  PROVE  MutualExclusion'
<1>1. PICK granted \in SUBSET (Waiting \ {o}) :
        /\ Dispatches(o, granted)
        /\ Active' = (Active \ {o}) \cup granted
        /\ request' = [request EXCEPT ![o] = {}]
  BY LeaveMoves
<1>2. Active \subseteq Owners /\ granted \subseteq Owners /\ TypeOK'
  BY LeaveKeepsTypes DEF Active, Waiting
<1>3. \A p \in Active' : request'[p] = request[p]
  BY <1>1, <1>2 DEF TypeOK
<1>4. \A w \in granted : CanAcquire(w, request[w], (Active \ {o}) \cup (Earlier(o, w) \cap granted))
  BY <1>1 DEF Dispatches, Grantable
<1>5. \A w \in granted, p \in Active \ {o} : Compatible(w, p, request)
  BY <1>4 DEF CanAcquire, OwnerCanReenter, Compatible
<1>6. \A v, w \in granted : v \in ahead[w] => Compatible(w, v, request)
  BY <1>1, <1>4 DEF CanAcquire, OwnerCanReenter, Compatible, Earlier
<1>7. \A v, w \in granted : Compatible(w, v, request)
  <2> SUFFICES ASSUME NEW v \in granted, NEW w \in granted, v # w
               PROVE  Compatible(w, v, request)
    BY DEF Compatible
  <2>1. v \in ahead[w] \/ w \in ahead[v]
    BY <1>1 DEF TypeOK
  <2> QED BY <2>1, <1>2, <1>6, CompatibleIsMutual DEF TypeOK
<1>8. \A w \in granted, p \in Active \ {o} : Compatible(p, w, request)
  BY <1>2, <1>5, CompatibleIsMutual DEF TypeOK
<1>9. \A p, q \in Active : Compatible(p, q, request)
  BY DEF MutualExclusion, Compatible
<1>10. \A p, q \in Active' : Compatible(p, q, request)
  BY <1>1, <1>5, <1>7, <1>8, <1>9
<1> QED BY <1>3, <1>10 DEF MutualExclusion, Compatible

\* Conflicting leases are never in use together, unless one re-enters the
\* other: for every number of calls and assignments and every set of requests.
THEOREM Exclusion == Spec => []MutualExclusion
<1>1. Init => MutualExclusion
  BY DEF Init, MutualExclusion, Active
<1>2. TypeOK /\ MutualExclusion /\ [Next]_vars => MutualExclusion'
  <2> SUFFICES ASSUME TypeOK, MutualExclusion, [Next]_vars PROVE MutualExclusion'
    OBVIOUS
  <2>1. CASE Next
    BY <2>1, StepCases, AcquireExcludes, LeaveExcludes
  <2>2. CASE UNCHANGED vars
    BY <2>2 DEF vars, MutualExclusion, Active
  <2> QED BY <2>1, <2>2
<1> QED BY <1>1, <1>2, TypeCorrect, PTL DEF Spec

-----------------------------------------------------------------------------
(* No lost wake-up *)

\* What NobodyForgotten says of one waiter.
HeldBack(w) ==
  \/ \E e \in ahead[w] : Conflict(request[w], request[e])
  \/ ~CanAcquire(w, request[w], Active)

\* An arrival takes away no reason to wait, and waits only with one.
LEMMA AcquireForgetsNobody ==
  ASSUME TypeOK, NobodyForgotten,
         NEW o \in Owners, NEW claims \in Requests[o], Acquire(o, claims)
  PROVE  NobodyForgotten'
<1>1. o \notin Active \cup Waiting /\ request' = [request EXCEPT ![o] = claims]
  BY AcquireMoves
<1>2. \A p \in Active \cup Waiting : request'[p] = request[p]
  BY <1>1 DEF TypeOK, Active, Waiting
<1>3. request'[o] = claims
  BY <1>1 DEF TypeOK
<1>4. \A w \in Waiting : ahead[w] \subseteq Waiting
  BY DEF TypeOK, Waiting
<1>5. Active \subseteq Active'
  BY AcquireMoves
<1>6. ASSUME NEW w \in Waiting, ahead'[w] = ahead[w]
      PROVE  HeldBack(w)'
  <2>1. CASE \E e \in ahead[w] : Conflict(request[w], request[e])
    BY <2>1, <1>2, <1>4, <1>6 DEF HeldBack
  <2>2. CASE ~CanAcquire(w, request[w], Active)
    BY <2>2, <1>2, <1>5 DEF CanAcquire, HeldBack
  <2> QED BY <2>1, <2>2 DEF NobodyForgotten
<1>7. CASE Waiting' = Waiting /\ ahead' = ahead
  BY <1>6, <1>7 DEF NobodyForgotten, HeldBack
<1>8. CASE /\ BehindWaiter(o, claims) \/ ~CanAcquire(o, claims, Active)
           /\ Active' = Active /\ Waiting' = Waiting \cup {o}
           /\ ahead' = [ahead EXCEPT ![o] = Waiting]
  <2>1. \A w \in Waiting : ahead'[w] = ahead[w]
    BY <1>1, <1>8 DEF TypeOK, Waiting
  <2>2. ahead'[o] = Waiting
    BY <1>8 DEF TypeOK
  <2>3. BehindWaiter(o, claims) => HeldBack(o)'
    BY <2>2, <1>2, <1>3 DEF BehindWaiter, HeldBack
  <2>4. ~CanAcquire(o, claims, Active) => HeldBack(o)'
    BY <1>2, <1>3, <1>8 DEF CanAcquire, HeldBack
  <2>5. HeldBack(o)'
    BY <2>3, <2>4, <1>8
  <2> QED BY <2>1, <2>5, <1>6, <1>8 DEF NobodyForgotten, HeldBack
<1> QED BY <1>7, <1>8, AcquireMoves

\* The pass that follows a departure leaves behind only waiters that are held
\* back by an earlier one it left behind too, or by a lease.
LEMMA LeaveForgetsNobody ==
  ASSUME TypeOK, NEW o \in Owners, Leave(o)
  PROVE  NobodyForgotten'
<1>1. PICK granted \in SUBSET (Waiting \ {o}) :
        /\ Dispatches(o, granted)
        /\ Active' = (Active \ {o}) \cup granted
        /\ Waiting' = Waiting \ (granted \cup {o})
        /\ request' = [request EXCEPT ![o] = {}]
        /\ ahead' = [w \in Owners |-> QueueWithout(granted \cup {o}, w)]
  BY LeaveMoves
<1>2. Active \subseteq Owners /\ Waiting \subseteq Owners
  BY DEF Active, Waiting
<1>3. \A p \in Owners \ {o} : request'[p] = request[p]
  BY <1>1 DEF TypeOK
<1> SUFFICES ASSUME NEW w \in Waiting'
             PROVE  HeldBack(w)'
  BY DEF NobodyForgotten, HeldBack
<1>4. w \in Waiting \ {o} /\ w \notin granted /\ request'[w] = request[w]
  BY <1>1, <1>2, <1>3
<1>5. ahead'[w] = ahead[w] \ (granted \cup {o})
  BY <1>1, <1>2, <1>4 DEF QueueWithout
<1>6. ahead[w] \subseteq Owners
  BY <1>2, <1>4 DEF TypeOK
<1>7. ~Grantable(o, granted, w)
  BY <1>1, <1>4 DEF Dispatches
<1>8. CASE \E e \in Earlier(o, w) \ granted : Conflict(request[w], request[e])
  BY <1>3, <1>4, <1>5, <1>6, <1>8 DEF Earlier, HeldBack
<1>9. CASE ~CanAcquire(w, request[w], (Active \ {o}) \cup (Earlier(o, w) \cap granted))
  <2>1. (Active \ {o}) \cup (Earlier(o, w) \cap granted) \subseteq Active' \cap (Owners \ {o})
    BY <1>1, <1>2, <1>6 DEF Earlier
  <2> QED BY <2>1, <1>3, <1>4, <1>9 DEF CanAcquire, HeldBack
<1> QED BY <1>7, <1>8, <1>9 DEF Grantable

\* Whoever waits is held back by an earlier waiter or by a lease in use, now
\* and after every release and abort.
THEOREM NoLostWakeUp == Spec => []NobodyForgotten
<1>1. Init => NobodyForgotten
  BY DEF Init, NobodyForgotten, Waiting
<1>2. TypeOK /\ NobodyForgotten /\ [Next]_vars => NobodyForgotten'
  <2> SUFFICES ASSUME TypeOK, NobodyForgotten, [Next]_vars PROVE NobodyForgotten'
    OBVIOUS
  <2>1. CASE Next
    BY <2>1, StepCases, AcquireForgetsNobody, LeaveForgetsNobody
  <2>2. CASE UNCHANGED vars
    BY <2>2 DEF vars, NobodyForgotten, Active, Waiting, CanAcquire
  <2> QED BY <2>1, <2>2
<1> QED BY <1>1, <1>2, TypeCorrect, PTL DEF Spec

-----------------------------------------------------------------------------
(* No overtaking *)

\* What NoOvertaking says of one step.
InTurn ==
  \A o \in Active' \ Active, w \in Waiting \cap Waiting' :
    /\ Conflict(request'[o], request[w])
    /\ o \notin Waiting \/ w \in ahead[o]
    => Parent[o] \in Active

\* A lease granted on arrival overtakes no one it conflicts with.
LEMMA AcquireInTurn ==
  ASSUME TypeOK, NEW o \in Owners, NEW claims \in Requests[o], Acquire(o, claims)
  PROVE  InTurn
<1>1. CASE Active' = Active
  BY <1>1 DEF InTurn
<1>2. CASE ~BehindWaiter(o, claims) /\ Active' = Active \cup {o}
  <2>1. o \notin Active \cup Waiting /\ request'[o] = claims
    BY AcquireMoves DEF TypeOK
  <2>2. CASE \E holder \in Active : OwnerCanReenter(o, holder)
    BY <2>1, <2>2, <1>2 DEF InTurn, OwnerCanReenter
  <2>3. CASE \A w \in Waiting : ~Conflict(claims, request[w])
    BY <2>1, <2>3, <1>2 DEF InTurn
  <2> QED BY <2>2, <2>3, <1>2 DEF BehindWaiter
<1> QED BY <1>1, <1>2, AcquireMoves

\* A dispatch grants no one past an earlier waiter it conflicts with.
LEMMA LeaveInTurn ==
  ASSUME TypeOK, NEW o \in Owners, Leave(o)
  PROVE  InTurn
<1>1. PICK granted \in SUBSET (Waiting \ {o}) :
        /\ Dispatches(o, granted)
        /\ Active' = (Active \ {o}) \cup granted
        /\ Waiting' = Waiting \ (granted \cup {o})
        /\ request' = [request EXCEPT ![o] = {}]
  BY LeaveMoves
<1>2. \A g \in granted : g \in Waiting /\ request'[g] = request[g]
  BY <1>1 DEF TypeOK, Waiting
<1>3. \A g \in granted : \A e \in Earlier(o, g) \ granted : ~Conflict(request[g], request[e])
  BY <1>1 DEF Dispatches, Grantable
<1> QED BY <1>1, <1>2, <1>3 DEF InTurn, Earlier

\* A later request is never granted before a conflicting one that waits,
\* unless it re-enters an assignment in use.
THEOREM ArrivalOrder == Spec => NoOvertaking
<1>1. TypeOK /\ [Next]_vars => [InTurn]_vars
  <2> SUFFICES ASSUME TypeOK, Next PROVE InTurn
    OBVIOUS
  <2> QED BY StepCases, AcquireInTurn, LeaveInTurn
<1>2. Spec => [][InTurn]_vars
  BY <1>1, TypeCorrect, PTL DEF Spec
<1> QED BY <1>2 DEF NoOvertaking, InTurn
=============================================================================
