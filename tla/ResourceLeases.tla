--------------------------- MODULE ResourceLeases ---------------------------
(***************************************************************************)
(* AgentToolResourceLeaseCoordinator: the leases that tool calls and       *)
(* delegated child runs take on declared resources.  A tool call of a      *)
(* child run re-enters the lease of the assignment that run executes.      *)
(* Every method of the coordinator is synchronous, so each is one action.  *)
(* The waiters array is kept as the order it stands for: ahead[w] is the   *)
(* set of waiters in front of w.                                           *)
(*                                                                         *)
(* Definitions marked `fault' are seeded faults: each replaces the         *)
(* definition that follows it to show that a property notices.             *)
(***************************************************************************)
EXTENDS FiniteSets

CONSTANTS
  Assignments,  \* child sessions whose contract declares resources
  Calls,        \* tool calls
  Parent,       \* the assignment whose lease a call may re-enter, or None
  Ancestors,    \* sessions a child session descends from, of Assignments
  Identities,   \* resources a claim may name
  Overlaps,     \* pairs of identities that share a resource
  Requests,     \* the sets of claims each owner may ask for
  None

Owners == Assignments \cup Calls
AccessModes == {"shared", "exclusive"}
Claims == [identity : Identities, access : AccessModes]

ASSUME OwnerAssumption ==
  /\ Assignments \cap Calls = {} /\ None \notin Owners /\ IsFiniteSet(Owners)
  /\ Parent \in [Owners -> Assignments \cup {None}]
  /\ \A a \in Assignments : Parent[a] = None
  /\ Ancestors \in [Assignments -> SUBSET Assignments]

\* workspacePathsOverlap and the exact domains are reflexive and symmetric.
ASSUME ClaimAssumption ==
  /\ Overlaps \subseteq Identities \X Identities
  /\ \A i \in Identities : <<i, i>> \in Overlaps
  /\ \A i, j \in Identities : <<i, j>> \in Overlaps => <<j, i>> \in Overlaps
  /\ Requests \in [Owners -> SUBSET SUBSET Claims]

VARIABLES
  phase,    \* an owner is idle, waits for its lease or holds it
  request,  \* the claims it waits for or holds
  ahead     \* the waiters in front of it

vars == <<phase, request, ahead>>

Active == {o \in Owners : phase[o] = "active"}
Waiting == {o \in Owners : phase[o] = "waiting"}

-----------------------------------------------------------------------------
(* Conflicts *)

ResourceClaimsConflict(left, right) ==
  /\ <<left.identity, right.identity>> \in Overlaps
  /\ "exclusive" \in {left.access, right.access}

Conflict(left, right) == \E l \in left, r \in right : ResourceClaimsConflict(l, r)

SameSession(o, holder) ==  \* fault: the calls of one assignment share its lease
  o = holder \/ holder = Parent[o] \/ (Parent[o] # None /\ Parent[o] = Parent[holder])
OwnerCanReenter(o, holder) == o = holder \/ holder = Parent[o]

CanAcquire(o, claims, held) ==
  \A holder \in held : OwnerCanReenter(o, holder) \/ ~Conflict(claims, request[holder])

-----------------------------------------------------------------------------
(* Acquire *)

NeverBehind(o, claims) == FALSE  \* fault: waiting requests are not looked at
BehindWaiter(o, claims) ==
  /\ \A holder \in Active : ~OwnerCanReenter(o, holder)
  /\ \E w \in Waiting : Conflict(claims, request[w])

Acquire(o, claims) ==
  /\ phase[o] = "idle"
  /\ request' = [request EXCEPT ![o] = claims]
  /\ \/ /\ ~BehindWaiter(o, claims) /\ CanAcquire(o, claims, Active)
        /\ phase' = [phase EXCEPT ![o] = "active"]
        /\ UNCHANGED ahead
     \/ /\ BehindWaiter(o, claims) \/ ~CanAcquire(o, claims, Active)
        /\ phase' = [phase EXCEPT ![o] = "waiting"]
        /\ ahead' = [ahead EXCEPT ![o] = Waiting]

\* A tool call of an ordinary session, or of a child run that is executing.
Call(c) ==
  /\ Parent[c] # None => Parent[c] \in Active
  /\ \E claims \in Requests[c] : Acquire(c, claims)

\* A child run starts or is resumed.  It is refused, which changes nothing,
\* when a session it descends from holds what it asks for.
Delegate(a) ==
  \E claims \in Requests[a] :
    /\ claims # {}
    /\ \A p \in Ancestors[a] \cap Active : ~Conflict(claims, request[p])
    /\ Acquire(a, claims)

-----------------------------------------------------------------------------
(* Release, abort and the dispatch that follows either *)

Earlier(gone, w) == ahead[w] \ {gone}

HeadOnly(gone, granted, w) ==  \* fault: any earlier waiter holds a request back
  /\ Earlier(gone, w) \subseteq granted
  /\ CanAcquire(w, request[w], (Active \ {gone}) \cup Earlier(gone, w))

\* One pass over the waiters: w is activated unless an earlier waiter the pass
\* left behind, or a lease it does not re-enter, conflicts with it.
Grantable(gone, granted, w) ==
  /\ \A e \in Earlier(gone, w) \ granted : ~Conflict(request[w], request[e])
  /\ CanAcquire(w, request[w], (Active \ {gone}) \cup (Earlier(gone, w) \cap granted))

Dispatches(gone, granted) ==
  \A w \in Waiting \ {gone} : w \in granted <=> Grantable(gone, granted, w)

QueueWithout(left, w) == IF w \in left THEN {} ELSE ahead[w] \ left

Leave(o) ==
  \E granted \in SUBSET (Waiting \ {o}) :
    /\ Dispatches(o, granted)
    /\ phase' = [w \in Owners |-> IF w = o THEN "idle"
                                  ELSE IF w \in granted THEN "active" ELSE phase[w]]
    /\ request' = [request EXCEPT ![o] = {}]
    /\ ahead' = [w \in Owners |-> QueueWithout(granted \cup {o}, w)]

\* The operation ended, failed or was cancelled.  A child run that missed its
\* deadline may leave calls behind that still hold leases.
Release(o) == phase[o] = "active" /\ Leave(o)

\* The waiter's abort signal fires.
Abort(o) == phase[o] = "waiting" /\ Leave(o)

-----------------------------------------------------------------------------
Init ==
  /\ phase = [o \in Owners |-> "idle"]
  /\ request = [o \in Owners |-> {}]
  /\ ahead = [o \in Owners |-> {}]

Next ==
  \/ \E c \in Calls : Call(c)
  \/ \E a \in Assignments : Delegate(a)
  \/ \E o \in Owners : Release(o) \/ Abort(o)

Spec == Init /\ [][Next]_vars

-----------------------------------------------------------------------------
(* Properties *)

\* Type correctness; the waiters are in one queue, each behind all that came
\* before it, and nobody who left is in front of anyone.
TypeOK ==
  /\ phase \in [Owners -> {"idle", "waiting", "active"}]
  /\ request \in [Owners -> SUBSET Claims]
  /\ ahead \in [Owners -> SUBSET Owners]
  /\ \A w \in Owners : ahead[w] \subseteq Waiting \ {w}
  /\ \A v, w \in Waiting : v # w => (v \in ahead[w] <=> w \notin ahead[v])

\* Two leases in use conflict only if one re-enters the other: a call beside
\* its own assignment, never two calls of one assignment.
MutualExclusion ==
  \A o, p \in Active :
    o # p /\ Conflict(request[o], request[p]) => Parent[o] = p \/ Parent[p] = o

\* No lost wake-up: whoever still waits could not be activated now.
NobodyForgotten ==
  \A w \in Waiting :
    \/ \E e \in ahead[w] : Conflict(request[w], request[e])
    \/ ~CanAcquire(w, request[w], Active)

\* A later request does not overtake an earlier one it conflicts with, which
\* would starve writers, unless it re-enters its assignment.
NoOvertaking ==
  [][\A o \in Active' \ Active, w \in Waiting \cap Waiting' :
       /\ Conflict(request'[o], request[w])
       /\ o \notin Waiting \/ w \in ahead[o]
       => Parent[o] \in Active]_vars

-----------------------------------------------------------------------------
(* What a test of the repository says and the code does not keep.          *)

\* "does not let a queued conflicting owner block re-entry": while its
\* assignment holds the lease, a call waits for a lease, never for a waiter.
ReentryUnblocked ==
  \A c \in Calls \cap Waiting : Parent[c] \in Active => ~CanAcquire(c, request[c], Active)
=============================================================================
