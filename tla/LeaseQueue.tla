------------------------------ MODULE LeaseQueue ------------------------------
(***************************************************************************)
(* AgentKeyedLeaseQueue: mutual exclusion per key by a chain of promises,  *)
(* and the callers that hold several keys at once                          *)
(* (AgentSessionAdmissionCoordinator.runMany and acquireSessionPair of the *)
(* Pi session pool).  A caller's place in the chain of a key is a pair of  *)
(* promises: current, resolved by its release, and tail, resolved once its *)
(* predecessor's tail and its own current are.  Promise reactions are      *)
(* actions of their own, in any order; the rest of a method is one action. *)
(*                                                                         *)
(* Definitions marked `fault' are seeded faults: each replaces the         *)
(* definition that follows it to show that a property notices.             *)
(***************************************************************************)
EXTENDS Naturals

CONSTANTS
  Callers,
  Keys,       \* session ids
  Wants,      \* the keys each caller takes
  Order,      \* the sorted order of the keys
  Abortable,  \* callers that pass an abort signal: they take one key
  None

ASSUME CallerAssumption ==
  /\ None \notin Callers
  /\ Wants \in [Callers -> (SUBSET Keys) \ {{}}]
  /\ Order \in [Keys -> Nat]
  /\ \A k, l \in Keys : Order[k] = Order[l] => k = l
  /\ Abortable \subseteq Callers /\ \A c \in Abortable : \E k \in Keys : Wants[c] = {k}

Places == Callers \X Keys

VARIABLES
  pc,        \* where a caller is
  held,      \* the keys it has been granted
  tails,     \* AgentKeyedLeaseQueue.tails: whose tail a key maps to
  previous,  \* whose tail a place waits for
  released,  \* places whose current promise is resolved
  settled,   \* places whose tail promise is resolved
  cleaned,   \* places whose tail.finally has run
  arrived,   \* history: places that were ever taken
  earlier    \* history: for each of them, who had arrived before

promises == <<tails, previous, released, settled, cleaned>>
history == <<arrived, earlier>>
vars == <<pc, held, promises, history>>

-----------------------------------------------------------------------------
AnyOrder(S) == S  \* fault: the keys are not sorted
FirstKey(S) == {k \in S : \A l \in S : Order[k] <= Order[l]}

Arrivals(k) == {c \in Callers : <<c, k>> \in arrived}

\* acquire: the place is chained behind the tail the map knows.
Acquire(c) ==
  /\ pc[c] = "idle"
  /\ \E k \in FirstKey(Wants[c] \ held[c]) :
       /\ previous' = [previous EXCEPT ![<<c, k>>] = tails[k]]
       /\ tails' = [tails EXCEPT ![k] = c]
       /\ earlier' = [earlier EXCEPT ![<<c, k>>] = Arrivals(k)]
       /\ arrived' = arrived \cup {<<c, k>>}
  /\ pc' = [pc EXCEPT ![c] = "waiting"]
  /\ UNCHANGED <<held, released, settled, cleaned>>

Awaits(c, k) == pc[c] = "waiting" /\ <<c, k>> \in arrived /\ k \notin held[c]

PreviousReleased(c, k) ==  \* fault: the place waits for its neighbour only
  previous[<<c, k>>] # None => <<previous[<<c, k>>], k>> \in released
PreviousSettled(c, k) == previous[<<c, k>>] # None => <<previous[<<c, k>>], k>> \in settled

HasAll(c, keys) == keys = Wants[c]

\* The predecessor's tail resolves the wait; the caller goes on to its next
\* key or, with the last, to its operation.
Grant(c) ==
  \E k \in Keys :
    /\ Awaits(c, k) /\ PreviousSettled(c, k)
    /\ held' = [held EXCEPT ![c] = @ \cup {k}]
    /\ pc' = [pc EXCEPT ![c] = IF HasAll(c, held'[c]) THEN "running" ELSE "idle"]
    /\ UNCHANGED <<promises, history>>

\* release resolves the current promise of every key the caller holds.
Finish(c) ==
  /\ pc[c] = "running"
  /\ released' = released \cup ({c} \X held[c])
  /\ held' = [held EXCEPT ![c] = {}]
  /\ pc' = [pc EXCEPT ![c] = "done"]
  /\ UNCHANGED <<tails, previous, settled, cleaned, history>>

\* The signal rejects the wait; the place is released before its predecessor.
Abort(c) ==
  /\ c \in Abortable
  /\ \E k \in Keys : Awaits(c, k) /\ released' = released \cup {<<c, k>>}
  /\ pc' = [pc EXCEPT ![c] = "done"]
  /\ UNCHANGED <<held, tails, previous, settled, cleaned, history>>

Resolves(c, k) == <<c, k>> \in released  \* fault: tail resolves with current alone
TailReady(c, k) == <<c, k>> \in released /\ PreviousSettled(c, k)

SettleTail(c, k) ==
  /\ <<c, k>> \notin settled /\ TailReady(c, k)
  /\ settled' = settled \cup {<<c, k>>}
  /\ UNCHANGED <<pc, held, tails, previous, released, cleaned, history>>

AlwaysOwn(c, k) == TRUE  \* fault: the key is deleted whoever's tail it maps to
NeverOwn(c, k) == FALSE  \* fault: the key is never deleted
OwnTail(c, k) == tails[k] = c

CleanTail(c, k) ==
  /\ <<c, k>> \in settled \ cleaned
  /\ tails' = IF OwnTail(c, k) THEN [tails EXCEPT ![k] = None] ELSE tails
  /\ cleaned' = cleaned \cup {<<c, k>>}
  /\ UNCHANGED <<pc, held, previous, released, settled, history>>

-----------------------------------------------------------------------------
Init ==
  /\ pc = [c \in Callers |-> "idle"] /\ held = [c \in Callers |-> {}]
  /\ tails = [k \in Keys |-> None] /\ previous = [p \in Places |-> None]
  /\ released = {} /\ settled = {} /\ cleaned = {}
  /\ arrived = {} /\ earlier = [p \in Places |-> {}]

Reactions == \E c \in Callers, k \in Keys : SettleTail(c, k) \/ CleanTail(c, k)

Next ==
  \/ \E c \in Callers : Acquire(c) \/ Grant(c) \/ Finish(c) \/ Abort(c)
  \/ Reactions

Spec == Init /\ [][Next]_vars

\* The event loop runs reactions and resumes callers, and operations end.
\* A caller that has no key yet is not obliged to start, nobody to abort.
Proceeds(c) == Grant(c) \/ Finish(c) \/ (held[c] # {} /\ Acquire(c))
Fairness == WF_vars(Reactions) /\ \A c \in Callers : WF_vars(Proceeds(c))

FairSpec == Spec /\ Fairness

-----------------------------------------------------------------------------
(* Properties *)

\* Type correctness; a caller runs with exactly the keys it wants.
TypeOK ==
  /\ pc \in [Callers -> {"idle", "waiting", "running", "done"}]
  /\ held \in [Callers -> SUBSET Keys]
  /\ \A c \in Callers : held[c] = Wants[c] <=> pc[c] = "running"
  /\ tails \in [Keys -> Callers \cup {None}]
  /\ previous \in [Places -> Callers \cup {None}]
  /\ released \subseteq Places /\ settled \subseteq released /\ cleaned \subseteq settled
  /\ arrived \subseteq Places /\ earlier \in [Places -> SUBSET Callers]

\* Two callers never hold one key, whoever aborts its place between them and
\* whenever the map forgets a key.
OneHolder == \A c, d \in Callers : c # d => held[c] \cap held[d] = {}

\* A key is granted in the order of arrival: everyone who came before has
\* released or aborted its place.
FirstComeFirstServed ==
  \A c \in Callers : \A k \in held[c] : \A d \in earlier[<<c, k>>] : <<d, k>> \in released

\* The map does not grow: once the reactions to its release have run, no key
\* maps to a caller that is gone.
TailsForgotten == \A k \in Keys : tails[k] # None => <<tails[k], k>> \notin cleaned

\* Callers of several keys do not wait for one another in a circle.
EveryCallerServed == \A c \in Callers : pc[c] = "waiting" ~> pc[c] \in {"running", "done"}

-----------------------------------------------------------------------------
(* The promise an AgentKeyedLeaseQueue makes to its callers: a lock with a *)
(* queue in the order of arrival, whose waiters may leave.                 *)

\* Those who have asked for k and not given it up.
Present(k) == {c \in Arrivals(k) : <<c, k>> \notin released}

Locks ==
  INSTANCE FifoLocks WITH
    queued <- [k \in Keys |-> Present(k)],
    before <- [k \in Keys |-> {p \in Present(k) \X Present(k) : p[1] \in earlier[<<p[2], k>>]}],
    holds <- [k \in Keys |-> {c \in Callers : k \in held[c]}]

\* The chain of promises implements those locks.
ImplementsLocks == Locks!Spec
=============================================================================
