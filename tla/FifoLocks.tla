------------------------------ MODULE FifoLocks ------------------------------
(***************************************************************************)
(* What AgentKeyedLeaseQueue promises: for each key a lock that is granted *)
(* in the order in which callers arrived and that a waiter may give up.    *)
(***************************************************************************)
CONSTANTS Callers, Keys

VARIABLES
  queued,  \* who has asked for a key and not left
  before,  \* the order in which they came
  holds    \* who holds it: nobody or the first

lockVars == <<queued, before, holds>>

Init ==
  /\ queued = [k \in Keys |-> {}]
  /\ before = [k \in Keys |-> {}]
  /\ holds = [k \in Keys |-> {}]

Join(c, k) ==
  /\ c \notin queued[k]
  /\ queued' = [queued EXCEPT ![k] = @ \cup {c}]
  /\ before' = [before EXCEPT ![k] = @ \cup (queued[k] \X {c})]
  /\ UNCHANGED holds

Lock(c, k) ==
  /\ c \in queued[k] /\ holds[k] = {}
  /\ \A d \in queued[k] : <<d, c>> \notin before[k]
  /\ holds' = [holds EXCEPT ![k] = {c}]
  /\ UNCHANGED <<queued, before>>

\* A caller leaves, at once, every lock it holds and the queue it waits in.
Leave(c) ==
  /\ \E k \in Keys : c \in queued[k]
  /\ queued' = [k \in Keys |-> queued[k] \ {c}]
  /\ before' = [k \in Keys |-> {p \in before[k] : p[1] # c /\ p[2] # c}]
  /\ holds' = [k \in Keys |-> holds[k] \ {c}]

Next == \E c \in Callers : Leave(c) \/ \E k \in Keys : Join(c, k) \/ Lock(c, k)

Spec == Init /\ [][Next]_lockVars
=============================================================================
