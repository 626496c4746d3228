---------------------------- MODULE MCLeaseQueue ----------------------------
(***************************************************************************)
(* Callers of one and of two keys for LeaseQueue.                          *)
(***************************************************************************)
EXTENDS LeaseQueue

CONSTANTS a, b, c, d, j, k

Sorted == [key \in Keys |-> IF key = j THEN 1 ELSE 2]

\* a and b work on both sessions, c and d on one each.
Pairs == [x \in Callers |-> IF x \in {a, b} THEN {j, k} ELSE IF x = c THEN {j} ELSE {k}]
=============================================================================
