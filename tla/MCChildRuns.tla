----------------------------- MODULE MCChildRuns -----------------------------
(***************************************************************************)
(* A run with declared resources and write access that is resumed once,    *)
(* beside a run without either, for ChildRuns.                             *)
(***************************************************************************)
EXTENDS ChildRuns

CONSTANTS p, q

TwiceP == [r \in Runs |-> IF r = p THEN 2 ELSE 1]
=============================================================================
