---------------------------- MODULE MCJobNotices ----------------------------
(***************************************************************************)
(* A process and a child run of one session; the model may read the one    *)
(* and read or kill the other, for JobNotices.                             *)
(***************************************************************************)
EXTENDS JobNotices

CONSTANTS proc, child, readProc, readChild

JobOf == [c \in Calls |-> IF c = readProc THEN proc ELSE child]
=============================================================================
